----------------------------- MODULE WebAppProofs -----------------------------
(***************************************************************************)
(* What the web interface promises on every page, for any number of        *)
(* accounts, champions, queues, requests and answers: the invariants of    *)
(* the pages of the client's data, and with those of CorePagesProofs the   *)
(* properties of WebApp.                                                   *)
(***************************************************************************)
EXTENDS WebApp, CorePagesProofs, SequenceTheorems

-----------------------------------------------------------------------------
(* The games that were played: MatchHistory.                               *)

(* Games in a row, newest first, at most a page behind what was played.    *)
HistoryRow(s, n) ==
  /\ s \in Seq(Nat)
  /\ \A k \in 1 .. Len(s) : s[k] = s[1] - k + 1 /\ s[k] \in 1 .. n
  /\ s # <<>> => n <= s[1] + HistoryPage

(* A list that is read on begins no earlier than behind its first page,    *)
(* and no later than its last game.                                        *)
HistoryMore ==
  \/ more = History!NoAppend
  \/ /\ DOMAIN more = {"at", "begin", "combined", "loadAll"} /\ more.at = "read"
     /\ more.begin \in Nat /\ HistoryPage <= more.begin /\ HistoryPage <= Len(more.combined)
     /\ more.begin <= played - more.combined[Len(more.combined)] + 1

HistoryEnd(s, n) == s[Len(s)] = 1 \/ n - s[Len(s)] + 1 >= HistoryLimit

HistoryInv ==
  /\ played \in Nat /\ hasMore \in BOOLEAN
  /\ HistoryRow(matches, played) /\ HistoryRow(historyLoading.rows, played)
  /\ HistoryRow(more.combined, played) /\ HistoryMore
  /\ hasMore /\ historyLoading.at = "no" => Len(matches) >= HistoryPage
  /\ ~hasMore /\ matches # <<>> /\ dataSource = "LCU" /\ historyLoading.at # "read" =>
       HistoryEnd(matches, played)
  /\ historyLoading.at = "read" /\ dataSource = "LCU" /\ historyLoading.rows # <<>> =>
       Len(historyLoading.rows) = HistoryPage
         \/ historyLoading.rows[Len(historyLoading.rows)] = 1

LEMMA HistoryNone == ASSUME NEW n PROVE HistoryRow(<<>>, n)
<1>1. <<>> \in Seq(Nat) /\ Len(<<>>) = 0
  OBVIOUS
<1> QED BY <1>1 DEF HistoryRow

LEMMA HistoryLater ==
  ASSUME NEW s, NEW n \in Nat, HistoryRow(s, n), s # <<>> => n < s[1] + HistoryPage
  PROVE  HistoryRow(s, n + 1)
<1>1. s # <<>> => 1 \in 1 .. Len(s)
  BY DEF HistoryRow
<1>2. s # <<>> => s[1] \in Nat
  BY <1>1 DEF HistoryRow
<1>3. \A k \in 1 .. Len(s) : s[k] \in 1 .. n + 1
  BY DEF HistoryRow
<1>4. s # <<>> => n + 1 <= s[1] + HistoryPage
  BY <1>2, HistoryAssumption
<1> QED BY <1>3, <1>4 DEF HistoryRow

LEMMA HistoryInvInit == History!Init => HistoryInv
<1> SUFFICES ASSUME History!Init PROVE HistoryInv
  OBVIOUS
<1>1. /\ played \in Nat /\ hasMore = TRUE /\ matches = <<>> /\ more = History!NoAppend
      /\ historyLoading.at = "asked" /\ historyLoading.rows = <<>>
  BY DEF History!Init
<1>2. more.combined = <<>>
  BY <1>1 DEF History!NoAppend
<1> QED BY <1>1, <1>2, HistoryNone DEF HistoryInv, HistoryMore

(* What League answers: from a place in the history up to a page.          *)
LEMMA HistoryRows ==
  ASSUME played \in Nat, NEW begin \in Nat
  PROVE  LET rows == History!Rows(begin) IN
         /\ rows \in Seq(Nat) /\ Len(rows) \in 0 .. HistoryPage
         /\ DOMAIN rows = 1 .. Len(rows)
         /\ \A k \in 1 .. Len(rows) : rows[k] = played - begin - k + 1
         /\ Len(rows) < HistoryPage => IF played <= begin THEN Len(rows) = 0 ELSE Len(rows) = played - begin
         /\ played <= begin => Len(rows) = 0
         /\ Len(rows) # 0 => played - begin >= Len(rows)
<1> DEFINE n == IF played <= begin THEN 0
                ELSE IF played - begin < HistoryPage THEN played - begin ELSE HistoryPage
           rows == History!Rows(begin)
<1>1. n \in Nat /\ n <= HistoryPage /\ (n # 0 => n <= played - begin)
  BY HistoryAssumption
<1>2. rows = [k \in 1 .. n |-> played - begin - k + 1]
  BY DEF History!Rows
<1>3. \A k \in 1 .. n : played - begin - k + 1 \in Nat
  BY <1>1
<1>4. /\ n < HistoryPage => IF played <= begin THEN n = 0 ELSE n = played - begin
      /\ played <= begin => n = 0
  BY HistoryAssumption
<1> HIDE DEF n, rows
<1>5. rows \in Seq(Nat) /\ Len(rows) = n /\ DOMAIN rows = 1 .. n
  BY <1>1, <1>2, <1>3
<1>6. \A k \in 1 .. n : rows[k] = played - begin - k + 1
  BY <1>2
<1> QED BY <1>1, <1>4, <1>5, <1>6 DEF rows

LEMMA HistoryInterval ==
  ASSUME NEW a \in Nat, NEW b \in Nat, a <= b
  PROVE  History!Cardinality(a + 1 .. b) = b - a
<1>1. a + 1 \in Int /\ b \in Int
  OBVIOUS
<1>2. Cardinality(a + 1 .. b) = IF a + 1 > b THEN 0 ELSE b - (a + 1) + 1
  BY <1>1, FS_Interval
<1>3. Cardinality(a + 1 .. b) = b - a
  BY <1>2
<1> QED BY <1>3 DEF History!Cardinality, Cardinality

(* The games of a page that are not in the list yet follow its last game.  *)
LEMMA HistoryAppended ==
  ASSUME HistoryInv, more.at = "read"
  PROVE  LET rows == History!Rows(more.begin)
             new == History!Appended(rows)
             end == more.begin + Len(rows)
         IN /\ HistoryRow(new, played) /\ Len(new) \in Nat /\ Len(new) >= Len(more.combined)
            /\ HistoryPage <= Len(new)
            /\ end <= played - new[Len(new)] + 1
            /\ Len(rows) < HistoryPage => new[Len(new)] = 1
<1> DEFINE c == more.combined
           begin == more.begin
           rows == History!Rows(begin)
           L == Len(c)
           last == c[L]
           R == Len(rows)
           d == played - begin + 1 - last
           unique == {k \in DOMAIN rows : \A i \in DOMAIN c : c[i] # rows[k]}
           Nth(n) == CHOOSE k \in unique : History!Cardinality({j \in unique : j <= k}) = n
           new == History!Appended(rows)
<1>1. more # History!NoAppend
  BY DEF History!NoAppend
<1>2. begin \in Nat /\ HistoryPage <= begin /\ HistoryPage <= L /\ begin <= played - last + 1
  BY <1>1 DEF HistoryInv, HistoryMore
<1>3. c \in Seq(Nat)
  BY DEF HistoryInv, HistoryRow
<1>4. L \in Nat /\ DOMAIN c = 1 .. L
  BY <1>3
<1>5. HistoryPage \in Nat /\ HistoryPage >= 1 /\ played \in Nat
  BY HistoryAssumption DEF HistoryInv
<1>6. \A k \in 1 .. L : c[k] = c[1] - k + 1 /\ c[k] \in 1 .. played
  BY DEF HistoryInv, HistoryRow
<1>7. 1 \in 1 .. L /\ L \in 1 .. L /\ c # <<>>
  BY <1>2, <1>4, <1>5
<1>8. c[1] \in 1 .. played /\ last \in 1 .. played /\ last = c[1] - L + 1
  BY <1>6, <1>7
<1>9. played <= c[1] + HistoryPage
  BY <1>7 DEF HistoryInv, HistoryRow
<1>10. /\ rows \in Seq(Nat) /\ R \in 0 .. HistoryPage /\ DOMAIN rows = 1 .. R
       /\ \A k \in 1 .. R : rows[k] = played - begin - k + 1
       /\ R < HistoryPage => IF played <= begin THEN R = 0 ELSE R = played - begin
       /\ R # 0 => played - begin >= R
  BY <1>2, <1>5, HistoryRows
<1>11. new = c \o [n \in 1 .. History!Cardinality(unique) |-> rows[Nth(n)]]
  BY DEF History!Appended
<1>12. d \in Nat
  <2>1. begin \in Nat /\ last \in Nat /\ played \in Nat /\ begin <= played - last + 1
    BY <1>2, <1>5, <1>8
  <2> HIDE DEF begin, last
  <2> QED BY <2>1 DEF d
<1> HIDE DEF c, rows, L, last, R, d, begin
<1>13. \A k \in 1 .. R : k \in unique <=> k > d
  <2> SUFFICES ASSUME NEW k \in 1 .. R PROVE k \in unique <=> k > d
    OBVIOUS
  <2>1. rows[k] = played - begin - k + 1
    BY <1>10
  <2>2. rows[k] <= c[1] /\ rows[k] \in Int
    BY <2>1, <1>2, <1>5, <1>8, <1>9
  <2>3. k > d <=> rows[k] < last
    BY <2>1, <1>2, <1>5, <1>8 DEF d
  <2>4. CASE rows[k] < last
    <3>1. \A i \in 1 .. L : c[i] >= last
      BY <1>4, <1>6, <1>8
    <3>2. \A i \in 1 .. L : c[i] # rows[k]
      BY <3>1, <2>2, <2>4, <1>6, <1>8
    <3> QED BY <3>2, <2>3, <2>4, <1>4, <1>10
  <2>5. CASE ~(rows[k] < last)
    <3> DEFINE i == c[1] - rows[k] + 1
    <3>1. i \in 1 .. L
      BY <2>2, <2>5, <1>4, <1>8
    <3>2. c[i] = c[1] - i + 1
      BY <3>1, <1>6
    <3>3. c[i] = rows[k]
      BY <3>2, <2>2, <1>8
    <3>4. ~(k \in unique)
      BY <3>1, <3>3, <1>4
    <3> QED BY <3>4, <2>3, <2>5
  <2> QED BY <2>4, <2>5
<1>14. unique \subseteq 1 .. R
  BY <1>10
<1>17. /\ played \in Nat /\ begin \in Nat /\ last \in Nat /\ L \in Nat /\ R \in Nat /\ d \in Nat
       /\ HistoryPage \in Nat /\ last >= 1 /\ last <= played /\ 1 <= L /\ 1 <= HistoryPage
  BY <1>2, <1>4, <1>5, <1>7, <1>8, <1>10, <1>12
<1>18. d = played - begin + 1 - last
  BY DEF d
<1>19. R < HistoryPage => IF played <= begin THEN R = 0 ELSE R = played - begin
  BY <1>10
<1>20. R # 0 => played - begin >= R
  BY <1>10
<1>15. CASE R <= d
  <2>1. unique = {}
    BY <1>10, <1>12, <1>13, <1>14, <1>15
  <2>2. History!Cardinality(unique) = 0
    <3>1. Cardinality({}) = 0
      BY FS_EmptySet
    <3> QED BY <2>1, <3>1 DEF History!Cardinality, Cardinality
  <2> HIDE DEF new, unique, Nth
  <2>3. new = c
    <3>1. [n \in 1 .. 0 |-> rows[Nth(n)]] = <<>>
      OBVIOUS
    <3>2. c \o <<>> = c
      BY <1>3
    <3> QED BY <3>1, <3>2, <2>2, <1>11
  <2>4. begin + R <= played - last + 1
    BY <1>15, <1>17, <1>18
  <2>5. R < HistoryPage => last = 1
    BY <1>15, <1>17, <1>18, <1>19
  <2>6. HistoryRow(c, played)
    BY DEF HistoryInv, c
  <2> QED BY <2>3, <2>4, <2>5, <2>6, <1>2, <1>4 DEF new, rows, begin, L, R, last, c
<1>16. CASE d < R
  <2> DEFINE m == R - d
             tail == [n \in 1 .. m |-> last - n]
  <2>1. m \in Nat /\ m >= 1
    BY <1>10, <1>12, <1>16
  <2>2. unique = d + 1 .. R
    BY <1>10, <1>12, <1>13, <1>14, <1>16
  <2>3. History!Cardinality(unique) = m
    <3>1. d <= R
      BY <1>16, <1>17
    <3>2. History!Cardinality(d + 1 .. R) = R - d
      BY <3>1, <1>17, HistoryInterval
    <3> QED BY <2>2, <3>2
  <2>4. \A n \in 1 .. m : Nth(n) = d + n
    <3> SUFFICES ASSUME NEW n \in 1 .. m PROVE Nth(n) = d + n
      OBVIOUS
    <3>1. \A k \in unique : History!Cardinality({j \in unique : j <= k}) = k - d
      <4> SUFFICES ASSUME NEW k \in unique PROVE History!Cardinality({j \in unique : j <= k}) = k - d
        OBVIOUS
      <4>1. k \in d + 1 .. R
        BY <2>2
      <4>2. {j \in unique : j <= k} = d + 1 .. k
        BY <2>2, <4>1, <1>10, <1>12
      <4>3. k \in Nat /\ d <= k
        BY <4>1, <1>10, <1>12
      <4> QED BY <4>2, <4>3, <1>12, HistoryInterval
    <3>2. d + n \in unique
      BY <2>1, <2>2, <1>10, <1>12
    <3>3. \A k \in unique : k - d = n <=> k = d + n
      <4>1. \A k \in d + 1 .. R : k - d = n <=> k = d + n
        BY <2>1, <1>17
      <4> QED BY <2>2, <4>1
    <3>4. \A k \in unique : History!Cardinality({j \in unique : j <= k}) = n <=> k = d + n
      BY <3>1, <3>3
    <3> HIDE DEF unique
    <3> QED BY <3>2, <3>4
  <2>5. \A n \in 1 .. m : rows[d + n] = last - n
    <3> SUFFICES ASSUME NEW n \in 1 .. m PROVE rows[d + n] = last - n
      OBVIOUS
    <3>1. d + n \in 1 .. R
      BY <1>17
    <3>2. rows[d + n] = played - begin - (d + n) + 1
      BY <3>1, <1>10
    <3> QED BY <3>2, <2>1, <1>17, <1>18
  <2> HIDE DEF new, unique, Nth, m
  <2>6. new = c \o tail
    BY <2>3, <2>4, <2>5, <1>11
  <2>7. played - begin >= R /\ last - m = played - begin - R + 1
    BY <1>16, <1>17, <1>18, <1>20 DEF m
  <2>8. last - m >= 1
    BY <2>7, <1>2, <1>5, <1>10
  <2>9. \A n \in 1 .. m : last - n \in Nat /\ last - n \in 1 .. played
    BY <2>1, <2>8, <1>8, <1>5
  <2>10. tail \in Seq(Nat) /\ Len(tail) = m
    BY <2>1, <2>9
  <2>11. /\ new \in Seq(Nat) /\ Len(new) = L + m
         /\ \A k \in 1 .. L : new[k] = c[k]
         /\ \A k \in L + 1 .. L + m : new[k] = tail[k - L]
    <3> HIDE DEF tail
    <3>1. c \in Seq(Nat) /\ tail \in Seq(Nat) /\ Len(c) = L /\ Len(tail) = m
      BY <2>10, <1>3 DEF L
    <3>2. c \o tail \in Seq(Nat) /\ Len(c \o tail) = L + m
      BY <3>1, ConcatProperties
    <3>3. \A k \in 1 .. L + m : (c \o tail)[k] = IF k <= L THEN c[k] ELSE tail[k - L]
      BY <3>1, ConcatProperties
    <3>4. \A k \in 1 .. L + m : new[k] = IF k <= L THEN c[k] ELSE tail[k - L]
      BY <2>6, <3>3
    <3>5. \A k \in 1 .. L : k \in 1 .. L + m /\ k <= L
      BY <2>1, <1>17
    <3>6. \A k \in L + 1 .. L + m : k \in 1 .. L + m /\ ~(k <= L)
      BY <2>1, <1>17
    <3>7. \A k \in 1 .. L : new[k] = c[k]
      BY <3>4, <3>5
    <3>8. \A k \in L + 1 .. L + m : new[k] = tail[k - L]
      BY <3>4, <3>6
    <3> QED BY <2>6, <3>2, <3>7, <3>8
  <2>12. \A k \in L + 1 .. L + m : new[k] = last - (k - L)
    <3>1. \A k \in L + 1 .. L + m : k - L \in 1 .. m
      BY <2>1, <1>17
    <3> QED BY <2>11, <3>1
  <2> HIDE DEF tail
  <2>13. new[1] = c[1]
    BY <2>11, <1>7
  <2>14. \A k \in 1 .. Len(new) : new[k] = new[1] - k + 1 /\ new[k] \in 1 .. played
    <3> SUFFICES ASSUME NEW k \in 1 .. Len(new)
                 PROVE  new[k] = new[1] - k + 1 /\ new[k] \in 1 .. played
      OBVIOUS
    <3>1. CASE k \in 1 .. L
      BY <3>1, <2>11, <2>13, <1>6
    <3>2. CASE k \in L + 1 .. L + m
      <4>1. new[k] = last - (k - L)
        BY <3>2, <2>12
      <4>2. last = c[1] - L + 1 /\ c[1] \in Nat
        BY <1>8
      <4>3. k - L <= m /\ k - L >= 1 /\ k \in Nat
        BY <3>2, <2>1, <1>17
      <4>4. last - (k - L) >= 1 /\ last - (k - L) <= played
        BY <4>3, <2>1, <2>8, <1>17
      <4> QED BY <4>1, <4>2, <4>3, <4>4, <2>13, <1>17
    <3> QED BY <3>1, <3>2, <2>1, <2>11, <1>4
  <2>15. new[Len(new)] = last - m
    BY <2>11, <2>12, <2>1, <1>4
  <2>16. begin + R <= played - (last - m) + 1
    BY <2>7, <1>2, <1>5, <1>8, <1>10
  <2>17. R < HistoryPage => last - m = 1
    BY <2>7, <1>2, <1>5, <1>10, <1>12, <1>16
  <2>18. HistoryRow(new, played)
    BY <2>11, <2>13, <2>14, <1>9 DEF HistoryRow
  <2>19. Len(new) \in Nat /\ Len(new) >= L /\ HistoryPage <= Len(new)
    BY <2>1, <2>11, <1>2, <1>4, <1>5
  <2> QED BY <2>15, <2>16, <2>17, <2>18, <2>19 DEF new, rows, begin, L, R, c
<1> QED BY <1>15, <1>16, <1>10, <1>12

LEMMA HistoryInvNext == HistoryInv /\ [History!Next]_(History!vars) => HistoryInv'
<1> SUFFICES ASSUME HistoryInv, [History!Next]_(History!vars) PROVE HistoryInv'
  OBVIOUS
<1>a. HistoryPage \in Nat /\ HistoryPage >= 1 /\ HistoryLimit \in Nat
  BY HistoryAssumption
<1>b. played \in Nat /\ HistoryRow(<<>>, played) /\ History!NoAppend.combined = <<>>
  BY HistoryNone DEF HistoryInv, History!NoAppend
<1>1. CASE History!GameEnds
  <2>1. /\ played' = played + 1
        /\ UNCHANGED <<matches, hasMore, dataSource, historyLoading, more>>
        /\ matches # <<>> => played < matches[1] + HistoryPage
        /\ historyLoading.rows # <<>> => played < historyLoading.rows[1] + HistoryPage
        /\ more.combined # <<>> => played < more.combined[1] + HistoryPage
    BY <1>1 DEF History!GameEnds
  <2>2. /\ HistoryRow(matches, played + 1) /\ HistoryRow(historyLoading.rows, played + 1)
        /\ HistoryRow(more.combined, played + 1)
    BY <2>1, <1>b, HistoryLater DEF HistoryInv
  <2>3. HistoryMore'
    <3>1. CASE more = History!NoAppend
      BY <3>1, <2>1 DEF HistoryMore, History!NoAppend
    <3>2. CASE more # History!NoAppend
      <4>1. more.combined # <<>> /\ Len(more.combined) \in 1 .. Len(more.combined)
        BY <3>2, <1>a DEF HistoryInv, HistoryMore, HistoryRow
      <4>2. more.combined[Len(more.combined)] \in 1 .. played
        BY <4>1 DEF HistoryInv, HistoryRow
      <4>3. /\ more.begin \in Nat
            /\ more.begin <= played - more.combined[Len(more.combined)] + 1
        BY <3>2 DEF HistoryInv, HistoryMore
      <4>4. more.begin <= played + 1 - more.combined[Len(more.combined)] + 1
        BY <4>2, <4>3, <1>b
      <4>5. /\ DOMAIN more = {"at", "begin", "combined", "loadAll"} /\ more.at = "read"
            /\ more.begin \in Nat /\ HistoryPage <= more.begin
            /\ HistoryPage <= Len(more.combined)
        BY <3>2 DEF HistoryInv, HistoryMore
      <4>6. more' = more /\ played' = played + 1
        BY <2>1
      <4>7. more'.begin <= played' - more'.combined[Len(more'.combined)] + 1
        BY <4>2, <4>3, <4>6, <1>b
      <4> QED BY <4>5, <4>6, <4>7 DEF HistoryMore
    <3> QED BY <3>1, <3>2
  <2>4. matches # <<>> /\ HistoryEnd(matches, played) => HistoryEnd(matches, played + 1)
    <3> SUFFICES ASSUME matches # <<>>, HistoryEnd(matches, played)
                 PROVE  HistoryEnd(matches, played + 1)
      OBVIOUS
    <3>1. Len(matches) \in 1 .. Len(matches)
      BY DEF HistoryInv, HistoryRow
    <3>2. matches[Len(matches)] \in 1 .. played
      BY <3>1 DEF HistoryInv, HistoryRow
    <3> QED BY <3>2, <1>a, <1>b DEF HistoryEnd
  <2> QED BY <2>1, <2>2, <2>3, <2>4, <1>b DEF HistoryInv
<1>2. CASE History!Refresh
  <2>1. /\ historyLoading' = [at |-> "asked", rows |-> <<>>]
        /\ UNCHANGED <<played, matches, hasMore, dataSource, more>>
        /\ historyLoading.at # "read"
    BY <1>2 DEF History!Refresh, History!refreshFrame
  <2>2. historyLoading'.at = "asked" /\ historyLoading'.rows = <<>>
    BY <2>1
  <2>3. HistoryMore'
    BY <2>1 DEF HistoryInv, HistoryMore, History!NoAppend
  <2> QED BY <2>1, <2>2, <2>3, <1>b DEF HistoryInv
<1>3. CASE History!RefreshRead
  <2>1. UNCHANGED <<played, matches, hasMore, more>> /\ historyLoading.at = "asked"
    BY <1>3 DEF History!RefreshRead, History!refreshFrame
  <2>2. HistoryMore'
    BY <2>1 DEF HistoryInv, HistoryMore, History!NoAppend
  <2>3. CASE historyLoading' = [at |-> "read", rows |-> History!Rows(0)] /\ dataSource' = "LCU"
    <3> DEFINE rows == History!Rows(0)
    <3>1. /\ rows \in Seq(Nat) /\ Len(rows) \in 0 .. HistoryPage
          /\ \A k \in 1 .. Len(rows) : rows[k] = played - 0 - k + 1
          /\ Len(rows) < HistoryPage => IF played <= 0 THEN Len(rows) = 0 ELSE Len(rows) = played - 0
          /\ Len(rows) # 0 => played - 0 >= Len(rows)
      BY <1>b, HistoryRows
    <3> HIDE DEF rows
    <3>2. \A k \in 1 .. Len(rows) : rows[k] = rows[1] - k + 1 /\ rows[k] \in 1 .. played
      <4> SUFFICES ASSUME NEW k \in 1 .. Len(rows)
                   PROVE  rows[k] = rows[1] - k + 1 /\ rows[k] \in 1 .. played
        OBVIOUS
      <4>1. Len(rows) \in Nat /\ k \in Nat /\ 1 <= k /\ k <= Len(rows) /\ 1 \in 1 .. Len(rows)
        BY <3>1, <1>a
      <4>2. rows[k] = played - 0 - k + 1 /\ rows[1] = played - 0 - 1 + 1 /\ played - 0 >= Len(rows)
        BY <3>1, <4>1
      <4> QED BY <4>1, <4>2, <1>b
    <3>3. rows # <<>> => Len(rows) \in 1 .. Len(rows) /\ 1 \in 1 .. Len(rows)
      BY <3>1
    <3>4. rows # <<>> => played <= rows[1] + HistoryPage
      BY <3>1, <3>3, <1>a, <1>b
    <3>5. rows # <<>> => Len(rows) = HistoryPage \/ rows[Len(rows)] = 1
      BY <3>1, <3>3, <1>a, <1>b
    <3>6. HistoryRow(rows, played)
      BY <3>1, <3>2, <3>4 DEF HistoryRow
    <3>7. historyLoading'.at = "read" /\ historyLoading'.rows = rows
      BY <2>3 DEF rows
    <3> QED BY <2>1, <2>2, <3>5, <3>6, <3>7 DEF HistoryInv
  <2>4. CASE /\ History!Rows(0) # <<>> /\ dataSource' = "Riot API"
             /\ historyLoading' = [at |-> "read", rows |-> <<played>>]
    <3>1. played # 0
      <4>1. /\ History!Rows(0) \in Seq(Nat)
            /\ played <= 0 => Len(History!Rows(0)) = 0
        BY <1>b, HistoryRows
      <4>2. History!Rows(0) = <<>> <=> Len(History!Rows(0)) = 0
        BY <4>1
      <4>3. played = 0 => played <= 0
        OBVIOUS
      <4> QED BY <4>1, <4>2, <4>3, <2>4
    <3>2. <<played>> \in Seq(Nat) /\ Len(<<played>>) = 1 /\ <<played>>[1] = played
      BY <1>b
    <3>3. HistoryRow(<<played>>, played)
      BY <3>1, <3>2, <1>a, <1>b DEF HistoryRow
    <3>4. historyLoading'.at = "read" /\ historyLoading'.rows = <<played>>
      BY <2>4
    <3> QED BY <2>1, <2>2, <2>4, <3>3, <3>4 DEF HistoryInv
  <2>5. CASE historyLoading' = [at |-> "error", rows |-> <<>>] /\ UNCHANGED dataSource
    <3>1. historyLoading'.at = "error" /\ historyLoading'.rows = <<>>
      BY <2>5
    <3> QED BY <2>1, <2>2, <2>5, <3>1, <1>b DEF HistoryInv
  <2> QED BY <1>3, <2>3, <2>4, <2>5 DEF History!RefreshRead
<1>4. CASE History!Refreshed
  <2> DEFINE rows == historyLoading.rows
  <2>1. /\ historyLoading' = [at |-> "no", rows |-> <<>>] /\ historyLoading.at = "read"
        /\ matches' = rows /\ hasMore' = (Len(rows) = HistoryPage)
        /\ UNCHANGED <<played, dataSource, more>>
    BY <1>4 DEF History!Refreshed, History!refreshFrame
  <2>2. historyLoading'.at = "no" /\ historyLoading'.rows = <<>>
    BY <2>1
  <2>3. HistoryMore'
    BY <2>1 DEF HistoryInv, HistoryMore, History!NoAppend
  <2>4. hasMore' \in BOOLEAN /\ (hasMore' => Len(rows) >= HistoryPage)
    <3>1. Len(rows) = HistoryPage => Len(rows) >= HistoryPage
      BY <1>a
    <3>2. hasMore' \in BOOLEAN /\ (hasMore' => Len(rows) = HistoryPage)
      BY <2>1
    <3> QED BY <3>1, <3>2
  <2>5. ~hasMore' /\ rows # <<>> /\ dataSource = "LCU" => rows[Len(rows)] = 1
    BY <2>1 DEF HistoryInv
  <2> QED BY <2>1, <2>2, <2>3, <2>4, <2>5, <1>b DEF HistoryInv, HistoryEnd
<1>5. CASE History!AppendPage
  <2>1. PICK loadAll \in BOOLEAN :
          more' = [at |-> "read", begin |-> Len(matches), combined |-> matches, loadAll |-> loadAll]
    BY <1>5 DEF History!AppendPage
  <2>2. /\ UNCHANGED <<played, matches, hasMore, dataSource, historyLoading>>
        /\ hasMore /\ historyLoading.at = "no"
    BY <1>5 DEF History!AppendPage
  <2>3. /\ DOMAIN more' = {"at", "begin", "combined", "loadAll"} /\ more'.at = "read"
        /\ more'.begin = Len(matches) /\ more'.combined = matches
    BY <2>1
  <2>4. Len(matches) >= HistoryPage /\ Len(matches) \in Nat
    BY <2>2 DEF HistoryInv, HistoryRow
  <2>5. Len(matches) <= played - matches[Len(matches)] + 1
    <3>1. 1 \in 1 .. Len(matches) /\ Len(matches) \in 1 .. Len(matches)
      BY <2>4, <1>a
    <3>2. matches[1] \in 1 .. played /\ matches[Len(matches)] = matches[1] - Len(matches) + 1
      BY <3>1 DEF HistoryInv, HistoryRow
    <3> QED BY <3>2, <2>4, <1>b
  <2>6. HistoryMore'
    BY <2>2, <2>3, <2>4, <2>5 DEF HistoryMore
  <2> QED BY <2>2, <2>3, <2>6 DEF HistoryInv
<1>6. CASE History!PageRead
  <2> DEFINE rows == History!Rows(more.begin)
             new == History!Appended(rows)
             end == more.begin + Len(rows)
             stops == Len(rows) < HistoryPage \/ ~more.loadAll \/ end >= HistoryLimit
  <2>1. /\ UNCHANGED <<played, dataSource, historyLoading>> /\ more.at = "read"
        /\ IF stops THEN /\ matches' = new /\ more' = History!NoAppend
                         /\ hasMore' = (Len(rows) = HistoryPage /\ end < HistoryLimit)
                    ELSE /\ more' = [more EXCEPT !.begin = end, !.combined = new]
                         /\ UNCHANGED <<matches, hasMore>>
    BY <1>6 DEF History!PageRead
  <2>2. more # History!NoAppend
    BY <2>1 DEF History!NoAppend
  <2>3. /\ HistoryRow(new, played) /\ Len(new) \in Nat /\ HistoryPage <= Len(new)
        /\ end <= played - new[Len(new)] + 1
        /\ Len(rows) < HistoryPage => new[Len(new)] = 1
    BY <2>1, HistoryAppended
  <2>4. more.begin \in Nat /\ Len(rows) \in 0 .. HistoryPage /\ HistoryPage <= more.begin
    <3>1. more.begin \in Nat /\ HistoryPage <= more.begin
      BY <2>2 DEF HistoryInv, HistoryMore
    <3> QED BY <3>1, <1>b, HistoryRows
  <2>5. end \in Nat /\ HistoryPage <= end
    BY <2>4, <1>a
  <2>6. new[Len(new)] \in 1 .. played
    <3>1. Len(new) \in 1 .. Len(new)
      BY <2>3, <1>a
    <3> QED BY <3>1, <2>3 DEF HistoryRow
  <2> HIDE DEF rows, new, end
  <2>7. CASE stops
    <3>1. /\ matches' = new /\ more' = History!NoAppend
          /\ hasMore' = (Len(rows) = HistoryPage /\ end < HistoryLimit)
      BY <2>1, <2>7
    <3>2. HistoryMore' /\ more'.combined = <<>>
      BY <3>1, <1>b DEF HistoryMore, History!NoAppend
    <3>3. ~(Len(rows) = HistoryPage /\ end < HistoryLimit) => HistoryEnd(new, played)
      BY <2>3, <2>4, <2>5, <2>6, <1>a, <1>b DEF HistoryEnd
    <3>4. hasMore' \in BOOLEAN /\ (~hasMore' => HistoryEnd(new, played))
      BY <3>1, <3>3
    <3> QED BY <3>1, <3>2, <3>4, <2>1, <2>3, <1>b DEF HistoryInv
  <2>8. CASE ~stops
    <3>1. more' = [more EXCEPT !.begin = end, !.combined = new] /\ UNCHANGED <<matches, hasMore>>
      BY <2>1, <2>8
    <3>2. DOMAIN more = {"at", "begin", "combined", "loadAll"}
      BY <2>2 DEF HistoryInv, HistoryMore
    <3>3. /\ DOMAIN more' = {"at", "begin", "combined", "loadAll"} /\ more'.at = "read"
          /\ more'.begin = end /\ more'.combined = new
      BY <3>1, <3>2, <2>1
    <3>4. HistoryMore'
      BY <3>3, <2>1, <2>3, <2>5 DEF HistoryMore
    <3> QED BY <3>1, <3>3, <3>4, <2>1, <2>3 DEF HistoryInv
  <2> QED BY <2>7, <2>8
<1>7. CASE History!AppendStops
  <2>1. /\ UNCHANGED <<played, dataSource, historyLoading>> /\ more.at = "read"
        /\ more' = History!NoAppend /\ hasMore' = (hasMore /\ more.begin < HistoryLimit)
        /\ matches' = IF more.begin >= HistoryLimit THEN more.combined ELSE matches
    BY <1>7 DEF History!AppendStops
  <2>2. more # History!NoAppend
    BY <2>1 DEF History!NoAppend
  <2>3. /\ more.begin \in Nat /\ HistoryPage <= Len(more.combined)
        /\ more.begin <= played - more.combined[Len(more.combined)] + 1
    BY <2>2 DEF HistoryInv, HistoryMore
  <2>4. HistoryMore' /\ more'.combined = <<>>
    BY <2>1, <1>b DEF HistoryMore, History!NoAppend
  <2>5. CASE more.begin >= HistoryLimit
    <3>1. more.combined[Len(more.combined)] \in 1 .. played
      <4>1. Len(more.combined) \in 1 .. Len(more.combined)
        BY <2>3, <1>a DEF HistoryInv, HistoryRow
      <4> QED BY <4>1 DEF HistoryInv, HistoryRow
    <3>2. HistoryEnd(more.combined, played)
      BY <3>1, <2>3, <2>5, <1>a, <1>b DEF HistoryEnd
    <3>3. hasMore' = FALSE /\ matches' = more.combined
      <4>1. ~(more.begin < HistoryLimit)
        BY <2>3, <2>5, <1>a
      <4>2. hasMore' = FALSE
        BY <2>1, <4>1
      <4> QED BY <2>1, <2>5, <4>2
    <3> QED BY <3>2, <3>3, <2>1, <2>4, <1>b DEF HistoryInv
  <2>6. CASE ~(more.begin >= HistoryLimit)
    <3>1. hasMore' = hasMore /\ matches' = matches
      BY <2>1, <2>3, <2>6, <1>a DEF HistoryInv
    <3> QED BY <3>1, <2>1, <2>4, <1>b DEF HistoryInv
  <2> QED BY <2>5, <2>6
<1>8. CASE UNCHANGED <<played, matches, hasMore, dataSource, historyLoading, more>>
  <2>1. HistoryMore'
    BY <1>8 DEF HistoryInv, HistoryMore, History!NoAppend
  <2> QED BY <1>8, <2>1 DEF HistoryInv
<1>9. CASE \/ History!HandleReplay \/ History!ReplayMoves \/ History!PollReplay
           \/ \E s \in replayRead : History!ReplayRead(s)
  BY <1>8, <1>9 DEF History!HandleReplay, History!ReplayMoves, History!PollReplay,
                    History!ReplayRead, History!replayFrame, History!listVars
<1>10. CASE UNCHANGED History!vars
  BY <1>8, <1>10 DEF History!vars
<1> QED
  BY <1>1, <1>2, <1>3, <1>4, <1>5, <1>6, <1>7, <1>9, <1>10 DEF History!Next

LEMMA HistoryNoGap == HistoryInv => History!NoGap
<1> SUFFICES ASSUME HistoryInv PROVE History!NoGap
  OBVIOUS
<1>1. \A k \in 2 .. Len(matches) : matches[k] = matches[k - 1] - 1
  <2> SUFFICES ASSUME NEW k \in 2 .. Len(matches) PROVE matches[k] = matches[k - 1] - 1
    OBVIOUS
  <2>1. k \in 1 .. Len(matches) /\ k - 1 \in 1 .. Len(matches) /\ 1 \in 1 .. Len(matches)
    BY DEF HistoryInv, HistoryRow
  <2>2. matches[1] \in Nat
    BY <2>1 DEF HistoryInv, HistoryRow
  <2>3. matches[k] = matches[1] - k + 1 /\ matches[k - 1] = matches[1] - (k - 1) + 1
    BY <2>1 DEF HistoryInv, HistoryRow
  <2> QED BY <2>1, <2>2, <2>3
<1> QED BY <1>1 DEF HistoryInv, HistoryEnd, History!NoGap

HistorySteps(After, n) ==
  After = [m \in 0 .. n |->
             IF m = 0 THEN [direction |-> 0, n |-> 0, ended |-> FALSE]
             ELSE History!StreakStep(After[m - 1], matches[m])]

(* The function that the streak is read from exists.                       *)
LEMMA HistoryStreak == ASSUME NEW n \in Nat PROVE \E After : HistorySteps(After, n)
<1> DEFINE bad == {m \in Nat : ~ \E After : HistorySteps(After, m)}
<1>1. 0 \notin bad
  <2> DEFINE zero == [m \in 0 .. 0 |-> [direction |-> 0, n |-> 0, ended |-> FALSE]]
  <2>1. HistorySteps(zero, 0)
    BY DEF HistorySteps
  <2> QED BY <2>1
<1>2. ASSUME NEW m \in bad, m - 1 \in Nat, m - 1 \notin bad PROVE FALSE
  <2>1. m \in Nat /\ m >= 1
    BY <1>2
  <2>2. PICK f : HistorySteps(f, m - 1)
    BY <1>2
  <2> DEFINE g == [k \in 0 .. m |-> IF k = m THEN History!StreakStep(f[m - 1], matches[m]) ELSE f[k]]
  <2>3. \A k \in 0 .. m - 1 : g[k] = f[k]
    BY <2>1
  <2>4. \A k \in 0 .. m - 1 : f[k] = IF k = 0 THEN [direction |-> 0, n |-> 0, ended |-> FALSE]
                                     ELSE History!StreakStep(f[k - 1], matches[k])
    BY <2>2 DEF HistorySteps
  <2>5. \A k \in 0 .. m : g[k] = IF k = 0 THEN [direction |-> 0, n |-> 0, ended |-> FALSE]
                                 ELSE History!StreakStep(g[k - 1], matches[k])
    <3> SUFFICES ASSUME NEW k \in 0 .. m
                 PROVE  g[k] = IF k = 0 THEN [direction |-> 0, n |-> 0, ended |-> FALSE]
                               ELSE History!StreakStep(g[k - 1], matches[k])
      OBVIOUS
    <3>1. k # 0 => k - 1 \in 0 .. m - 1
      BY <2>1
    <3>2. k # 0 => g[k - 1] = f[k - 1]
      BY <3>1, <2>3
    <3>3. CASE k = m
      BY <3>2, <3>3, <2>1
    <3>4. CASE k # m
      <4>1. k \in 0 .. m - 1
        BY <3>4, <2>1
      <4> QED BY <4>1, <3>2, <2>3, <2>4
    <3> QED BY <3>3, <3>4
  <2>6. HistorySteps(g, m)
    <3>1. g = [k \in 0 .. m |-> g[k]]
      OBVIOUS
    <3> HIDE DEF g
    <3> QED BY <3>1, <2>5 DEF HistorySteps
  <2> QED BY <2>1, <2>6
<1>3. CASE bad # {}
  <2>1. bad \subseteq Nat
    OBVIOUS
  <2> HIDE DEF bad
  <2>2. PICK m \in bad : \A k \in bad : m <= k
    BY <2>1, <1>3, Least
  <2>3. m \in Nat /\ m # 0
    BY <2>1, <2>2, <1>1
  <2>4. m - 1 \in Nat /\ m - 1 \notin bad
    BY <2>1, <2>2, <2>3
  <2> QED BY <2>2, <2>4, <1>2
<1> QED BY <1>3

LEMMA HistoryStreakIs == HistoryInv => History!StreakIsTheRun
<1> SUFFICES ASSUME HistoryInv, matches # <<>> PROVE History!StreakIsTheRun
  BY DEF History!StreakIsTheRun
<1> DEFINE N == Len(matches)
           After == CHOOSE f : HistorySteps(f, N)
           R(k) == History!Result(matches[k])
<1>1. History!streak = After[N]
  BY DEF History!streak, HistorySteps
<1>2. N \in Nat /\ N >= 1
  BY DEF HistoryInv, HistoryRow
<1>3. HistorySteps(After, N)
  BY <1>2, HistoryStreak
<1>4. \A k \in Nat : R(k) \in {1, -1}
  BY DEF History!Result
<1> HIDE DEF N, After, R
<1>5. \A m \in 0 .. N : After[m] = IF m = 0 THEN [direction |-> 0, n |-> 0, ended |-> FALSE]
                                   ELSE History!StreakStep(After[m - 1], matches[m])
  BY <1>3 DEF HistorySteps
<1>6. After[0].direction = 0
  BY <1>2, <1>5
<1>7. After[1] = [direction |-> R(1), n |-> 1, ended |-> FALSE]
  <2>1. After[1] = History!StreakStep(After[1 - 1], matches[1])
    BY <1>2, <1>5
  <2>2. After[1] = History!StreakStep(After[0], matches[1])
    BY <2>1
  <2> QED BY <2>2, <1>6 DEF History!StreakStep, R
<1> DEFINE Run(s, m) == /\ DOMAIN s = {"direction", "n", "ended"} /\ s.direction = R(1)
                        /\ s.ended \in BOOLEAN /\ s.n \in 1 .. m
                        /\ \A j \in 1 .. s.n : R(j) = R(1)
                        /\ IF s.ended THEN s.n < m /\ R(s.n + 1) # R(1) ELSE s.n = m
           bad == {m \in Nat : m \in 1 .. N /\ ~Run(After[m], m)}
<1>8. 1 \notin bad
  <2>1. /\ DOMAIN After[1] = {"direction", "n", "ended"} /\ After[1].direction = R(1)
        /\ After[1].ended = FALSE /\ After[1].n = 1
    BY <1>7
  <2>2. \A j \in 1 .. 1 : R(j) = R(1)
    OBVIOUS
  <2>3. After[1].n \in 1 .. 1 /\ After[1].ended \in BOOLEAN
    <3>1. 1 \in 1 .. 1 /\ FALSE \in BOOLEAN
      OBVIOUS
    <3> QED BY <2>1, <3>1, Zenon
  <2>4. \A j \in 1 .. After[1].n : R(j) = R(1)
    BY <2>1, <2>2
  <2>5. Run(After[1], 1)
    BY <2>1, <2>3, <2>4
  <2> QED BY <2>5
<1>9. ASSUME NEW m \in bad, m - 1 \in 1 .. N, m - 1 \notin bad PROVE FALSE
  <2> DEFINE s == After[m - 1]
             t == After[m]
  <2>1. m \in Nat /\ m \in 1 .. N /\ m # 0 /\ m - 1 \in Nat
    BY <1>9, <1>2
  <2>2. t = History!StreakStep(s, matches[m])
    BY <2>1, <1>2, <1>5
  <2>3. Run(s, m - 1)
    BY <1>9, <2>1
  <2> HIDE DEF s, t
  <2>4. s.direction # 0
    BY <2>3, <1>4
  <2>5. CASE ~s.ended /\ R(m) = R(1)
    <3>1. t = [s EXCEPT !.n = @ + 1]
      BY <2>2, <2>3, <2>4, <2>5 DEF History!StreakStep, R
    <3>2. /\ DOMAIN t = {"direction", "n", "ended"} /\ t.direction = R(1) /\ ~t.ended
          /\ t.ended \in BOOLEAN /\ t.n = m
      BY <3>1, <2>1, <2>3, <2>5
    <3>3. \A j \in 1 .. m : j \in 1 .. m - 1 \/ j = m
      BY <2>1
    <3>4. \A j \in 1 .. m : R(j) = R(1)
      BY <3>3, <2>3, <2>5
    <3>5. Run(t, m)
      BY <3>2, <3>4, <2>1
    <3> QED BY <3>5, <2>1 DEF t
  <2>6. CASE ~(~s.ended /\ R(m) = R(1))
    <3>1. t = [s EXCEPT !.ended = TRUE]
      BY <2>2, <2>3, <2>4, <2>6 DEF History!StreakStep, R
    <3>2. /\ DOMAIN t = {"direction", "n", "ended"} /\ t.direction = R(1) /\ t.ended = TRUE
          /\ t.n = s.n
      BY <3>1, <2>3
    <3>3. s.n \in 1 .. m /\ s.n < m
      BY <2>1, <2>3
    <3>4. R(s.n + 1) # R(1)
      BY <2>1, <2>3, <2>6
    <3>5. Run(t, m)
      BY <3>2, <3>3, <3>4, <2>3
    <3> QED BY <3>5, <2>1 DEF t
  <2> QED BY <2>5, <2>6
<1>10. CASE bad # {}
  <2>1. bad \subseteq Nat /\ \A m \in bad : m \in 1 .. N
    OBVIOUS
  <2> HIDE DEF bad
  <2>2. PICK m \in bad : \A k \in bad : m <= k
    BY <2>1, <1>10, Least
  <2>3. m - 1 \in 1 .. N
    BY <2>1, <2>2, <1>8, <1>2
  <2>4. m - 1 \notin bad
    BY <2>1, <2>2
  <2> QED BY <2>2, <2>3, <2>4, <1>9
<1>11. CASE bad = {}
  <2>1. N \in Nat /\ N \in 1 .. N
    BY <1>2
  <2>2. Run(History!streak, N)
    BY <2>1, <1>1, <1>11
  <2> DEFINE k == History!streak.n
  <2>3. k \in 1 .. N /\ \A j \in 1 .. k : R(j) = R(1)
    BY <2>2
  <2>4. History!streak.direction = R(1)
    BY <2>2
  <2>5. k < N => R(k + 1) # R(1)
    BY <2>2
  <2> HIDE DEF k
  <2>6. \E x \in 1 .. Len(matches) :
          /\ History!streak.n = x /\ History!streak.direction = History!Result(matches[1])
          /\ \A j \in 1 .. x : History!Result(matches[j]) = History!Result(matches[1])
          /\ x < Len(matches) => History!Result(matches[x + 1]) # History!Result(matches[1])
    BY <2>3, <2>4, <2>5 DEF k, N, R
  <2> QED BY <2>6 DEF History!StreakIsTheRun
<1> QED BY <1>10, <1>11

-----------------------------------------------------------------------------
(* The loot page and its two queues: LootWorkshop.                         *)

(* Only the request of the present selection is still active, and the      *)
(* selection has not moved since a craft was sent.                         *)
LootRequests ==
  /\ asked \subseteq [item : Items, active : BOOLEAN]
  /\ \A r \in asked : r.active => r.item = selected

LootCrafts == crafting \in Items => crafting = selected

LootRecipesShown == recipes \in {Loot!None, selected}

LootRecipes == LootRequests /\ LootCrafts /\ LootRecipesShown

(* What a step does to the recipes: it selects, it shows, or it leaves     *)
(* them alone, and then it sends no craft either.                          *)
LootRests == UNCHANGED Loot!recipeVars /\ crafting' \in {crafting, "", "batch"}

LEMMA LootCallRests == Loot!CallStep => LootRests
<1> SUFFICES ASSUME Loot!CallStep PROVE LootRests
  OBVIOUS
<1> USE DEF LootRests, Loot!recipeVars, Loot!callFrame, Loot!pageFrame, Loot!Throw
<1>1. CASE Loot!StatusRead  BY <1>1 DEF Loot!StatusRead
<1>2. CASE Loot!StatusFails  BY <1>2 DEF Loot!StatusFails
<1>3. CASE Loot!Looked  BY <1>3 DEF Loot!Looked
<1>4. CASE Loot!Submitted  BY <1>4 DEF Loot!Submitted
<1>5. CASE Loot!SubmitFails  BY <1>5 DEF Loot!SubmitFails
<1>6. CASE Loot!Watched  BY <1>6 DEF Loot!Watched
<1>7. CASE Loot!PauseEnds  BY <1>7 DEF Loot!PauseEnds
<1>8. CASE Loot!Concludes  BY <1>8 DEF Loot!Concludes
<1>9. CASE Loot!Reloaded  BY <1>9 DEF Loot!Reloaded
<1> QED  BY <1>1, <1>2, <1>3, <1>4, <1>5, <1>6, <1>7, <1>8, <1>9 DEF Loot!CallStep

LEMMA LootOthersRest ==
  ASSUME \/ Loot!AddToBatch \/ Loot!PreviewAnswer \/ Loot!CloseReview \/ Loot!HandleExecute
         \/ Loot!OperationMoves \/ Loot!CallStep \/ UNCHANGED Loot!vars
         \/ \E i \in Items : Loot!RemoveFromBatch(i)
         \/ \E o \in Operations : Loot!ExecuteBatch(o) \/ Loot!ExecuteArrives(o) \/ Loot!ExecuteLost(o)
  PROVE  LootRests
<1> USE DEF LootRests, Loot!recipeVars, Loot!callFrame, Loot!pageFrame
<1>1. CASE Loot!AddToBatch  BY <1>1 DEF Loot!AddToBatch
<1>2. CASE Loot!PreviewAnswer  BY <1>2 DEF Loot!PreviewAnswer
<1>3. CASE Loot!CloseReview  BY <1>3 DEF Loot!CloseReview
<1>4. CASE Loot!HandleExecute  BY <1>4 DEF Loot!HandleExecute
<1>5. CASE Loot!OperationMoves  BY <1>5 DEF Loot!OperationMoves
<1>6. CASE Loot!CallStep  BY <1>6, LootCallRests
<1>7. CASE UNCHANGED Loot!vars  BY <1>7 DEF Loot!vars
<1>8. ASSUME NEW i \in Items, Loot!RemoveFromBatch(i) PROVE LootRests
  BY <1>8 DEF Loot!RemoveFromBatch
<1>9. ASSUME NEW o \in Operations, Loot!ExecuteBatch(o) PROVE LootRests
  BY <1>9 DEF Loot!ExecuteBatch
<1>10. ASSUME NEW o \in Operations, Loot!ExecuteArrives(o) \/ Loot!ExecuteLost(o) PROVE LootRests
  BY <1>10 DEF Loot!ExecuteArrives, Loot!ExecuteLost
<1> QED
  BY <1>1, <1>2, <1>3, <1>4, <1>5, <1>6, <1>7, <1>8, <1>9, <1>10

LEMMA LootRecipesInit ==
  Loot!Init => LootRecipes /\ Loot!Recipes!Init
  BY LootAssumption DEF LootAssumption, Loot!Init, LootRecipes, LootRequests, LootCrafts,
                        LootRecipesShown, Loot!Recipes!Init, Loot!None

(* Every step keeps the invariant, and is one the promise allows.          *)
LEMMA LootRecipesNext ==
  LootRecipes /\ [Loot!Next]_(Loot!vars) => LootRecipes' /\ [Loot!Recipes!Next]_(Loot!Recipes!vars)
<1> SUFFICES ASSUME LootRecipes, [Loot!Next]_(Loot!vars)
             PROVE  LootRecipes' /\ [Loot!Recipes!Next]_(Loot!Recipes!vars)
  OBVIOUS
<1> USE LootAssumption DEF LootAssumption, LootRecipes, LootRequests, LootCrafts, LootRecipesShown,
                           Loot!Recipes!vars, Loot!Recipes!Next, Loot!Recipes!Show, Loot!Recipes!Want
<1>1. ASSUME NEW i \in Items, Loot!SelectMaterial(i)
      PROVE  LootRecipes' /\ [Loot!Recipes!Next]_(Loot!Recipes!vars)
  <2>1. /\ crafting' = crafting /\ crafting \notin Items
        /\ selected' = i /\ recipes' = Loot!None
        /\ asked' = {[r EXCEPT !.active = FALSE] : r \in asked}
                      \cup {[item |-> i, active |-> TRUE]}
    BY <1>1 DEF Loot!SelectMaterial
  <2>2. \A r \in asked :
          /\ [r EXCEPT !.active = FALSE] \in [item : Items, active : BOOLEAN]
          /\ ~ [r EXCEPT !.active = FALSE].active
    OBVIOUS
  <2>3. ASSUME NEW q \in asked' PROVE q \in [item : Items, active : BOOLEAN]
                                       /\ (q.active => q.item = i)
    <3>1. CASE q = [item |-> i, active |-> TRUE]  BY <3>1
    <3>2. CASE \E r \in asked : q = [r EXCEPT !.active = FALSE]
      BY <3>2, <2>2
    <3> QED  BY <2>1, <3>1, <3>2
  <2>4. LootRequests'
    BY <2>1, <2>3
  <2> QED  BY <2>1, <2>4
<1>2. ASSUME NEW r \in asked, Loot!RecipesAnswer(r)
      PROVE  LootRecipes' /\ [Loot!Recipes!Next]_(Loot!Recipes!vars)
  <2>1. r.active \in BOOLEAN /\ (r.active => r.item = selected)
    OBVIOUS
  <2>2. /\ selected' = selected /\ crafting' = crafting /\ asked' = asked \ {r}
        /\ recipes' \in {Loot!None, selected}
    BY <1>2, <2>1 DEF Loot!RecipesAnswer
  <2> QED  BY <2>2
<1>3. CASE Loot!RunCraft
  BY <1>3 DEF Loot!RunCraft, Loot!recipeVars
<1>4. CASE Loot!CraftEnds
  <2>1. /\ selected' = selected /\ asked' = asked /\ crafting' = ""
        /\ recipes' \in {Loot!None, selected}
    BY <1>4 DEF Loot!CraftEnds
  <2> QED  BY <2>1
<1>5. CASE LootRests
  BY <1>5 DEF LootRests, Loot!recipeVars
<1> QED
  BY <1>1, <1>2, <1>3, <1>4, <1>5, LootOthersRest DEF Loot!Next

(* Unless the page lost sight of it, an operation that is going on is the  *)
(* one it calls for, in the dialog; its request is on the wire only while  *)
(* it is being sent; and what succeeded was changed.                       *)
LootTypes ==
  /\ DOMAIN call = {"at", "op", "seen"} /\ call.op \in Operations \cup {Loot!None}
  /\ call.at \in {"idle", "look", "submit", "watch", "pause"}
  /\ call.at # "idle" => call.op \in Operations
  /\ review \in Operations \cup {Loot!None} /\ previewing \in Operations \cup {Loot!None}
  /\ wire \subseteq Operations

LootServer ==
  /\ DOMAIN status = Operations /\ DOMAIN plan = Operations
  /\ DOMAIN applied = Operations /\ DOMAIN succeeded = Operations
  /\ \A o \in Operations : succeeded[o] \subseteq applied[o]
  /\ \A o \in Operations : (status[o] = "complete" => o \in over) /\ status[o] # "accepted"

LootSight ==
  /\ \A o \in wire \ lost : call.at = "submit" /\ call.op = o
  /\ \A o \in Operations \ lost : Loot!Server!Live(o) => call.at # "idle" /\ call.op = o
  /\ call.seen = "complete" => call.op \in over
  /\ call.at # "idle" /\ call.op \notin lost => executing /\ review = call.op
  /\ previewing # Loot!None => review = Loot!None
  /\ call.seen = "accepted" => call.op \notin wire

LootInv == LootTypes /\ LootServer /\ LootSight

LEMMA LootInvInit == Loot!Init => LootInv
<1> SUFFICES ASSUME Loot!Init PROVE LootInv
  OBVIOUS
<1>1. /\ call = Loot!NoCall /\ review = Loot!None /\ previewing = Loot!None /\ wire = {}
      /\ Loot!Server!Init
  BY DEF Loot!Init
<1>2. LootTypes
  BY <1>1 DEF LootTypes, Loot!NoCall
<1>3. LootServer
  BY <1>1 DEF LootServer, Loot!Server!Init
<1>4. LootSight
  BY <1>1 DEF LootSight, Loot!NoCall, Loot!None, Loot!Server!Init, Loot!Server!Live
<1> QED BY <1>2, <1>3, <1>4 DEF LootInv

LEMMA LootServerNext == LootServer /\ [Loot!Next]_(Loot!vars) => LootServer'
<1> SUFFICES ASSUME LootServer, [Loot!Next]_(Loot!vars) PROVE LootServer'
  OBVIOUS
<1> USE DEF LootServer, Loot!opVars
<1>1. CASE UNCHANGED Loot!opVars
  BY <1>1
<1>2. ASSUME NEW o \in Operations, Loot!Server!Preview(o, batch) PROVE LootServer'
  BY <1>2 DEF Loot!Server!Preview
<1>3. ASSUME NEW o \in Operations, Loot!Server!Start(o) \/ Loot!Server!Expire(o) PROVE LootServer'
  BY <1>3 DEF Loot!Server!Start, Loot!Server!Expire, Loot!Server!work
<1>4. ASSUME NEW o \in Operations, Loot!Server!Finish(o) PROVE LootServer'
  BY <1>4 DEF Loot!Server!Finish, Loot!Server!work
<1>5. ASSUME NEW o \in Operations, NEW i \in Items, Loot!Server!Touch(o, {i}) PROVE LootServer'
  <2>1. PICK done \in SUBSET {i} : applied' = [applied EXCEPT ![o] = applied[o] \cup done]
    BY <1>5 DEF Loot!Server!Touch
  <2>2. UNCHANGED <<status, started, over, plan, reported, succeeded>>
    BY <1>5 DEF Loot!Server!Touch
  <2> QED BY <2>1, <2>2
<1>6. ASSUME NEW o \in Operations, NEW i \in Items, Loot!Server!Report(o, i) PROVE LootServer'
  BY <1>6 DEF Loot!Server!Report, Loot!Server!Succeeds
<1>7. CASE Loot!Server!Forget
  BY <1>7 DEF Loot!Server!Forget, Loot!Server!work
<1>8. \/ UNCHANGED Loot!opVars
      \/ \E o \in Operations : \/ Loot!ExecuteBatch(o) \/ Loot!ExecuteArrives(o)
      \/ Loot!OperationMoves
  BY DEF Loot!Next, Loot!vars, Loot!SelectMaterial, Loot!RemoveFromBatch, Loot!RecipesAnswer,
         Loot!RunCraft, Loot!CraftEnds, Loot!AddToBatch, Loot!ExecuteLost, Loot!PreviewAnswer,
         Loot!CloseReview, Loot!HandleExecute, Loot!CallStep, Loot!StatusRead, Loot!StatusFails,
         Loot!Looked, Loot!Submitted, Loot!SubmitFails, Loot!Watched, Loot!PauseEnds,
         Loot!Concludes, Loot!Reloaded
<1>9. CASE \E o \in Operations : \/ Loot!ExecuteBatch(o) \/ Loot!ExecuteArrives(o)
  BY <1>1, <1>2, <1>3, <1>9 DEF Loot!ExecuteBatch, Loot!ExecuteArrives
<1>10. CASE Loot!OperationMoves
  BY <1>4, <1>5, <1>6, <1>7, <1>10 DEF Loot!OperationMoves
<1> QED BY <1>1, <1>8, <1>9, <1>10

(* An error of the call: the page loses sight of the operation.            *)
LEMMA LootThrows ==
  LootInv /\ Loot!Throw /\ UNCHANGED <<wire, Loot!opVars>> => LootTypes' /\ LootSight'
<1> SUFFICES ASSUME LootInv, Loot!Throw, UNCHANGED <<wire, Loot!opVars>>
             PROVE  LootTypes' /\ LootSight'
  OBVIOUS
<1>1. /\ call' = [at |-> "idle", op |-> Loot!None, seen |-> Loot!None]
      /\ lost' = lost \cup {call.op} /\ UNCHANGED <<review, previewing, wire, started, over>>
  BY DEF Loot!Throw, Loot!NoCall, Loot!watchFrame, Loot!opVars
<1>2. call'.at = "idle" /\ call'.op = Loot!None /\ call'.seen = Loot!None
      /\ DOMAIN call' = {"at", "op", "seen"}
  BY <1>1
<1> QED
  BY <1>1, <1>2 DEF LootInv, LootTypes, LootSight, Loot!None, Loot!Server!Live

(* The call goes on for its operation.                                     *)
LootGoesOn ==
  /\ call.at # "idle" /\ call'.at \in {"look", "submit", "watch", "pause"}
  /\ call'.op = call.op /\ DOMAIN call' = {"at", "op", "seen"}
  /\ UNCHANGED <<review, executing, previewing, lost, started, over>>
  /\ wire' = IF call'.at = "submit" /\ call.at # "submit" THEN wire \cup {call.op} ELSE wire
  /\ call.at = "submit" /\ call'.at # "submit" => call.op \notin wire
  /\ call'.seen = "complete" => call.op \in over
  /\ call'.seen # "accepted"

LEMMA LootGoes == LootInv /\ LootGoesOn => LootTypes' /\ LootSight'
<1> SUFFICES ASSUME LootInv, LootGoesOn PROVE LootTypes' /\ LootSight'
  OBVIOUS
<1> USE DEF LootInv, LootTypes, LootGoesOn
<1>1. call.op \in Operations
  OBVIOUS
<1>2. LootTypes'
  BY <1>1
<1>3. LootSight'
  BY <1>1 DEF LootSight, Loot!Server!Live
<1> QED BY <1>2, <1>3

LEMMA LootCallNext == LootInv /\ Loot!CallStep => LootTypes' /\ LootSight'
<1> SUFFICES ASSUME LootInv, Loot!CallStep PROVE LootTypes' /\ LootSight'
  OBVIOUS
<1> USE DEF Loot!opVars
<1>1. DOMAIN call = {"at", "op", "seen"} /\ (call.at # "idle" => call.op \in Operations)
  BY DEF LootInv, LootTypes
<1>2. CASE Loot!StatusFails \/ Loot!SubmitFails
  BY <1>2, LootThrows DEF Loot!StatusFails, Loot!SubmitFails, Loot!Throw, Loot!watchFrame
<1>3. CASE Loot!StatusRead
  <2>1. /\ call.at \in {"look", "watch"} /\ call' = [call EXCEPT !.seen = status[call.op]]
        /\ UNCHANGED <<review, executing, previewing, lost, started, over, wire>>
    BY <1>3 DEF Loot!StatusRead, Loot!At, Loot!callFrame
  <2>2. call'.at = call.at /\ call'.op = call.op /\ call'.seen = status[call.op]
        /\ DOMAIN call' = {"at", "op", "seen"}
    BY <1>1, <2>1
  <2>3. status[call.op] = "complete" => call.op \in over
    BY <1>1, <2>1 DEF LootInv, LootServer
  <2>4. LootTypes'
    BY <1>1, <2>1, <2>2 DEF LootInv, LootTypes
  <2>5. CASE status[call.op] # "accepted"
    BY <2>1, <2>2, <2>3, <2>5, LootGoes DEF LootGoesOn
  <2>6. CASE status[call.op] = "accepted"
    BY <1>1, <2>1, <2>6 DEF LootInv, LootServer
  <2> QED BY <2>5, <2>6
<1>4. CASE Loot!Looked \/ Loot!Submitted \/ Loot!PauseEnds \/ (Loot!Watched /\ ~Loot!Throw)
  <2>1. PICK at \in {"submit", "watch", "pause"} : call' = [call EXCEPT !.at = at, !.seen = Loot!None]
    BY <1>4 DEF Loot!Looked, Loot!Submitted, Loot!PauseEnds, Loot!Watched, Loot!Goto
  <2>2. call'.at = at /\ call'.op = call.op /\ call'.seen = Loot!None
        /\ DOMAIN call' = {"at", "op", "seen"}
    BY <1>1, <2>1
  <2>3. /\ call.at # "idle"
        /\ UNCHANGED <<review, executing, previewing, lost, started, over>>
        /\ wire' = IF at = "submit" /\ call.at # "submit" THEN wire \cup {call.op} ELSE wire
        /\ call.at = "submit" => call.seen = "accepted"
    BY <1>4, <2>1, <2>2 DEF Loot!Looked, Loot!Submitted, Loot!PauseEnds, Loot!Watched, Loot!Goto,
       Loot!At, Loot!callFrame
  <2>4. LootGoesOn
    BY <2>2, <2>3 DEF LootGoesOn, LootInv, LootSight, Loot!None
  <2> QED BY <2>4, LootGoes
<1>5. CASE Loot!Watched /\ Loot!Throw
  BY <1>5, LootThrows DEF Loot!Watched, Loot!Throw, Loot!watchFrame
<1>6. CASE Loot!Concludes
  <2>1. CASE call.seen # "complete"
    BY <1>6, <2>1, LootThrows DEF Loot!Concludes, Loot!Throw, Loot!watchFrame
  <2>2. CASE call.seen = "complete"
    <3>1. /\ call.at \in {"look", "watch"}
          /\ call' = [at |-> "idle", op |-> Loot!None, seen |-> Loot!None] /\ review' = Loot!None
          /\ UNCHANGED <<previewing, wire, lost, executing, started, over>>
      BY <1>6, <2>2 DEF Loot!Concludes, Loot!Concluded, Loot!At, Loot!NoCall
    <3>2. call'.at = "idle" /\ call'.op = Loot!None /\ call'.seen = Loot!None
          /\ DOMAIN call' = {"at", "op", "seen"}
      BY <3>1
    <3>3. LootTypes'
      BY <3>1, <3>2 DEF LootInv, LootTypes
    <3>4. LootSight'
      BY <2>2, <3>1, <3>2 DEF LootInv, LootSight, Loot!Server!Live, Loot!None
    <3> QED BY <3>3, <3>4
  <2> QED BY <2>1, <2>2
<1>7. CASE Loot!Reloaded
  <2>1. /\ UNCHANGED <<call, wire, previewing, executing, started, over>> /\ review' = Loot!None
        /\ lost' = IF review # Loot!None /\ executing THEN lost \cup {review} ELSE lost
    BY <1>7 DEF Loot!Reloaded
  <2>2. LootTypes'
    BY <2>1 DEF LootInv, LootTypes
  <2>3. call.op # Loot!None \/ call.at = "idle"
    BY <1>1, LootAssumption DEF LootAssumption, Loot!None
  <2>4. call.at # "idle" => call.op \in lost'
    BY <2>1, <2>3 DEF LootInv, LootSight
  <2>5. LootSight'
    BY <2>1, <2>4 DEF LootInv, LootSight, Loot!Server!Live
  <2> QED BY <2>2, <2>5
<1> QED BY <1>2, <1>3, <1>4, <1>5, <1>6, <1>7 DEF Loot!CallStep

LEMMA LootDialogNext ==
  LootInv /\ (Loot!PreviewAnswer \/ Loot!CloseReview \/ Loot!HandleExecute) => LootTypes' /\ LootSight'
<1> SUFFICES ASSUME LootInv, Loot!PreviewAnswer \/ Loot!CloseReview \/ Loot!HandleExecute
             PROVE  LootTypes' /\ LootSight'
  OBVIOUS
<1> USE DEF Loot!opVars, Loot!watchFrame, LootInv
<1>1. call.at # "idle" => call.op # Loot!None
  BY LootAssumption DEF LootTypes, LootAssumption, Loot!None
<1>2. CASE Loot!PreviewAnswer
  <2>1. /\ previewing # Loot!None /\ previewing' = Loot!None
        /\ UNCHANGED <<call, wire, lost, started, over>> /\ review' \in {review, previewing}
    BY <1>2 DEF Loot!PreviewAnswer
  <2>2. call.at = "idle" \/ call.op \in lost
    BY <1>1, <2>1 DEF LootSight
  <2> QED BY <2>1, <2>2 DEF LootTypes, LootSight, Loot!Server!Live
<1>3. CASE Loot!CloseReview
  <2>1. /\ review' = Loot!None /\ ~executing /\ review # Loot!None
        /\ UNCHANGED <<call, wire, lost, started, over, previewing>>
    BY <1>3 DEF Loot!CloseReview
  <2>2. call.at = "idle" \/ call.op \in lost
    BY <2>1 DEF LootSight
  <2> QED BY <2>1, <2>2 DEF LootTypes, LootSight, Loot!Server!Live
<1>4. CASE Loot!HandleExecute
  <2>1. /\ call' = [at |-> "look", op |-> review, seen |-> Loot!None] /\ ~executing /\ executing'
        /\ review # Loot!None /\ UNCHANGED <<review, wire, lost, started, over, previewing>>
    BY <1>4 DEF Loot!HandleExecute
  <2>2. call.at = "idle" \/ call.op \in lost
    BY <2>1 DEF LootSight
  <2>3. /\ call'.at = "look" /\ call'.op = review /\ call'.seen = Loot!None
        /\ DOMAIN call' = {"at", "op", "seen"}
    BY <2>1
  <2>4. LootTypes'
    BY <2>1, <2>3 DEF LootTypes
  <2>5. LootSight'
    BY <2>1, <2>2, <2>3 DEF LootSight, Loot!Server!Live, Loot!None
  <2> QED BY <2>4, <2>5
<1> QED BY <1>2, <1>3, <1>4

LEMMA LootInvNext == LootInv /\ [Loot!Next]_(Loot!vars) => LootInv'
<1> SUFFICES ASSUME LootInv, [Loot!Next]_(Loot!vars) PROVE LootTypes' /\ LootSight'
  BY LootServerNext DEF LootInv
<1> USE DEF Loot!opVars, Loot!reviewVars, LootInv
<1>1. CASE UNCHANGED <<Loot!opVars, Loot!reviewVars>>
  BY <1>1 DEF LootTypes, LootSight, Loot!Server!Live
<1>2. CASE \/ Loot!RunCraft \/ Loot!CraftEnds \/ Loot!AddToBatch \/ UNCHANGED Loot!vars
           \/ \E i \in Items : Loot!SelectMaterial(i) \/ Loot!RemoveFromBatch(i)
           \/ \E r \in asked : Loot!RecipesAnswer(r)
  BY <1>1, <1>2 DEF Loot!RunCraft, Loot!CraftEnds, Loot!AddToBatch, Loot!vars, Loot!SelectMaterial,
                    Loot!RemoveFromBatch, Loot!RecipesAnswer
<1>3. ASSUME NEW o \in Operations, Loot!ExecuteBatch(o) PROVE LootTypes' /\ LootSight'
  <2>1. /\ previewing' = o /\ review = Loot!None
        /\ UNCHANGED <<review, executing, call, wire, lost, started, over>>
    BY <1>3 DEF Loot!ExecuteBatch, Loot!Reachable, Loot!Server!Preview
  <2> QED BY <2>1 DEF LootTypes, LootSight, Loot!Server!Live
<1>4. ASSUME NEW o \in Operations, Loot!ExecuteArrives(o) PROVE LootTypes' /\ LootSight'
  <2>1. /\ o \in wire /\ wire' = wire \ {o} /\ UNCHANGED <<review, executing, previewing, lost>>
        /\ UNCHANGED over
    BY <1>4 DEF Loot!ExecuteArrives, Loot!callFrame, Loot!Server!Start, Loot!Server!Expire
  <2>2. CASE started' = started \cup {o} /\ call.at = "submit" /\ call.op = o
             /\ call' = [call EXCEPT !.seen = "accepted"]
    <3>1. /\ call'.at = "submit" /\ call'.op = o /\ call'.seen = "accepted"
          /\ DOMAIN call' = {"at", "op", "seen"}
      BY <2>2 DEF LootTypes
    <3>2. LootTypes'
      BY <2>1, <3>1 DEF LootTypes
    <3>3. LootSight'
      BY <2>1, <2>2, <3>1 DEF LootSight, Loot!Server!Live
    <3> QED BY <3>2, <3>3
  <2>3. CASE /\ started' = started \cup {o} /\ UNCHANGED call
             /\ ~(call.at = "submit" /\ call.op = o)
    <3>1. o \in lost
      BY <2>1, <2>3 DEF LootSight
    <3> QED BY <2>1, <2>3, <3>1 DEF LootTypes, LootSight, Loot!Server!Live
  <2>4. CASE UNCHANGED <<started, call>>
    BY <2>1, <2>4 DEF LootTypes, LootSight, Loot!Server!Live
  <2>5. CASE Loot!Server!Start(o)
    BY <1>4, <2>2, <2>3, <2>5 DEF Loot!ExecuteArrives, Loot!Server!Start, Loot!Server!Expire
  <2> QED BY <1>4, <2>2, <2>3, <2>4, <2>5 DEF Loot!ExecuteArrives, Loot!Server!Start, Loot!Server!Expire
<1>5. ASSUME NEW o \in Operations, Loot!ExecuteLost(o) PROVE LootTypes' /\ LootSight'
  <2>1. wire' = wire \ {o} /\ UNCHANGED <<review, executing, previewing, lost, call, started, over>>
    BY <1>5 DEF Loot!ExecuteLost, Loot!callFrame
  <2> QED BY <2>1 DEF LootTypes, LootSight, Loot!Server!Live
<1>6. CASE Loot!OperationMoves
  <2>1. UNCHANGED Loot!reviewVars
    BY <1>6 DEF Loot!OperationMoves
  <2>2. over \subseteq over' /\ (started' \ over') \subseteq started
    BY <1>6 DEF Loot!OperationMoves, Loot!Server!Finish, Loot!Server!Touch, Loot!Server!Report,
                Loot!Server!Forget, Loot!Server!work, LootServer
  <2> QED BY <2>1, <2>2 DEF LootTypes, LootSight, Loot!Server!Live
<1> QED
  BY <1>2, <1>3, <1>4, <1>5, <1>6, LootCallNext, LootDialogNext DEF Loot!Next

LEMMA LootOneShown == LootInv => Loot!OneInSight
  BY DEF LootInv, LootSight, Loot!OneInSight

(* The queue of a step.                                                    *)
LEMMA LootEmptied ==
  LootInv /\ [Loot!Next]_(Loot!vars) =>
    \A o \in Operations :
      call.op = o /\ batch # {} /\ batch' = {} /\ call' = Loot!NoCall => plan[o] \subseteq applied[o]
<1> SUFFICES ASSUME LootInv, [Loot!Next]_(Loot!vars), NEW o \in Operations,
                    call.op = o, batch # {}, batch' = {}, call' = Loot!NoCall
             PROVE  plan[o] \subseteq applied[o]
  OBVIOUS
<1>1. call' # call
  <2>1. Loot!NoCall.op = "none"
    BY DEF Loot!NoCall, Loot!None
  <2> QED BY <2>1, LootAssumption DEF LootAssumption
<1>2. batch' # batch
  OBVIOUS
<1>3. Loot!Concludes
  BY <1>1, <1>2 DEF Loot!Next, Loot!vars, Loot!SelectMaterial, Loot!RemoveFromBatch,
     Loot!RecipesAnswer, Loot!RunCraft, Loot!CraftEnds, Loot!AddToBatch, Loot!ExecuteLost,
     Loot!ExecuteBatch, Loot!ExecuteArrives, Loot!OperationMoves, Loot!PreviewAnswer,
     Loot!CloseReview, Loot!HandleExecute, Loot!CallStep, Loot!StatusRead, Loot!StatusFails,
     Loot!Looked, Loot!Submitted, Loot!SubmitFails, Loot!Watched, Loot!PauseEnds, Loot!Reloaded,
     Loot!Throw, Loot!pageFrame, Loot!callFrame, Loot!reviewVars
<1>4. succeeded[o] = plan[o]
  BY <1>2, <1>3 DEF Loot!Concludes, Loot!Throw, Loot!pageFrame
<1> QED BY <1>4 DEF LootInv, LootServer

-----------------------------------------------------------------------------
(* The collection of skins: SkinShowcase.                                  *)

(* The skins page: a load that has read the profile has the signed-in      *)
(* account's name, or none, as long as no account changed under a load.    *)
SkinsInv ==
  /\ DOMAIN cache = SkinAccounts
  /\ \A l \in skinsLoads :
       /\ "at" \in DOMAIN l
       /\ l.at = "skins" => "puuid" \in DOMAIN l
       /\ ~switched /\ l.at = "skins" => l.puuid \in {skinsAccount, Skins!NoOne}
  /\ Skins!CacheOfItsAccount

LEMMA SkinsInvInit == Skins!Init => SkinsInv
<1> SUFFICES ASSUME Skins!Init PROVE SkinsInv
  OBVIOUS
<1>1. cache = [a \in SkinAccounts |-> Skins!NoSkins] /\ skinsLoads = {[mine |-> TRUE, at |-> "profile"]}
  BY DEF Skins!Init
<1>2. \A l \in skinsLoads : DOMAIN l = {"mine", "at"} /\ l.at = "profile"
  BY <1>1
<1> QED BY <1>1, <1>2 DEF SkinsInv, Skins!CacheOfItsAccount

(* A load begins by reading the profile.                                   *)
LEMMA SkinsLoadBegins ==
  ASSUME SkinsInv, NEW old, UNCHANGED <<skinsAccount, cache, switched>>,
         skinsLoads' = old \cup {[mine |-> TRUE, at |-> "profile"]},
         \A l \in old : \E m \in skinsLoads :
           /\ DOMAIN l = DOMAIN m /\ l.at = m.at
           /\ "puuid" \in DOMAIN m => l.puuid = m.puuid
  PROVE  SkinsInv'
<1> DEFINE first == [mine |-> TRUE, at |-> "profile"]
<1>1. "at" \in DOMAIN first /\ first.at # "skins"
  OBVIOUS
<1>2. skinsLoads' = old \cup {first}
  OBVIOUS
<1> HIDE DEF first
<1>3. ASSUME NEW l \in skinsLoads'
      PROVE  /\ "at" \in DOMAIN l
             /\ l.at = "skins" => "puuid" \in DOMAIN l
             /\ ~switched' /\ l.at = "skins" => l.puuid \in {skinsAccount', Skins!NoOne}
  <2>1. CASE l = first
    BY <1>1, <2>1
  <2>2. CASE l \in old
    <3>1. PICK m \in skinsLoads :
            DOMAIN l = DOMAIN m /\ l.at = m.at /\ ("puuid" \in DOMAIN m => l.puuid = m.puuid)
      BY <2>2
    <3> QED BY <3>1 DEF SkinsInv, Skins!NoOne
  <2> QED BY <1>2, <2>1, <2>2
<1>4. Skins!CacheOfItsAccount'
  BY DEF SkinsInv, Skins!CacheOfItsAccount, Skins!NoSkins, Skins!NoOne
<1> QED BY <1>3, <1>4 DEF SkinsInv, Skins!NoOne

LEMMA SkinsInvNext == SkinsInv /\ [Skins!Next]_(Skins!vars) => SkinsInv'
<1> SUFFICES ASSUME SkinsInv, [Skins!Next]_(Skins!vars) PROVE SkinsInv'
  OBVIOUS
<1> USE DEF Skins!league, Skins!store
<1>1. CASE Skins!LeagueChanges
  <2>1. /\ UNCHANGED <<cache, skinsLoads>>
        /\ ~switched' => ~switched
        /\ ~switched' /\ skinsAccount' # skinsAccount => ~ \E l \in skinsLoads : l.at = "skins"
    <3>1. UNCHANGED <<cache, skinsLoads>>
      BY <1>1 DEF Skins!LeagueChanges
    <3>2. \/ switched' = (switched \/ \E l \in skinsLoads : l.at = "skins")
          \/ UNCHANGED <<skinsAccount, switched>>
      BY <1>1 DEF Skins!LeagueChanges
    <3>3. ~switched' => ~switched
      BY <3>2
    <3>4. ~switched' /\ skinsAccount' # skinsAccount => ~ \E l \in skinsLoads : l.at = "skins"
      BY <3>2
    <3> QED BY <3>1, <3>3, <3>4
  <2>2. Skins!CacheOfItsAccount'
    BY <2>1 DEF SkinsInv, Skins!CacheOfItsAccount, Skins!NoSkins, Skins!NoOne
  <2> QED BY <2>1, <2>2 DEF SkinsInv, Skins!NoOne
<1>2. CASE Skins!LoadData
  BY <1>2, SkinsLoadBegins DEF Skins!LoadData
<1>3. CASE Skins!Reopen
  <2>1. /\ skinsLoads' = {[l EXCEPT !.mine = FALSE] : l \in skinsLoads}
                           \cup {[mine |-> TRUE, at |-> "profile"]}
        /\ UNCHANGED <<skinsAccount, cache, switched>>
    BY <1>3 DEF Skins!Reopen
  <2>2. ASSUME NEW l \in {[m EXCEPT !.mine = FALSE] : m \in skinsLoads}
        PROVE  \E m \in skinsLoads : /\ DOMAIN l = DOMAIN m /\ l.at = m.at
                                     /\ "puuid" \in DOMAIN m => l.puuid = m.puuid
    <3>1. PICK m \in skinsLoads : l = [m EXCEPT !.mine = FALSE]
      OBVIOUS
    <3>2. "at" \in DOMAIN m
      BY DEF SkinsInv
    <3> QED BY <3>1, <3>2
  <2> QED BY <2>1, <2>2, SkinsLoadBegins
<1>4. ASSUME NEW l \in skinsLoads, Skins!ProfileRead(l) PROVE SkinsInv'
  <2>1. PICK puuid \in {skinsAccount, Skins!NoOne} :
          \E cached : skinsLoads' = (skinsLoads \ {l}) \cup
            {[mine |-> l.mine, at |-> "skins", puuid |-> puuid, cached |-> cached]}
    BY <1>4 DEF Skins!ProfileRead
  <2>2. PICK cached : skinsLoads' = (skinsLoads \ {l}) \cup
            {[mine |-> l.mine, at |-> "skins", puuid |-> puuid, cached |-> cached]}
    BY <2>1
  <2> DEFINE answer == [mine |-> l.mine, at |-> "skins", puuid |-> puuid, cached |-> cached]
  <2>3. DOMAIN answer = {"mine", "at", "puuid", "cached"} /\ answer.puuid = puuid
    OBVIOUS
  <2>4. skinsLoads' = (skinsLoads \ {l}) \cup {answer}
    BY <2>2
  <2> HIDE DEF answer
  <2>5. UNCHANGED <<skinsAccount, cache, switched>>
    BY <1>4 DEF Skins!ProfileRead
  <2>6. Skins!CacheOfItsAccount'
    BY <2>5 DEF SkinsInv, Skins!CacheOfItsAccount, Skins!NoSkins, Skins!NoOne
  <2> QED BY <2>3, <2>4, <2>5, <2>6 DEF SkinsInv, Skins!NoOne
<1>5. ASSUME NEW l \in skinsLoads, Skins!SkinsRead(l) PROVE SkinsInv'
  <2>1. /\ l.at = "skins" /\ skinsLoads' = skinsLoads \ {l}
        /\ UNCHANGED <<skinsAccount, switched>>
    BY <1>5 DEF Skins!SkinsRead
  <2>2. PICK parsed : parsed.of = skinsAccount /\ Skins!Keep(l.puuid, parsed)
    <3>1. PICK rows \in Skins!Inventory(owns[skinsAccount]) :
            LET parsed ==
                  [of |-> skinsAccount,
                   skins |-> Skins!uniqueCollectionSkins(
                               Skins!WithShards(Skins!completeSkinInventory(rows), SkinIds)),
                   has |-> {s \in SkinIds : owns[skinsAccount][s] = "owned"}]
            IN Skins!Keep(l.puuid, parsed)
      BY <1>5 DEF Skins!SkinsRead
    <3> DEFINE parsed == [of |-> skinsAccount,
                          skins |-> Skins!uniqueCollectionSkins(
                                      Skins!WithShards(Skins!completeSkinInventory(rows), SkinIds)),
                          has |-> {s \in SkinIds : owns[skinsAccount][s] = "owned"}]
    <3>2. parsed.of = skinsAccount
      OBVIOUS
    <3>3. Skins!Keep(l.puuid, parsed)
      BY <3>1
    <3> HIDE DEF parsed
    <3> QED BY <3>2, <3>3
  <2>3. cache' = IF l.puuid = Skins!NoOne THEN cache ELSE [cache EXCEPT ![l.puuid] = parsed]
    BY <2>2 DEF Skins!Keep
  <2>4. ~switched => l.puuid \in {skinsAccount, Skins!NoOne}
    BY <2>1 DEF SkinsInv
  <2>5. DOMAIN cache' = SkinAccounts
    BY <2>3 DEF SkinsInv
  <2>6. ASSUME ~switched, NEW a \in SkinAccounts
        PROVE  cache'[a] = Skins!NoSkins \/ cache'[a].of = a
    <3>1. cache[a] = Skins!NoSkins \/ cache[a].of = a
      BY <2>6 DEF SkinsInv, Skins!CacheOfItsAccount
    <3> QED BY <2>2, <2>3, <2>4, <2>6, <3>1 DEF SkinsInv
  <2>7. Skins!CacheOfItsAccount'
    BY <2>1, <2>6 DEF Skins!CacheOfItsAccount, Skins!NoSkins, Skins!NoOne
  <2> QED BY <2>1, <2>5, <2>7 DEF SkinsInv, Skins!NoOne
<1>6. ASSUME NEW l \in skinsLoads, Skins!LoadFails(l) PROVE SkinsInv'
  <2>1. skinsLoads' = skinsLoads \ {l} /\ UNCHANGED <<skinsAccount, cache, switched>>
    BY <1>6 DEF Skins!LoadFails
  <2>2. Skins!CacheOfItsAccount'
    BY <2>1 DEF SkinsInv, Skins!CacheOfItsAccount, Skins!NoSkins, Skins!NoOne
  <2> QED BY <2>1, <2>2 DEF SkinsInv, Skins!NoOne
<1>7. ASSUME NEW s, Skins!toggleFav(s) PROVE SkinsInv'
  BY <1>7 DEF Skins!toggleFav, SkinsInv, Skins!CacheOfItsAccount, Skins!NoSkins, Skins!NoOne
<1>8. CASE UNCHANGED Skins!vars
  BY <1>8 DEF Skins!vars, SkinsInv, Skins!CacheOfItsAccount, Skins!NoSkins, Skins!NoOne
<1> QED BY <1>1, <1>2, <1>3, <1>4, <1>5, <1>6, <1>7, <1>8 DEF Skins!Next

(* An account's place in the browser holds its own collection.             *)
LEMMA SkinsBelong == SkinsInv => Skins!CacheOfItsAccount
  BY DEF SkinsInv

(* The heart flips the favourite, under whichever name it was kept.        *)
LEMMA SkinsHeart == [Skins!Next]_(Skins!vars) =>
  [favs' # favs => \E s \in SkinIds :
     (favs' \cap Skins!Aliases(s) # {}) = ~Skins!isSkinFavorite(s)]_(Skins!vars)
<1> SUFFICES ASSUME Skins!Next, favs' # favs
             PROVE  \E s \in SkinIds : (favs' \cap Skins!Aliases(s) # {}) = ~Skins!isSkinFavorite(s)
  BY DEF Skins!vars
<1>1. PICK s \in SkinIds : Skins!toggleFav(s)
  BY DEF Skins!Next, Skins!LeagueChanges, Skins!LoadData, Skins!Reopen, Skins!ProfileRead,
     Skins!SkinsRead, Skins!LoadFails, Skins!store
<1>2. favs' = IF Skins!isSkinFavorite(s) THEN favs \ Skins!Aliases(s) ELSE favs \cup {s}
  BY <1>1 DEF Skins!toggleFav
<1>3. s \in Skins!Aliases(s)
  BY DEF Skins!Aliases
<1>4. CASE Skins!isSkinFavorite(s)
  <2>1. favs' \cap Skins!Aliases(s) = {}
    BY <1>2, <1>4
  <2> QED BY <1>4, <2>1
<1>5. CASE ~Skins!isSkinFavorite(s)
  <2>1. s \in favs' \cap Skins!Aliases(s)
    BY <1>2, <1>3, <1>5
  <2> QED BY <1>5, <2>1
<1> QED BY <1>4, <1>5

(* A collection has a skin once, and as owned the skins that were owned.   *)
SkinsGood(c) ==
  /\ IsFiniteSet(c.skins)
  /\ \A r \in c.skins : /\ {r.owned, r.rental, r.shard} \subseteq BOOLEAN
                        /\ r.owned => ~r.rental /\ ~r.shard
  /\ \A r, s \in c.skins : r.id = s.id => r = s
  /\ c.has = {r.id : r \in {s \in c.skins : s.owned}}

SkinsKinds == {"no", "rental", "owned"}
SkinsLists ==
  /\ skinsAccount \in SkinAccounts \cup {Skins!NoOne}
  /\ owns \in [SkinAccounts -> [SkinIds -> SkinsKinds]]
  /\ SkinsGood(allSkins) /\ \A a \in SkinAccounts : SkinsGood(cache[a])
  /\ DOMAIN cache = SkinAccounts
  /\ \A l \in skinsLoads : /\ "at" \in DOMAIN l
                           /\ l.at = "skins" => "cached" \in DOMAIN l /\ SkinsGood(l.cached)

LEMMA SkinsNone == SkinsGood(Skins!NoSkins)
<1>1. Skins!NoSkins.skins = {} /\ Skins!NoSkins.has = {}
  BY DEF Skins!NoSkins
<1>2. IsFiniteSet({})
  BY FS_EmptySet
<1> QED BY <1>1, <1>2 DEF SkinsGood

LEMMA SkinsListsInit == Skins!Init => SkinsLists
<1> SUFFICES ASSUME Skins!Init PROVE SkinsLists
  OBVIOUS
<1>1. /\ skinsAccount \in SkinAccounts
      /\ owns \in [SkinAccounts -> {[s \in SkinIds |-> "no"], [s \in SkinIds |-> "rental"]}]
      /\ cache = [a \in SkinAccounts |-> Skins!NoSkins]
      /\ skinsLoads = {[mine |-> TRUE, at |-> "profile"]} /\ allSkins = Skins!NoSkins
  BY DEF Skins!Init
<1>2. \A kind \in {"no", "rental"} : [s \in SkinIds |-> kind] \in [SkinIds -> SkinsKinds]
  BY DEF SkinsKinds
<1>3. {[s \in SkinIds |-> "no"], [s \in SkinIds |-> "rental"]} \subseteq [SkinIds -> SkinsKinds]
  BY <1>2
<1>4. owns \in [SkinAccounts -> [SkinIds -> SkinsKinds]]
  BY <1>1, <1>3
<1>5. \A l \in skinsLoads : "at" \in DOMAIN l /\ l.at # "skins"
  BY <1>1
<1> QED BY <1>1, <1>4, <1>5, SkinsNone DEF SkinsLists

(* A skin's records merged: owned if one is, and then nothing else.        *)
SkinsMarks(records, s) ==
  [k \in DOMAIN records |-> [records[k] EXCEPT !.shard = ~records[k].owned /\ s \in SkinIds]]
SkinsRow(rows) == IF Len(rows) = 1 THEN rows[1] ELSE Skins!Merged(rows[1], rows[2])
SkinsOf(r, s, kind) ==
  /\ r.id = s /\ {r.owned, r.rental, r.shard} \subseteq BOOLEAN
  /\ r.owned => ~r.rental /\ ~r.shard
  /\ r.owned <=> kind = "owned"

LEMMA SkinsMerged ==
  ASSUME NEW s \in SkinIds, NEW kind \in SkinsKinds, NEW records,
         \/ records = <<Skins!Record(s, kind)>>
         \/ records = <<Skins!Record(s, "no"), Skins!Record(s, kind)>>
         \/ records = <<Skins!Record(s, kind), Skins!Record(s, "no")>>
  PROVE  SkinsOf(SkinsRow(SkinsMarks(records, s)), s, kind)
<1> DEFINE R(k) == Skins!Record(s, k)
           rows == SkinsMarks(records, s)
           r == SkinsRow(rows)
           Row(k) == [R(k) EXCEPT !.shard = ~R(k).owned /\ s \in SkinIds]
           Good(x, k) == SkinsOf(x, s, k)
<1>1. ASSUME NEW k \in SkinsKinds PROVE Good(Row(k), k)
  <2>1. /\ DOMAIN R(k) = {"id", "owned", "rental", "shard"} /\ R(k).id = s
        /\ R(k).owned = (k = "owned") /\ R(k).rental = (k = "rental")
    BY DEF Skins!Record
  <2> USE DEF SkinsOf
  <2> HIDE DEF R
  <2>2. /\ Row(k).id = s /\ Row(k).owned = (k = "owned") /\ Row(k).rental = (k = "rental")
        /\ Row(k).shard = (~R(k).owned /\ s \in SkinIds)
    BY <2>1
  <2> HIDE DEF Row, SkinsMarks
  <2>3. {Row(k).owned, Row(k).rental, Row(k).shard} \subseteq BOOLEAN
    BY <2>2
  <2> QED BY <2>1, <2>2, <2>3
<1>2. "no" \in SkinsKinds
  BY DEF SkinsKinds
<1>3. ASSUME NEW a, NEW b, Good(a, "no"), Good(b, kind)
      PROVE  Good(Skins!Merged(a, b), kind) /\ Good(Skins!Merged(b, a), kind)
  <2> USE DEF SkinsOf
  <2>1. \A x, y : /\ Skins!Merged(x, y).id = y.id
                  /\ Skins!Merged(x, y).owned = (y.owned \/ x.owned)
                  /\ Skins!Merged(x, y).rental = (~(y.owned \/ x.owned) /\ (y.rental \/ x.rental))
                  /\ Skins!Merged(x, y).shard = (~(y.owned \/ x.owned) /\ (y.shard \/ x.shard))
    BY DEF Skins!Merged
  <2>2. \A x, y : {Skins!Merged(x, y).owned, Skins!Merged(x, y).rental, Skins!Merged(x, y).shard} \subseteq BOOLEAN
    BY <2>1
  <2>3. "no" # "owned"
    OBVIOUS
  <2> QED BY <1>3, <2>1, <2>2, <2>3
<1> HIDE DEF R, Good, Row
<1>4. CASE records = <<R(kind)>>
  <2>1. DOMAIN records = 1 .. 1 /\ records[1] = R(kind)
    BY <1>4
  <2>2. rows = <<Row(kind)>>
    BY <2>1 DEF Row, SkinsMarks
  <2>3. r = Row(kind)
    BY <2>2 DEF SkinsRow
  <2>4. Good(r, kind)
    BY <2>3, <1>1
  <2> QED BY <2>4 DEF Good
<1>5. CASE records = <<R("no"), R(kind)>>
  <2>1. DOMAIN records = 1 .. 2 /\ records[1] = R("no") /\ records[2] = R(kind)
    BY <1>5
  <2>2. rows = <<Row("no"), Row(kind)>>
    BY <2>1 DEF Row, SkinsMarks
  <2>3. r = Skins!Merged(Row("no"), Row(kind))
    BY <2>2 DEF SkinsRow
  <2>4. Good(r, kind)
    BY <2>3, <1>1, <1>2, <1>3
  <2> QED BY <2>4 DEF Good
<1>6. CASE records = <<R(kind), R("no")>>
  <2>1. DOMAIN records = 1 .. 2 /\ records[1] = R(kind) /\ records[2] = R("no")
    BY <1>6
  <2>2. rows = <<Row(kind), Row("no")>>
    BY <2>1 DEF Row, SkinsMarks
  <2>3. r = Skins!Merged(Row(kind), Row("no"))
    BY <2>2 DEF SkinsRow
  <2>4. Good(r, kind)
    BY <2>3, <1>1, <1>2, <1>3
  <2> QED BY <2>4 DEF Good
<1> QED BY <1>4, <1>5, <1>6 DEF R

(* What is read of League is a collection.                                 *)
LEMMA SkinsParsed ==
  ASSUME NEW has \in [SkinIds -> SkinsKinds], NEW of, NEW rows \in Skins!Inventory(has)
  PROVE  SkinsGood([of |-> of,
                    skins |-> Skins!uniqueCollectionSkins(
                                Skins!WithShards(Skins!completeSkinInventory(rows), SkinIds)),
                    has |-> {s \in SkinIds : has[s] = "owned"}])
<1> DEFINE all == Skins!completeSkinInventory(rows)
           marked == Skins!WithShards(all, SkinIds)
           Seen(s) == SkinsRow(marked[s])
           list == Skins!uniqueCollectionSkins(marked)
           had == {s \in SkinIds : has[s] = "owned"}
           parsed == [of |-> of, skins |-> list, has |-> had]
<1>1. ASSUME NEW s \in SkinIds PROVE SkinsOf(Seen(s), s, has[s])
  <2> DEFINE records == all[s]
  <2>1. has[s] \in SkinsKinds
    OBVIOUS
  <2>2. rows[s] \in Skins!Listed(s, has[s])
    BY DEF Skins!Inventory
  <2>3. records = IF rows[s] = <<>> THEN <<Skins!Record(s, "no")>> ELSE rows[s]
    BY DEF Skins!completeSkinInventory
  <2>4. \/ records = <<Skins!Record(s, has[s])>>
        \/ records = <<Skins!Record(s, "no"), Skins!Record(s, has[s])>>
        \/ records = <<Skins!Record(s, has[s]), Skins!Record(s, "no")>>
    <3>1. \/ rows[s] = <<Skins!Record(s, has[s])>>
          \/ rows[s] = <<Skins!Record(s, "no"), Skins!Record(s, has[s])>>
          \/ rows[s] = <<Skins!Record(s, has[s]), Skins!Record(s, "no")>>
          \/ rows[s] = <<>> /\ has[s] = "no"
      BY <2>2 DEF Skins!Listed
    <3> HIDE DEF records
    <3>2. CASE rows[s] = <<>> /\ has[s] = "no"
      BY <2>3, <3>2
    <3>3. CASE ~(rows[s] = <<>>)
      BY <2>3, <3>1, <3>3
    <3>4. CASE rows[s] = <<>> /\ has[s] # "no"
      BY <3>1, <3>4
    <3> QED BY <3>2, <3>3, <3>4
  <2>5. marked[s] = SkinsMarks(records, s)
    BY DEF Skins!WithShards, SkinsMarks
  <2> HIDE DEF records, marked
  <2> QED BY <2>1, <2>4, <2>5, SkinsMerged
<1>2. list = {Seen(s) : s \in SkinIds}
  BY DEF Skins!uniqueCollectionSkins, SkinsRow
<1> HIDE DEF Seen, list, marked, all
<1>3. IsFiniteSet(list)
  <2> DEFINE f == [s \in SkinIds |-> Seen(s)]
  <2>1. list = {f[s] : s \in SkinIds}
    BY <1>2
  <2>2. DOMAIN f = SkinIds /\ f \in [SkinIds -> {f[s] : s \in SkinIds}]
    OBVIOUS
  <2> HIDE DEF f
  <2>3. f \in Surjection(SkinIds, {f[s] : s \in SkinIds})
    BY <2>2 DEF Surjection
  <2> QED BY <2>1, <2>3, SkinsAssumption, FS_Surjection
<1>4. had = {r.id : r \in {s \in list : s.owned}}
  <2>1. ASSUME NEW s \in had PROVE s \in {r.id : r \in {x \in list : x.owned}}
    <3>1. Seen(s) \in list /\ Seen(s).owned /\ Seen(s).id = s
      BY <1>1, <1>2 DEF SkinsOf
    <3> QED BY <3>1
  <2>2. ASSUME NEW r \in list, r.owned PROVE r.id \in had
    <3>1. PICK s \in SkinIds : r = Seen(s)
      BY <1>2
    <3>2. has[s] = "owned" /\ r.id = s
      BY <1>1, <2>2, <3>1 DEF SkinsOf
    <3> QED BY <3>2
  <2> QED BY <2>1, <2>2
<1> DEFINE Typed(r) == {r.owned, r.rental, r.shard} \subseteq BOOLEAN /\ (r.owned => ~r.rental /\ ~r.shard)
<1>5. /\ \A r \in list : Typed(r)
      /\ \A r, s \in list : r.id = s.id => r = s
  <2>1. \A s \in SkinIds : Typed(Seen(s)) /\ Seen(s).id = s
    BY <1>1 DEF SkinsOf
  <2> HIDE DEF Typed
  <2> QED BY <2>1, <1>2
<1>6. parsed.skins = list /\ parsed.has = had
  OBVIOUS
<1> HIDE DEF had, parsed
<1>7. SkinsGood(parsed)
  <2>1. /\ IsFiniteSet(parsed.skins)
        /\ \A r \in parsed.skins : Typed(r)
        /\ \A r, s \in parsed.skins : r.id = s.id => r = s
        /\ parsed.has = {r.id : r \in {s \in parsed.skins : s.owned}}
    <3> HIDE DEF Typed
    <3> QED BY <1>3, <1>4, <1>5, <1>6
  <2> QED BY <2>1, Zenon DEF SkinsGood
<1> QED BY <1>7 DEF parsed, had, list, marked, all

LEMMA SkinsListsNext == SkinsLists /\ [Skins!Next]_(Skins!vars) => SkinsLists'
<1> SUFFICES ASSUME SkinsLists, [Skins!Next]_(Skins!vars) PROVE SkinsLists'
  OBVIOUS
<1> USE DEF Skins!league, Skins!store
<1> DEFINE Read(l) == "at" \in DOMAIN l /\ (l.at = "skins" => "cached" \in DOMAIN l /\ SkinsGood(l.cached))
<1>a. \A l \in skinsLoads : Read(l)
  BY DEF SkinsLists
<1>b. Read([mine |-> TRUE, at |-> "profile"])
  <2>1. DOMAIN [mine |-> TRUE, at |-> "profile"] = {"mine", "at"}
    OBVIOUS
  <2>2. [mine |-> TRUE, at |-> "profile"].at = "profile"
    OBVIOUS
  <2> QED BY <2>1, <2>2
<1>c. ASSUME NEW l \in skinsLoads PROVE Read([l EXCEPT !.mine = FALSE])
  <2>1. Read(l)
    BY <1>a
  <2>2. /\ DOMAIN [l EXCEPT !.mine = FALSE] = DOMAIN l
        /\ [l EXCEPT !.mine = FALSE].at = l.at
        /\ "cached" \in DOMAIN l => [l EXCEPT !.mine = FALSE].cached = l.cached
    BY <2>1
  <2> QED BY <2>1, <2>2
<1>d. ASSUME UNCHANGED <<skinsAccount, owns, cache>>, SkinsGood(allSkins'), \A l \in skinsLoads' : Read(l)
      PROVE  SkinsLists'
  BY <1>d DEF SkinsLists, SkinsGood, Skins!NoOne
<1> HIDE DEF Read
<1>1. CASE Skins!LeagueChanges
  <2>1. UNCHANGED <<cache, skinsLoads, allSkins>>
    BY <1>1 DEF Skins!LeagueChanges
  <2>2. skinsAccount' \in SkinAccounts \cup {Skins!NoOne}
    BY <1>1 DEF Skins!LeagueChanges, SkinsLists
  <2>3. owns' \in [SkinAccounts -> [SkinIds -> SkinsKinds]]
    <3>1. CASE UNCHANGED owns
      BY <3>1 DEF SkinsLists
    <3>2. ASSUME NEW s \in SkinIds, owns' = [owns EXCEPT ![skinsAccount][s] = "owned"] PROVE owns' \in [SkinAccounts -> [SkinIds -> SkinsKinds]]
      <4>1. "owned" \in SkinsKinds
        BY DEF SkinsKinds
      <4> QED BY <3>2, <4>1 DEF SkinsLists
    <3> QED BY <1>1, <3>1, <3>2 DEF Skins!LeagueChanges
  <2> QED BY <2>1, <2>2, <2>3 DEF SkinsLists, SkinsGood, Skins!NoOne
<1>2. CASE Skins!LoadData
  <2>1. /\ UNCHANGED <<skinsAccount, owns, cache, allSkins>>
        /\ skinsLoads' = skinsLoads \cup {[mine |-> TRUE, at |-> "profile"]}
    BY <1>2 DEF Skins!LoadData
  <2>2. \A l \in skinsLoads' : Read(l)
    BY <2>1, <1>a, <1>b
  <2>3. SkinsGood(allSkins')
    BY <2>1 DEF SkinsLists
  <2> QED BY <2>1, <2>2, <2>3, <1>d
<1>3. CASE Skins!Reopen
  <2>1. /\ UNCHANGED <<skinsAccount, owns, cache>> /\ allSkins' = Skins!NoSkins
        /\ skinsLoads' = {[l EXCEPT !.mine = FALSE] : l \in skinsLoads}
                           \cup {[mine |-> TRUE, at |-> "profile"]}
    BY <1>3 DEF Skins!Reopen
  <2>2. \A l \in skinsLoads' : Read(l)
    BY <2>1, <1>b, <1>c
  <2> QED BY <2>1, <2>2, <1>d, SkinsNone
<1>4. ASSUME NEW l \in skinsLoads, Skins!ProfileRead(l) PROVE SkinsLists'
  <2>1. PICK puuid \in {skinsAccount, Skins!NoOne} :
          LET cached == IF puuid = Skins!NoOne THEN Skins!NoSkins ELSE cache[puuid]
          IN /\ skinsLoads' = (skinsLoads \ {l}) \cup
                  {[mine |-> l.mine, at |-> "skins", puuid |-> puuid, cached |-> cached]}
             /\ allSkins' \in {cached, allSkins}
    BY <1>4 DEF Skins!ProfileRead
  <2> DEFINE cached == IF puuid = Skins!NoOne THEN Skins!NoSkins ELSE cache[puuid]
             answer == [mine |-> l.mine, at |-> "skins", puuid |-> puuid, cached |-> cached]
  <2>2. SkinsGood(cached)
    BY SkinsNone DEF SkinsLists
  <2>3. skinsLoads' = (skinsLoads \ {l}) \cup {answer} /\ allSkins' \in {cached, allSkins}
    BY <2>1
  <2> HIDE DEF cached
  <2>4. DOMAIN answer = {"mine", "at", "puuid", "cached"} /\ answer.cached = cached
    OBVIOUS
  <2> HIDE DEF answer
  <2>5. Read(answer)
    BY <2>2, <2>4 DEF Read
  <2>6. \A m \in skinsLoads' : Read(m)
    BY <2>3, <2>5, <1>a
  <2>7. SkinsGood(allSkins')
    BY <2>2, <2>3 DEF SkinsLists
  <2>8. UNCHANGED <<skinsAccount, owns, cache>>
    BY <1>4 DEF Skins!ProfileRead
  <2> QED BY <2>6, <2>7, <2>8, <1>d
<1>5. ASSUME NEW l \in skinsLoads, Skins!SkinsRead(l) PROVE SkinsLists'
  <2>1. /\ skinsLoads' = skinsLoads \ {l} /\ UNCHANGED <<skinsAccount, owns>>
        /\ skinsAccount # Skins!NoOne
    BY <1>5 DEF Skins!SkinsRead
  <2>2. PICK parsed : /\ SkinsGood(parsed) /\ Skins!Keep(l.puuid, parsed)
                      /\ allSkins' \in {parsed, allSkins}
    <3> DEFINE P(rows) == [of |-> skinsAccount,
                           skins |-> Skins!uniqueCollectionSkins(
                                       Skins!WithShards(Skins!completeSkinInventory(rows), SkinIds)),
                           has |-> {s \in SkinIds : owns[skinsAccount][s] = "owned"}]
    <3>1. PICK rows \in Skins!Inventory(owns[skinsAccount]) :
            Skins!Keep(l.puuid, P(rows)) /\ allSkins' \in {P(rows), allSkins}
      BY <1>5 DEF Skins!SkinsRead
    <3>2. owns[skinsAccount] \in [SkinIds -> SkinsKinds]
      BY <2>1 DEF SkinsLists
    <3>3. SkinsGood(P(rows))
      BY <3>2, SkinsParsed
    <3> HIDE DEF P
    <3> QED BY <3>1, <3>3
  <2>3. cache' = IF l.puuid = Skins!NoOne THEN cache ELSE [cache EXCEPT ![l.puuid] = parsed]
    BY <2>2 DEF Skins!Keep
  <2>4. DOMAIN cache' = SkinAccounts
    BY <2>3 DEF SkinsLists
  <2>5. \A a \in SkinAccounts : cache'[a] \in {cache[a], parsed}
    BY <2>3 DEF SkinsLists
  <2>6. (\A a \in SkinAccounts : SkinsGood(cache'[a])) /\ SkinsGood(allSkins')
    BY <2>2, <2>5 DEF SkinsLists
  <2> QED BY <2>1, <2>4, <2>6 DEF SkinsLists, SkinsGood, Skins!NoOne
<1>6. ASSUME NEW l \in skinsLoads, Skins!LoadFails(l) PROVE SkinsLists'
  <2>1. /\ skinsLoads' = skinsLoads \ {l} /\ UNCHANGED <<skinsAccount, owns, cache>>
        /\ l.at = "skins" /\ allSkins' \in {allSkins, l.cached}
    BY <1>6 DEF Skins!LoadFails
  <2>2. SkinsGood(allSkins')
    BY <2>1 DEF SkinsLists
  <2> QED BY <2>1, <2>2, <1>a, <1>d
<1>7. ASSUME NEW s, Skins!toggleFav(s) PROVE SkinsLists'
  BY <1>7 DEF Skins!toggleFav, SkinsLists, SkinsGood, Skins!NoOne
<1>8. CASE UNCHANGED Skins!vars
  BY <1>8 DEF Skins!vars, SkinsLists, SkinsGood, Skins!NoOne
<1> QED BY <1>1, <1>2, <1>3, <1>4, <1>5, <1>6, <1>7, <1>8 DEF Skins!Next

LEMMA SkinsOwned == SkinsLists => Skins!OwnedAsRead
  BY DEF SkinsLists, SkinsGood, Skins!OwnedAsRead

LEMMA SkinsSplit ==
  ASSUME NEW A, NEW B, IsFiniteSet(A), IsFiniteSet(B), A \cap B = {}
  PROVE  /\ IsFiniteSet(A \cup B)
         /\ Skins!Cardinality(A \cup B) = Skins!Cardinality(A) + Skins!Cardinality(B)
<1>1. Cardinality({}) = 0 /\ Cardinality(A) \in Nat /\ Cardinality(B) \in Nat
  BY FS_EmptySet, FS_CardinalityType
<1>2. /\ IsFiniteSet(A \cup B)
      /\ Cardinality(A \cup B) = Cardinality(A) + Cardinality(B) - Cardinality(A \cap B)
  BY FS_Union
<1>3. Cardinality(A \cup B) = Cardinality(A) + Cardinality(B)
  <2>1. Cardinality(A \cap B) = Cardinality({})
    OBVIOUS
  <2> DEFINE a == Cardinality(A)
             b == Cardinality(B)
             ab == Cardinality(A \cap B)
  <2>2. ab = 0 /\ a \in Nat /\ b \in Nat /\ Cardinality(A \cup B) = a + b - ab
    BY <1>1, <1>2, <2>1
  <2> HIDE DEF a, b, ab
  <2>3. Cardinality(A \cup B) = a + b
    BY <2>2
  <2> QED BY <2>3 DEF a, b
<1>4. \A S : Skins!Cardinality(S) = Cardinality(S)
  BY DEF Skins!Cardinality, Cardinality
<1> QED BY <1>2, <1>3, <1>4

LEMMA SkinsFilters == SkinsLists => Skins!FiltersAgree
<1> SUFFICES ASSUME SkinsLists PROVE Skins!FiltersAgree
  OBVIOUS
<1> DEFINE S == allSkins.skins
           found(f) == Skins!visibleSkins(S, f)
           O == {r \in S : r.owned}
           R == {r \in S : r.rental}
           H == {r \in S : r.shard}
           M == {r \in S : ~(r.owned \/ r.rental \/ r.shard)}
           shards == {r \in S : ~r.owned /\ r.shard}
<1>1. IsFiniteSet(S)
  BY DEF SkinsLists, SkinsGood
<1>2. \A r \in S : /\ {r.owned, r.rental, r.shard} \subseteq BOOLEAN
                   /\ r.owned => ~r.rental /\ ~r.shard
  BY DEF SkinsLists, SkinsGood
<1>3. found("owned") = O /\ found("rental") = R /\ found("shard") = H /\ found("missing") = M
  BY DEF Skins!visibleSkins
<1> HIDE DEF S, found
<1>4. \A r \in S : r \in found(Skins!cardStatus(r))
  <2> SUFFICES ASSUME NEW r \in S PROVE r \in found(Skins!cardStatus(r))
    OBVIOUS
  <2>1. CASE r.owned
    <3>1. Skins!cardStatus(r) = "owned"
      BY <2>1 DEF Skins!cardStatus
    <3> QED BY <2>1, <3>1, <1>3
  <2>2. CASE ~r.owned /\ r.rental
    <3>1. Skins!cardStatus(r) = "rental"
      BY <2>2 DEF Skins!cardStatus
    <3> QED BY <2>2, <3>1, <1>3
  <2>3. CASE ~r.owned /\ ~r.rental /\ r.shard
    <3>1. Skins!cardStatus(r) = "shard"
      BY <2>3 DEF Skins!cardStatus
    <3> QED BY <2>3, <3>1, <1>3
  <2>4. CASE ~r.owned /\ ~r.rental /\ ~r.shard
    <3>1. Skins!cardStatus(r) = "missing"
      BY <2>4 DEF Skins!cardStatus
    <3> QED BY <2>4, <3>1, <1>3
  <2> QED BY <2>1, <2>2, <2>3, <2>4
<1>5. O \cap (R \cup H \cup M) = {}
  BY <1>2
<1>6. shards \cup O = O \cup shards /\ S = ((O \cup shards) \cup M) \cup (R \ H)
  BY <1>2
<1>7. O \cap shards = {} /\ (O \cup shards) \cap M = {} /\ ((O \cup shards) \cup M) \cap (R \ H) = {}
  BY <1>2
<1>8. IsFiniteSet(O) /\ IsFiniteSet(shards) /\ IsFiniteSet(M) /\ IsFiniteSet(R \ H)
  <2>1. O \in SUBSET S /\ shards \in SUBSET S /\ M \in SUBSET S /\ R \ H \in SUBSET S
    OBVIOUS
  <2> HIDE DEF O, R, H, M, shards
  <2> QED BY <1>1, <2>1, FS_Subset
<1> DEFINE c(T) == Skins!Cardinality(T)
<1> HIDE DEF O, R, H, M, shards
<1>9. c(O) + c(shards) + c(M) + c(R \ H) = c(S)
  <2>1. IsFiniteSet(O \cup shards) /\ c(O \cup shards) = c(O) + c(shards)
    BY <1>7, <1>8, SkinsSplit
  <2>2. /\ IsFiniteSet((O \cup shards) \cup M)
        /\ c((O \cup shards) \cup M) = c(O \cup shards) + c(M)
    BY <1>7, <1>8, <2>1, SkinsSplit
  <2>3. c(((O \cup shards) \cup M) \cup (R \ H)) = c((O \cup shards) \cup M) + c(R \ H)
    BY <1>7, <1>8, <2>2, SkinsSplit
  <2> QED BY <2>1, <2>2, <2>3, <1>6
<1>10. LET totals == Skins!buildChampionTotals(S)
       IN totals.owned = c(O) /\ totals.shards = c(shards) /\ totals.total = c(S)
  BY DEF Skins!buildChampionTotals, O, shards
<1> HIDE DEF c
<1>11. LET totals == Skins!buildChampionTotals(S)
       IN totals.owned + totals.shards + c(found("missing")) + c(found("rental") \ found("shard"))
            = totals.total
  BY <1>3, <1>9, <1>10
<1> QED BY <1>3, <1>4, <1>5, <1>11 DEF Skins!FiltersAgree, S, found, c

-----------------------------------------------------------------------------
(* Missions, masteries and rewards: ProgressPage.                          *)

(* An operation that may still be run was never sent; and unless refreshes *)
(* crossed, what is not on show yet is being read, or its end is watched.  *)
ProgressWatched(id) == \E w \in watching : w.id = id
ProgressUnseen ==
  \E id \in DOMAIN operations : operations[id].state = "complete" /\ ProgressWatched(id)

ProgressSent ==
  /\ \A id \in DOMAIN operations : DOMAIN operations[id] = {"state", "grant", "selections"}
  /\ \A id \in DOMAIN sent :
       /\ sent[id] \in {0, 1}
       /\ \/ id \in DOMAIN operations /\ operations[id].state \notin {"preview", "running"}
          \/ sent[id] = 0
ProgressRead ==
  /\ DOMAIN progressLoads = Progress!Whos
  /\ \A who \in Progress!Whos :
       progressLoads[who] \in {Progress!No, Progress!Asked} \/ progressLoads[who].at = "read"
  /\ \A w \in watching : DOMAIN w = {"id", "at", "left"}
  /\ ~progressCrossed =>
       /\ \/ DOMAIN progressRewards = progressPending \/ ProgressUnseen
          \/ \E who \in Progress!Whos : progressLoads[who] # Progress!No
       /\ \A who \in Progress!Whos : progressLoads[who].at = "read" =>
            DOMAIN progressLoads[who].rewards = progressPending \/ ProgressUnseen
       /\ \A id \in DOMAIN operations : operations[id].state = "running" => ProgressWatched(id)
ProgressInv == ProgressSent /\ ProgressRead

LEMMA ProgressInvInit == Progress!Init => ProgressInv
<1> SUFFICES ASSUME Progress!Init PROVE ProgressInv
  OBVIOUS
<1>1. /\ operations = <<>> /\ watching = {} /\ sent = [id \in 1 .. MaxPreviews |-> 0]
      /\ progressLoads = [who \in Progress!Whos |-> IF who = "effect" THEN Progress!Asked ELSE Progress!No]
  BY DEF Progress!Init
<1>2. ProgressSent
  BY <1>1 DEF ProgressSent
<1>3. ProgressRead
  BY <1>1 DEF ProgressRead, Progress!Whos, Progress!No, Progress!Asked
<1> QED BY <1>2, <1>3 DEF ProgressInv

LEMMA ProgressSentNext == ProgressInv /\ [Progress!Next]_(Progress!vars) => ProgressSent'
<1> SUFFICES ASSUME ProgressInv, [Progress!Next]_(Progress!vars) PROVE ProgressSent'
  OBVIOUS
<1> USE DEF ProgressInv, ProgressSent
<1>1. CASE UNCHANGED <<operations, sent>>
  BY <1>1
<1>2. CASE Progress!PreviewAnswered
  <2>1. sent' = sent
    BY <1>2 DEF Progress!PreviewAnswered, Progress!leagueVars
  <2>2. CASE operations' = [id \in DOMAIN operations \cup {progressReview'} |->
                              IF id \in DOMAIN operations THEN operations[id]
                              ELSE [state |-> "preview", grant |-> preview.grant,
                                    selections |-> preview.selections]]
    BY <2>1, <2>2
  <2>3. CASE UNCHANGED operations
    BY <2>1, <2>3
  <2> QED BY <1>2, <2>2, <2>3 DEF Progress!PreviewAnswered
<1>3. ASSUME NEW w \in watching, Progress!Executes(w) PROVE ProgressSent'
  BY <1>3 DEF Progress!Executes, Progress!leagueVars
<1>4. ASSUME NEW id \in DOMAIN operations, Progress!Runs(id) PROVE ProgressSent'
  <2>1. /\ operations[id].state = "running" /\ sent' = [sent EXCEPT ![id] = @ + 1]
        /\ \E s \in {"complete", "failed"} : operations' = [operations EXCEPT ![id].state = s]
    BY <1>4 DEF Progress!Runs
  <2> QED BY <2>1
<1> QED
  BY <1>1, <1>2, <1>3, <1>4 DEF Progress!Next, Progress!vars, Progress!MasteryView,
     Progress!ConnectionEffect, Progress!RefreshButton, Progress!Confirm, Progress!DialogGone,
     Progress!CloseReview, Progress!RefreshRead, Progress!Refreshed, Progress!reviewReward,
     Progress!toggleReward, Progress!StatusRead, Progress!Completed, Progress!ConfirmThrows,
     Progress!acknowledge, Progress!leagueVars, Progress!choiceVars

(* A refresh is asked for while none is under way, or they cross.          *)
LEMMA ProgressRefreshes ==
  ASSUME ProgressRead, NEW who \in Progress!Whos, Progress!Refreshes(who),
         UNCHANGED <<operations, progressPending, progressRewards>>,
         \A w \in watching' : w \in watching,
         ~progressCrossed => \A id \in DOMAIN operations :
            operations[id].state = "running" /\ ProgressWatched(id) => ProgressWatched(id)'
  PROVE  ProgressRead'
<1>1. /\ progressLoads' = [progressLoads EXCEPT ![who] = Progress!Asked]
      /\ ~progressCrossed' =>
           /\ \A w \in Progress!Whos : progressLoads[w] = Progress!No
           /\ ~progressCrossed \/ \A id \in DOMAIN operations : operations[id].state # "running"
  BY DEF Progress!Refreshes
<1>2. DOMAIN progressLoads' = Progress!Whos /\ progressLoads'[who] = Progress!Asked
  BY <1>1 DEF ProgressRead
<1>3. \A w \in Progress!Whos : w # who => progressLoads'[w] = progressLoads[w]
  BY <1>1 DEF ProgressRead
<1> QED BY <1>1, <1>2, <1>3 DEF ProgressRead, Progress!No, Progress!Asked

LEMMA ProgressReadNext == ProgressInv /\ [Progress!Next]_(Progress!vars) => ProgressRead'
<1> SUFFICES ASSUME ProgressInv, [Progress!Next]_(Progress!vars) PROVE ProgressRead'
  OBVIOUS
<1> USE DEF Progress!leagueVars, Progress!shownVars, Progress!loadVars, Progress!choiceVars
<1> DEFINE Rest == <<progressPending, progressRewards, progressLoads, progressCrossed>>
<1>0. ProgressRead
  BY DEF ProgressInv
<1>1. CASE UNCHANGED <<Rest, operations, watching>>
  BY <1>0, <1>1 DEF ProgressRead, ProgressUnseen, ProgressWatched
<1>2. CASE Progress!ConnectionEffect \/ Progress!RefreshButton \/ Progress!acknowledge
  <2>1. /\ UNCHANGED <<operations, progressPending, progressRewards, watching>>
        /\ \/ \E who \in Progress!Whos : Progress!Refreshes(who)
           \/ UNCHANGED Rest
    BY <1>2 DEF Progress!ConnectionEffect, Progress!RefreshButton, Progress!acknowledge, Progress!Whos
  <2> QED BY <1>0, <1>1, <2>1, ProgressRefreshes DEF ProgressWatched
<1>3. CASE Progress!PreviewAnswered
  <2>1. UNCHANGED <<Rest, watching>>
    BY <1>3 DEF Progress!PreviewAnswered
  <2>2. CASE operations' = [id \in DOMAIN operations \cup {progressReview'} |->
                              IF id \in DOMAIN operations THEN operations[id]
                              ELSE [state |-> "preview", grant |-> preview.grant,
                                    selections |-> preview.selections]]
    <3>1. \A id \in DOMAIN operations : id \in DOMAIN operations' /\ operations'[id] = operations[id]
      BY <2>2
    <3>2. \A id \in DOMAIN operations' : id \in DOMAIN operations \/ operations'[id].state = "preview"
      BY <2>2
    <3> QED BY <1>0, <2>1, <3>1, <3>2 DEF ProgressRead, ProgressUnseen, ProgressWatched
  <2>3. CASE UNCHANGED operations
    BY <1>1, <2>1, <2>3
  <2> QED BY <1>3, <2>2, <2>3 DEF Progress!PreviewAnswered
<1>4. CASE Progress!Confirm \/ Progress!DialogGone
  <2>1. UNCHANGED <<Rest, operations>>
    BY <1>4 DEF Progress!Confirm, Progress!DialogGone
  <2>2. /\ \A w \in watching' : DOMAIN w = {"id", "at", "left"}
        /\ \A id : ProgressWatched(id) => ProgressWatched(id)'
    <3>1. CASE Progress!Confirm
      BY <1>0, <3>1 DEF Progress!Confirm, ProgressRead, ProgressWatched
    <3>2. CASE Progress!DialogGone
      <4>1. watching' = {[w EXCEPT !.left = TRUE] : w \in watching}
        BY <3>2 DEF Progress!DialogGone
      <4>2. \A w \in watching : /\ DOMAIN [w EXCEPT !.left = TRUE] = {"id", "at", "left"}
                                /\ [w EXCEPT !.left = TRUE].id = w.id
        BY <1>0 DEF ProgressRead
      <4>3. \A w \in watching : [w EXCEPT !.left = TRUE] \in watching'
        BY <4>1
      <4>4. \A v \in watching' : \E w \in watching : v = [w EXCEPT !.left = TRUE]
        BY <4>1
      <4>5. \A v \in watching' : DOMAIN v = {"id", "at", "left"}
        BY <4>2, <4>4
      <4>6. \A id : ProgressWatched(id) => ProgressWatched(id)'
        BY <4>2, <4>3 DEF ProgressWatched
      <4> QED BY <4>5, <4>6
    <3> QED BY <1>4, <3>1, <3>2
  <2> QED BY <1>0, <2>1, <2>2 DEF ProgressRead, ProgressUnseen
<1>5. ASSUME NEW who \in Progress!Whos, Progress!RefreshRead(who) PROVE ProgressRead'
  <2>1. /\ UNCHANGED <<progressPending, progressRewards, progressCrossed, operations, watching>>
        /\ progressLoads' = [progressLoads EXCEPT ![who] =
             [at |-> "read", mastery |-> notification,
              rewards |-> [g \in progressPending |-> selectedIds[g]]]]
    BY <1>5 DEF Progress!RefreshRead
  <2>2. /\ DOMAIN progressLoads' = Progress!Whos
        /\ progressLoads'[who].at = "read" /\ DOMAIN progressLoads'[who].rewards = progressPending'
        /\ \A w \in Progress!Whos : w # who => progressLoads'[w] = progressLoads[w]
    BY <1>0, <2>1 DEF ProgressRead
  <2> QED BY <1>0, <2>1, <2>2 DEF ProgressRead, ProgressUnseen, ProgressWatched, Progress!No
<1>6. ASSUME NEW who \in Progress!Whos, Progress!Refreshed(who) PROVE ProgressRead'
  <2>1. /\ UNCHANGED <<progressPending, operations, watching>>
        /\ progressLoads' = [progressLoads EXCEPT ![who] = Progress!No]
        /\ ~progressCrossed' => /\ ~progressCrossed /\ progressLoads[who].at = "read"
                                /\ progressRewards' = progressLoads[who].rewards
    BY <1>6 DEF Progress!Refreshed
  <2>2. /\ DOMAIN progressLoads' = Progress!Whos /\ progressLoads'[who] = Progress!No
        /\ \A w \in Progress!Whos : w # who => progressLoads'[w] = progressLoads[w]
    BY <1>0, <2>1 DEF ProgressRead
  <2> QED BY <1>0, <2>1, <2>2 DEF ProgressRead, ProgressUnseen, ProgressWatched, Progress!No
<1>7. ASSUME NEW w \in watching, Progress!StatusRead(w) \/ Progress!Executes(w) PROVE ProgressRead'
  <2>1. /\ UNCHANGED Rest
        /\ \E at : Progress!Becomes(w, at)
        /\ \/ UNCHANGED operations
           \/ operations[w.id].state = "preview" /\ operations' = [operations EXCEPT ![w.id].state = "running"]
    BY <1>7 DEF Progress!StatusRead, Progress!Executes
  <2>2. /\ \A v \in watching' : DOMAIN v = {"id", "at", "left"}
        /\ \A id : ProgressWatched(id) => ProgressWatched(id)'
        /\ ProgressWatched(w.id)'
    <3>1. PICK at : watching' = (watching \ {w}) \cup {[w EXCEPT !.at = at]}
      BY <2>1 DEF Progress!Becomes
    <3>2. DOMAIN [w EXCEPT !.at = at] = {"id", "at", "left"} /\ [w EXCEPT !.at = at].id = w.id
      BY <1>0 DEF ProgressRead
    <3> QED BY <1>0, <3>1, <3>2 DEF ProgressRead, ProgressWatched
  <2>3. /\ DOMAIN operations' = DOMAIN operations
        /\ \A id \in DOMAIN operations :
             \/ operations'[id].state = operations[id].state
             \/ id = w.id /\ operations[id].state = "preview" /\ operations'[id].state = "running"
    <3>1. CASE /\ operations[w.id].state = "preview"
               /\ operations' = [operations EXCEPT ![w.id].state = "running"]
      <4>1. \A id \in DOMAIN operations : "state" \in DOMAIN operations[id]
        BY DEF ProgressInv, ProgressSent
      <4>2. /\ DOMAIN operations' = DOMAIN operations
            /\ \A id \in DOMAIN operations : operations'[id] =
                 IF id = w.id THEN [operations[id] EXCEPT !.state = "running"] ELSE operations[id]
        BY <3>1
      <4> QED BY <3>1, <4>1, <4>2
    <3> QED BY <2>1, <3>1
  <2> QED BY <1>0, <2>1, <2>2, <2>3 DEF ProgressRead, ProgressUnseen
<1>8. ASSUME NEW id \in DOMAIN operations, Progress!Runs(id) PROVE ProgressRead'
  <2>1. /\ UNCHANGED <<progressRewards, progressLoads, progressCrossed, watching>>
        /\ operations[id].state = "running"
        /\ \/ operations' = [operations EXCEPT ![id].state = "complete"]
           \/ operations' = [operations EXCEPT ![id].state = "failed"] /\ UNCHANGED progressPending
    BY <1>8 DEF Progress!Runs
  <2>2. /\ DOMAIN operations' = DOMAIN operations
        /\ \A i \in DOMAIN operations : i # id => operations'[i] = operations[i]
        /\ \/ operations'[id].state = "complete"
           \/ operations'[id].state = "failed" /\ UNCHANGED progressPending
    <3>1. "state" \in DOMAIN operations[id]
      BY DEF ProgressInv, ProgressSent
    <3>2. PICK s \in {"complete", "failed"} :
            /\ operations' = [operations EXCEPT ![id] = [operations[id] EXCEPT !.state = s]]
            /\ s = "failed" => UNCHANGED progressPending
      BY <2>1
    <3> QED BY <3>1, <3>2
  <2>3. \A i : ProgressWatched(i)' <=> ProgressWatched(i)
    BY <2>1 DEF ProgressWatched
  <2>4. ~progressCrossed => ProgressWatched(id)
    BY <1>0, <2>1 DEF ProgressRead
  <2>5. ~progressCrossed /\ progressPending' # progressPending => ProgressUnseen'
    BY <2>2, <2>3, <2>4 DEF ProgressUnseen
  <2>6. ProgressUnseen => ProgressUnseen'
    BY <2>1, <2>2, <2>3 DEF ProgressUnseen
  <2> QED BY <1>0, <2>1, <2>2, <2>3, <2>5, <2>6 DEF ProgressRead
<1>9. ASSUME NEW w \in watching, Progress!Completed(w) PROVE ProgressRead'
  <2>1. /\ UNCHANGED <<operations, progressPending, progressRewards>> /\ watching' = watching \ {w}
        /\ operations[w.id].state = "complete" /\ Progress!Refreshes("confirm")
    BY <1>9 DEF Progress!Completed
  <2> QED BY <1>0, <2>1, ProgressRefreshes DEF ProgressWatched, Progress!Whos
<1>10. ASSUME NEW w \in watching, Progress!ConfirmThrows(w) PROVE ProgressRead'
  <2>1. /\ UNCHANGED <<operations, progressPending, progressRewards, progressLoads>>
        /\ watching' = watching \ {w}
        /\ ~progressCrossed' => ~progressCrossed /\ operations[w.id].state \notin {"running", "complete"}
    BY <1>10 DEF Progress!ConfirmThrows
  <2>2. \A id : ProgressWatched(id) => id = w.id \/ ProgressWatched(id)'
    BY <2>1 DEF ProgressWatched
  <2>3. ~progressCrossed' /\ ProgressUnseen => ProgressUnseen'
    BY <2>1, <2>2 DEF ProgressUnseen
  <2> QED BY <1>0, <2>1, <2>2, <2>3 DEF ProgressRead
<1> QED
  BY <1>1, <1>2, <1>3, <1>4, <1>5, <1>6, <1>7, <1>8, <1>9, <1>10 DEF Progress!Next, Progress!vars,
     Progress!MasteryView, Progress!CloseReview, Progress!reviewReward, Progress!toggleReward

LEMMA ProgressInvNext == ProgressInv /\ [Progress!Next]_(Progress!vars) => ProgressInv'
  BY ProgressSentNext, ProgressReadNext DEF ProgressInv

LEMMA ProgressShows == ProgressInv => Progress!SentOnce /\ Progress!PendingIsShown
  BY DEF ProgressInv, ProgressSent, ProgressRead, ProgressUnseen, ProgressWatched,
         Progress!SentOnce, Progress!PendingIsShown

(* The list of masteries that is shown begins with so many.                *)
ProgressLimit == masteryLimit \in Nat

LEMMA ProgressLimitInit == Progress!Init => ProgressLimit
  BY MasteryAssumption DEF Progress!Init, ProgressLimit

LEMMA ProgressLimitNext == ProgressLimit /\ [Progress!Next]_(Progress!vars) => ProgressLimit'
<1> SUFFICES ASSUME ProgressLimit, [Progress!Next]_(Progress!vars) PROVE ProgressLimit'
  OBVIOUS
<1>1. CASE Progress!MasteryView
  <2>1. masteryLimit' \in {masteryLimit, masteryLimit + MasteryPage}
    BY <1>1 DEF Progress!MasteryView
  <2> QED BY <2>1, MasteryAssumption DEF ProgressLimit
<1>2. CASE UNCHANGED Progress!masteryVars
  BY <1>2 DEF Progress!masteryVars, ProgressLimit
<1>3. CASE \/ Progress!ConnectionEffect \/ Progress!RefreshButton \/ Progress!PreviewAnswered
           \/ Progress!Confirm \/ Progress!DialogGone \/ Progress!CloseReview \/ Progress!acknowledge
  BY <1>2, <1>3 DEF Progress!ConnectionEffect, Progress!RefreshButton, Progress!PreviewAnswered,
     Progress!Confirm, Progress!DialogGone, Progress!CloseReview, Progress!acknowledge
<1>4. CASE \E who \in Progress!Whos : Progress!RefreshRead(who) \/ Progress!Refreshed(who)
  BY <1>2, <1>4 DEF Progress!RefreshRead, Progress!Refreshed
<1>5. CASE \E g \in Grants : Progress!reviewReward(g) \/ \E option \in Options : Progress!toggleReward(g, option)
  BY <1>2, <1>5 DEF Progress!reviewReward, Progress!toggleReward
<1>6. CASE \E w \in watching : \/ Progress!StatusRead(w) \/ Progress!Executes(w)
                               \/ Progress!Completed(w) \/ Progress!ConfirmThrows(w)
  BY <1>2, <1>6 DEF Progress!StatusRead, Progress!Executes, Progress!Completed, Progress!ConfirmThrows
<1>7. CASE \E id \in DOMAIN operations : Progress!Runs(id)
  BY <1>2, <1>7 DEF Progress!Runs
<1>8. CASE UNCHANGED Progress!vars
  BY <1>2, <1>8 DEF Progress!vars
<1> QED BY <1>1, <1>3, <1>4, <1>5, <1>6, <1>7, <1>8 DEF Progress!Next

(* Nearer is a strict order.                                               *)
Nearer(a, b) == Progress!Closest(a, b) = -1

LEMMA NearerOrders ==
  ASSUME NEW a \in Mastered, NEW b \in Mastered
  PROVE  /\ Nearer(a, b) <=> \/ a.until > 0 /\ (b.until > 0 => a.until < b.until)
                             \/ a.until <= 0 /\ b.until <= 0 /\ a.points > b.points
         /\ ~Nearer(a, a)
<1>1. /\ a.until \in Int /\ b.until \in Int /\ a.points \in Int /\ b.points \in Int
  BY MasteryAssumption
<1> QED BY <1>1 DEF Nearer, Progress!Closest, Progress!By

LEMMA NearerTransitive ==
  ASSUME NEW a \in Mastered, NEW b \in Mastered, NEW c \in Mastered, Nearer(a, b), Nearer(b, c)
  PROVE  Nearer(a, c)
<1>1. /\ a.until \in Int /\ b.until \in Int /\ c.until \in Int
      /\ a.points \in Int /\ b.points \in Int /\ c.points \in Int
  BY MasteryAssumption
<1>2. /\ \/ a.until > 0 /\ (b.until > 0 => a.until < b.until)
         \/ a.until <= 0 /\ b.until <= 0 /\ a.points > b.points
      /\ \/ b.until > 0 /\ (c.until > 0 => b.until < c.until)
         \/ b.until <= 0 /\ c.until <= 0 /\ b.points > c.points
  BY NearerOrders
<1>3. \/ a.until > 0 /\ (c.until > 0 => a.until < c.until)
      \/ a.until <= 0 /\ c.until <= 0 /\ a.points > c.points
  BY <1>1, <1>2
<1> QED BY <1>3, NearerOrders

(* Of some champions none is nearer than the nearest: the one with the     *)
(* fewest before it.                                                       *)
LEMMA NearestFirst ==
  ASSUME NEW S, S \subseteq Mastered, S # {}
  PROVE  \E x \in S : \A y \in S : ~Nearer(y, x)
<1> DEFINE Above(x) == {y \in S : Nearer(y, x)}
           n(x) == Cardinality(Above(x))
           sizes == {n(x) : x \in S}
<1>1. \A x \in S : IsFiniteSet(Above(x)) /\ n(x) \in Nat
  <2>1. IsFiniteSet(S)
    BY MasteryAssumption, FS_Subset
  <2>2. \A x \in S : Above(x) \in SUBSET S
    OBVIOUS
  <2> HIDE DEF Above
  <2>3. \A x \in S : IsFiniteSet(Above(x))
    BY <2>1, <2>2, FS_Subset
  <2> QED BY <2>3, FS_CardinalityType
<1>2. sizes \subseteq Nat /\ sizes # {}
  BY <1>1
<1>3. PICK m \in sizes : \A k \in sizes : m <= k
  <2> HIDE DEF sizes
  <2> QED BY <1>2, Least
<1>4. PICK x \in S : m = n(x)
  OBVIOUS
<1>5. ASSUME NEW y \in S, Nearer(y, x) PROVE FALSE
  <2>1. Above(y) \subseteq Above(x)
    BY <1>5, NearerTransitive
  <2>2. y \in Above(x) /\ y \notin Above(y)
    BY <1>5, NearerOrders
  <2>3. n(y) \in sizes
    OBVIOUS
  <2>4. n(x) <= n(y)
    BY <1>3, <1>4, <2>3
  <2> HIDE DEF Above
  <2>5. n(y) <= n(x) /\ (n(x) = n(y) => Above(x) = Above(y))
    BY <1>1, <2>1, FS_Subset
  <2>6. n(x) \in Nat /\ n(y) \in Nat
    BY <1>1
  <2> HIDE DEF n
  <2>7. n(x) = n(y)
    BY <2>4, <2>5, <2>6
  <2> QED BY <2>2, <2>5, <2>7
<1> QED BY <1>5

(* So they can be listed in that order.                                    *)
Listing(S, list) ==
  /\ list \in [1 .. Cardinality(S) -> S]
  /\ \A i, j \in 1 .. Cardinality(S) : i < j => list[i] # list[j] /\ ~Nearer(list[j], list[i])

LEMMA NearestListed == ASSUME NEW S, S \subseteq Mastered PROVE \E list : Listing(S, list)
<1> DEFINE bad == {n \in Nat : \E T \in SUBSET Mastered : Cardinality(T) = n /\ ~ \E list : Listing(T, list)}
<1>1. \A T \in SUBSET Mastered : IsFiniteSet(T) /\ Cardinality(T) \in Nat
  BY MasteryAssumption, FS_Subset, FS_CardinalityType
<1>2. ASSUME NEW n \in bad, \A k \in bad : n <= k PROVE FALSE
  <2>1. PICK T \in SUBSET Mastered : Cardinality(T) = n /\ ~ \E list : Listing(T, list)
    BY <1>2
  <2>2. n \in Nat
    BY <1>2
  <2>3. CASE T = {}
    <3>1. n = 0
      BY <2>1, <2>3, FS_EmptySet
    <3>2. Listing(T, <<>>)
      BY <2>1, <2>3, <3>1 DEF Listing
    <3> QED BY <2>1, <3>2
  <2>4. CASE T # {}
    <3>1. PICK x \in T : \A y \in T : ~Nearer(y, x)
      BY <2>4, NearestFirst
    <3> DEFINE U == T \ {x}
    <3>2. n - 1 \in Nat /\ Cardinality(U) = n - 1
      <4>1. IsFiniteSet(T) /\ Cardinality(U) = Cardinality(T) - 1
        BY <1>1, FS_RemoveElement
      <4>2. Cardinality(U) \in Nat
        BY <1>1
      <4> QED BY <4>1, <4>2, <2>1, <2>2
    <3>3. n - 1 \notin bad
      BY <1>2, <2>2
    <3>4. U \in SUBSET Mastered
      OBVIOUS
    <3> HIDE DEF U
    <3>5. PICK l : Listing(U, l)
      BY <3>2, <3>3, <3>4
    <3> DEFINE list == [i \in 1 .. n |-> IF i = 1 THEN x ELSE l[i - 1]]
    <3>6. \A i \in 1 .. n : i # 1 => i - 1 \in 1 .. n - 1
      BY <2>2
    <3>7. /\ \A k \in 1 .. n - 1 : l[k] \in T /\ l[k] # x
          /\ \A i, j \in 1 .. n - 1 : i < j => l[i] # l[j] /\ ~Nearer(l[j], l[i])
      BY <3>2, <3>5 DEF Listing, U
    <3>8. list \in [1 .. n -> T]
      BY <3>6, <3>7
    <3>9. ASSUME NEW i \in 1 .. n, NEW j \in 1 .. n, i < j
          PROVE  list[i] # list[j] /\ ~Nearer(list[j], list[i])
      <4>1. j # 1 /\ j - 1 \in 1 .. n - 1 /\ list[j] = l[j - 1]
        BY <3>6, <3>9, <2>2
      <4>2. CASE i = 1
        <5>1. list[i] = x
          BY <4>2
        <5> QED BY <5>1, <4>1, <3>1, <3>7
      <4>3. CASE i # 1
        <5>1. i - 1 \in 1 .. n - 1 /\ i - 1 < j - 1 /\ list[i] = l[i - 1]
          BY <4>3, <3>6, <3>9, <2>2
        <5> QED BY <5>1, <4>1, <3>7
      <4> QED BY <4>2, <4>3
    <3> HIDE DEF list
    <3>10. Listing(T, list)
      BY <2>1, <3>8, <3>9 DEF Listing
    <3> QED BY <2>1, <3>10
  <2> QED BY <2>3, <2>4
<1>3. bad = {}
  <2>1. bad \subseteq Nat
    OBVIOUS
  <2> HIDE DEF bad
  <2> QED BY <2>1, <1>2, Least
<1>4. S \in SUBSET Mastered /\ Cardinality(S) \in Nat
  BY <1>1
<1> QED BY <1>3, <1>4

LEMMA ProgressClosest == ProgressLimit => Progress!ClosestFirst
<1> SUFFICES ASSUME ProgressLimit, masterySort = "closest" PROVE Progress!ClosestFirst
  BY DEF Progress!ClosestFirst
<1> DEFINE found == {c \in Mastered : masterySearch = {} \/ c.name \in masterySearch}
           n == Cardinality(found)
           list == Progress!filteredMastery
           seen == Progress!displayedMastery
<1>1. n \in Nat
  <2>1. found \in SUBSET Mastered
    OBVIOUS
  <2> HIDE DEF found
  <2> QED BY <2>1, MasteryAssumption, FS_Subset, FS_CardinalityType
<1>2. \A a, b : Progress!Order(a, b) = Progress!Closest(a, b)
  BY DEF Progress!Order
<1>3. \E l \in [1 .. n -> found] :
        \A i, j \in DOMAIN l : i < j => l[i] # l[j] /\ Progress!Order(l[j], l[i]) # -1
  <2>1. found \subseteq Mastered
    OBVIOUS
  <2> HIDE DEF found
  <2>2. PICK l : Listing(found, l)
    BY <2>1, NearestListed
  <2>3. l \in [1 .. n -> found] /\ DOMAIN l = 1 .. n
    BY <2>2 DEF Listing
  <2> QED BY <2>2, <2>3, <1>2 DEF Listing, Nearer
<1>4. list = CHOOSE l \in [1 .. n -> found] :
               \A i, j \in DOMAIN l : i < j => l[i] # l[j] /\ Progress!Order(l[j], l[i]) # -1
  BY DEF Progress!filteredMastery, Progress!Cardinality, Cardinality
<1> HIDE DEF n, list
<1>5. /\ list \in [1 .. n -> found]
      /\ \A i, j \in DOMAIN list : i < j => list[i] # list[j] /\ Progress!Order(list[j], list[i]) # -1
  BY <1>3, <1>4
<1>6. list \in Seq(found) /\ Len(list) = n
  BY <1>1, <1>5
<1> DEFINE k == IF masteryLimit < n THEN masteryLimit ELSE n
<1>7. seen = SubSeq(list, 1, k)
  BY <1>6 DEF Progress!displayedMastery, list
<1>8. k \in Nat /\ k <= n
  BY <1>1 DEF ProgressLimit
<1> HIDE DEF seen, found, k
<1>9. /\ DOMAIN seen = 1 .. k
      /\ \A i \in 1 .. k : seen[i] = list[i] /\ i \in 1 .. n
  BY <1>1, <1>6, <1>7, <1>8
<1>10. ASSUME NEW i \in DOMAIN seen, NEW j \in DOMAIN seen, i < j, seen[j].until > 0
       PROVE  seen[i].until \in 1 .. seen[j].until
  <2>1. seen[i] = list[i] /\ seen[j] = list[j] /\ i \in 1 .. n /\ j \in 1 .. n
    BY <1>9
  <2>2. list[i] \in Mastered /\ list[j] \in Mastered
    BY <2>1, <1>5 DEF found
  <2>3. ~Nearer(list[j], list[i])
    BY <2>1, <1>2, <1>5, <1>10 DEF Nearer
  <2>4. ~(list[i].until > 0 => list[j].until < list[i].until)
    BY <2>1, <2>2, <2>3, <1>10, NearerOrders
  <2>5. list[i].until \in Int /\ list[j].until \in Int
    BY <2>2, MasteryAssumption
  <2> QED BY <2>1, <2>4, <2>5
<1> QED BY <1>10 DEF Progress!ClosestFirst, seen

-----------------------------------------------------------------------------
(* The cache of requests: MetadataCache.                                   *)

(* The cache of requests: an entry is as old as it says, and is of the     *)
(* time since the last clearing when nothing was under way then.           *)
CacheAnswered(e) ==
  /\ e.answered \in Nat /\ e.expiresAt = e.answered + TTL
  /\ ~crossedClear => e.after = clears

CacheInv ==
  /\ now \in Nat
  /\ \A e \in jsonCache \cup persisted : CacheAnswered(e)
  /\ \A r \in jsonInflight :
       /\ DOMAIN r = {"path", "at", "after"}
       /\ ~crossedClear => r.after = clears
  /\ Cache!ReturnsFresh

LEMMA CacheInvInit == Cache!Init => CacheInv
  BY DEF Cache!Init, CacheInv, Cache!ReturnsFresh

(* What is fresh may be returned.                                          *)
LEMMA CacheReturns ==
  ASSUME NEW e, now \in Nat, CacheAnswered(e), e.expiresAt > now, Cache!Returns(e),
         UNCHANGED <<clears, crossedClear>>
  PROVE  Cache!ReturnsFresh'
<1>1. returned' = [at |-> now, answered |-> e.answered, after |-> e.after]
  BY DEF Cache!Returns
<1>2. returned'.at = now /\ returned'.answered = e.answered /\ returned'.after = e.after
  BY <1>1
<1>3. now - e.answered < TTL
  BY CacheAssumption DEF CacheAnswered
<1>4. e.after = clears \/ crossedClear
  BY DEF CacheAnswered
<1> QED BY <1>2, <1>3, <1>4 DEF Cache!ReturnsFresh

LEMMA CacheInvNext == CacheInv /\ [Cache!Next]_(Cache!vars) => CacheInv'
<1> SUFFICES ASSUME CacheInv, [Cache!Next]_(Cache!vars) PROVE CacheInv'
  OBVIOUS
<1> USE DEF Cache!kept
<1>a. ASSUME UNCHANGED <<clears, crossedClear>> PROVE \A e : CacheAnswered(e)' = CacheAnswered(e)
  BY <1>a DEF CacheAnswered
<1>1. ASSUME NEW path \in Paths, Cache!FetchCached(path) PROVE CacheInv'
  <2>1. UNCHANGED <<now, clears, jsonInflight, crossedClear>>
    BY <1>1 DEF Cache!FetchCached
  <2>2. PICK e \in jsonCache \cup persisted :
          /\ e.expiresAt > now /\ Cache!Returns(e)
          /\ jsonCache' \subseteq jsonCache \cup {e} /\ persisted' = persisted
    BY <1>1 DEF Cache!FetchCached, Cache!Fresh, Cache!Of
  <2>3. Cache!ReturnsFresh'
    BY <2>1, <2>2, CacheReturns DEF CacheInv
  <2>4. \A f \in (jsonCache \cup persisted)' : f \in jsonCache \cup persisted
    BY <2>2
  <2>5. \A f \in (jsonCache \cup persisted)' : CacheAnswered(f)'
    BY <1>a, <2>1, <2>4 DEF CacheInv
  <2> QED BY <2>1, <2>3, <2>5 DEF CacheInv
<1>2. ASSUME NEW path \in Paths, Cache!FetchAnew(path) PROVE CacheInv'
  <2> DEFINE request == [path |-> path, at |-> "sent", after |-> clears]
  <2>1. DOMAIN request = {"path", "at", "after"} /\ request.after = clears
    OBVIOUS
  <2>2. /\ jsonInflight' = jsonInflight \cup {request} /\ persisted' \subseteq persisted
        /\ UNCHANGED <<now, clears, jsonCache, returned, crossedClear>>
    BY <1>2 DEF Cache!FetchAnew
  <2> HIDE DEF request
  <2>3. \A f \in (jsonCache \cup persisted)' : CacheAnswered(f)'
    BY <1>a, <2>2 DEF CacheInv
  <2>4. Cache!ReturnsFresh'
    BY <2>2 DEF CacheInv, Cache!ReturnsFresh, Cache!No
  <2> QED BY <2>1, <2>2, <2>3, <2>4 DEF CacheInv
<1>3. ASSUME NEW r \in jsonInflight, Cache!FetchRead(r) PROVE CacheInv'
  <2> DEFINE answer == [r EXCEPT !.at = "read", !.after = clears]
  <2>1. DOMAIN answer = {"path", "at", "after"} /\ answer.after = clears
    BY DEF CacheInv
  <2>2. /\ jsonInflight' = (jsonInflight \ {r}) \cup {answer}
        /\ UNCHANGED <<now, clears, jsonCache, persisted, returned, crossedClear>>
    BY <1>3 DEF Cache!FetchRead
  <2> HIDE DEF answer
  <2>3. \A f \in (jsonCache \cup persisted)' : CacheAnswered(f)'
    BY <1>a, <2>2 DEF CacheInv
  <2>4. Cache!ReturnsFresh'
    BY <2>2 DEF CacheInv, Cache!ReturnsFresh, Cache!No
  <2> QED BY <2>1, <2>2, <2>3, <2>4 DEF CacheInv
<1>4. ASSUME NEW r \in jsonInflight, Cache!FetchEnds(r) PROVE CacheInv'
  <2> DEFINE e == [path |-> r.path, answered |-> now, expiresAt |-> now + TTL, after |-> r.after]
  <2>1. e.answered = now /\ e.expiresAt = now + TTL /\ e.after = r.after
    OBVIOUS
  <2>2. /\ jsonInflight' = jsonInflight \ {r} /\ Cache!Returns(e)
        /\ jsonCache' = (jsonCache \ Cache!Of(jsonCache, r.path)) \cup {e}
        /\ persisted' \in Cache!Bounded((persisted \ Cache!Of(persisted, r.path)) \cup {e})
        /\ UNCHANGED <<now, clears, crossedClear>>
    BY <1>4 DEF Cache!FetchEnds
  <2> HIDE DEF e
  <2>3. CacheAnswered(e) /\ e.expiresAt > now
    BY <2>1, CacheAssumption DEF CacheInv, CacheAnswered
  <2>4. Cache!ReturnsFresh'
    BY <2>2, <2>3, CacheReturns DEF CacheInv
  <2>5. persisted' \subseteq persisted \cup {e} /\ jsonCache' \subseteq jsonCache \cup {e}
    BY <2>2 DEF Cache!Bounded
  <2>6. \A f \in (jsonCache \cup persisted)' : CacheAnswered(f)'
    BY <1>a, <2>2, <2>3, <2>5 DEF CacheInv
  <2> QED BY <2>2, <2>4, <2>6 DEF CacheInv
<1>5. ASSUME NEW r \in jsonInflight, Cache!FetchFails(r) PROVE CacheInv'
  <2>1. /\ jsonInflight' = jsonInflight \ {r}
        /\ UNCHANGED <<now, clears, jsonCache, persisted, returned, crossedClear>>
    BY <1>5 DEF Cache!FetchFails
  <2>2. \A f \in (jsonCache \cup persisted)' : CacheAnswered(f)'
    BY <1>a, <2>1 DEF CacheInv
  <2>3. Cache!ReturnsFresh'
    BY <2>1 DEF CacheInv, Cache!ReturnsFresh, Cache!No
  <2> QED BY <2>1, <2>2, <2>3 DEF CacheInv
<1>6. CASE Cache!clearCachedJSON
  <2>1. /\ jsonCache' = {} /\ persisted' = {} /\ returned' = Cache!No
        /\ crossedClear' = (crossedClear \/ jsonInflight # {})
        /\ UNCHANGED <<now, jsonInflight>>
    BY <1>6 DEF Cache!clearCachedJSON
  <2>2. ~crossedClear' => jsonInflight = {}
    BY <2>1
  <2>3. Cache!ReturnsFresh'
    BY <2>1 DEF Cache!ReturnsFresh, Cache!No
  <2> QED BY <2>1, <2>2, <2>3 DEF CacheInv
<1>7. CASE Cache!WindowReloads
  <2>1. /\ jsonCache' = {} /\ jsonInflight' = {} /\ returned' = Cache!No
        /\ UNCHANGED <<now, clears, persisted, crossedClear>>
    BY <1>7 DEF Cache!WindowReloads
  <2>2. \A f \in (jsonCache \cup persisted)' : CacheAnswered(f)'
    BY <1>a, <2>1 DEF CacheInv
  <2>3. Cache!ReturnsFresh'
    BY <2>1 DEF Cache!ReturnsFresh, Cache!No
  <2> QED BY <2>1, <2>2, <2>3 DEF CacheInv
<1>8. CASE Cache!Tick
  <2>1. /\ now' = now + 1 /\ returned' = Cache!No
        /\ UNCHANGED <<clears, jsonCache, persisted, jsonInflight, crossedClear>>
    BY <1>8 DEF Cache!Tick
  <2>2. \A f \in (jsonCache \cup persisted)' : CacheAnswered(f)'
    BY <1>a, <2>1 DEF CacheInv
  <2>3. Cache!ReturnsFresh'
    BY <2>1 DEF Cache!ReturnsFresh, Cache!No
  <2> QED BY <2>1, <2>2, <2>3 DEF CacheInv
<1>9. CASE UNCHANGED Cache!vars
  <2>1. UNCHANGED <<now, clears, jsonCache, persisted, jsonInflight, returned, crossedClear>>
    BY <1>9 DEF Cache!vars
  <2>2. \A f \in (jsonCache \cup persisted)' : CacheAnswered(f)'
    BY <1>a, <2>1 DEF CacheInv
  <2>3. Cache!ReturnsFresh'
    BY <2>1 DEF CacheInv, Cache!ReturnsFresh, Cache!No
  <2> QED BY <2>1, <2>2, <2>3 DEF CacheInv
<1> QED BY <1>1, <1>2, <1>3, <1>4, <1>5, <1>6, <1>7, <1>8, <1>9 DEF Cache!Next

(* A caller gets what is young enough, and of the time since the clearing. *)
LEMMA CacheShows == CacheInv => Cache!ReturnsFresh
  BY DEF CacheInv

-----------------------------------------------------------------------------
(* A step of the interface is one of the page on show, and leaves the      *)
(* others.                                                                 *)

LEMMA PlayStep == [Next]_vars => [Play!Next]_(Play!vars)
<1> SUFFICES ASSUME [Next]_vars PROVE Play!Next \/ UNCHANGED <<page, playVars>>
  BY DEF playVars, Play!vars, Play!choiceVars, Play!startVars
<1> QED
  BY DEF Next, PlayPagesNext, ClientPagesNext, DataPagesNext, AppPagesNext, vars, playPagesVars,
         clientPagesVars, dataPagesVars, appPagesVars

LEMMA PickerStep == [Next]_vars => [Picker!Next]_(Picker!vars)
<1> SUFFICES ASSUME [Next]_vars PROVE Picker!Next \/ UNCHANGED <<page, pickerVars>>
  BY DEF pickerVars, Picker!vars
<1> QED
  BY DEF Next, PlayPagesNext, ClientPagesNext, DataPagesNext, AppPagesNext, vars, playPagesVars,
         clientPagesVars, dataPagesVars, appPagesVars

LEMMA RunesStep == [Next]_vars => [Runes!Next]_(Runes!vars)
<1> SUFFICES ASSUME [Next]_vars PROVE Runes!Next \/ UNCHANGED <<page, runesVars>>
  BY DEF runesVars, Runes!vars
<1> QED
  BY DEF Next, PlayPagesNext, ClientPagesNext, DataPagesNext, AppPagesNext, vars, playPagesVars,
         clientPagesVars, dataPagesVars, appPagesVars

LEMMA DraftStep == [Next]_vars => [Draft!Next]_(Draft!vars)
<1> SUFFICES ASSUME [Next]_vars PROVE Draft!Next \/ UNCHANGED <<page, draftVars>>
  BY DEF draftVars, Draft!vars
<1> QED
  BY DEF Next, PlayPagesNext, ClientPagesNext, DataPagesNext, AppPagesNext, vars, playPagesVars,
         clientPagesVars, dataPagesVars, appPagesVars

LEMMA LiveStep == [Next]_vars => [Live!Next]_(Live!vars)
<1> SUFFICES ASSUME [Next]_vars PROVE Live!Next \/ UNCHANGED <<page, liveVars>>
  BY DEF liveVars, Live!vars
<1> QED
  BY DEF Next, PlayPagesNext, ClientPagesNext, DataPagesNext, AppPagesNext, vars, playPagesVars,
         clientPagesVars, dataPagesVars, appPagesVars

LEMMA RoomStep == [Next]_vars => [Room!Next]_(Room!vars)
<1> SUFFICES ASSUME [Next]_vars PROVE Room!Next \/ UNCHANGED <<page, roomVars>>
  BY DEF roomVars, Room!vars, Room!leagueVars, Room!choiceVars, Room!presetVars
<1> QED
  BY DEF Next, PlayPagesNext, ClientPagesNext, DataPagesNext, AppPagesNext, vars, playPagesVars,
         clientPagesVars, dataPagesVars, appPagesVars

LEMMA QoLStep == [Next]_vars => [QoL!Next]_(QoL!vars)
<1> SUFFICES ASSUME [Next]_vars PROVE QoL!Next \/ UNCHANGED <<page, qolVars>>
  BY DEF qolVars, QoL!vars, QoL!saved, QoL!shown, QoL!game, QoL!text
<1> QED
  BY DEF Next, PlayPagesNext, ClientPagesNext, DataPagesNext, AppPagesNext, vars, playPagesVars,
         clientPagesVars, dataPagesVars, appPagesVars

LEMMA SocialStep == [Next]_vars => [Social!Next]_(Social!vars)
<1> SUFFICES ASSUME [Next]_vars PROVE Social!Next \/ UNCHANGED <<page, socialVars>>
  BY DEF socialVars, Social!vars
<1> QED
  BY DEF Next, PlayPagesNext, ClientPagesNext, DataPagesNext, AppPagesNext, vars, playPagesVars,
         clientPagesVars, dataPagesVars, appPagesVars

LEMMA PrepStep == [Next]_vars => [Prep!Next]_(Prep!vars)
<1> SUFFICES ASSUME [Next]_vars PROVE Prep!Next \/ UNCHANGED <<page, prepVars>>
  BY DEF prepVars, Prep!vars, Prep!presetVars, Prep!setVars, Prep!crossedVars
<1> QED
  BY DEF Next, PlayPagesNext, ClientPagesNext, DataPagesNext, AppPagesNext, vars, playPagesVars,
         clientPagesVars, dataPagesVars, appPagesVars

LEMMA ProfileStep == [Next]_vars => [Profile!Next]_(Profile!vars)
<1> SUFFICES ASSUME [Next]_vars PROVE Profile!Next \/ UNCHANGED <<page, profileVars>>
  BY DEF profileVars, Profile!vars, Profile!skinVars, Profile!iconVars, Profile!presetVars
<1> QED
  BY DEF Next, PlayPagesNext, ClientPagesNext, DataPagesNext, AppPagesNext, vars, playPagesVars,
         clientPagesVars, dataPagesVars, appPagesVars

LEMMA ShellStep == [Next]_vars => [Shell!Next]_(Shell!vars)
<1> SUFFICES ASSUME [Next]_vars PROVE Shell!Next \/ UNCHANGED <<page, shellVars>>
  BY DEF shellVars, Shell!vars
<1> QED
  BY DEF Next, PlayPagesNext, ClientPagesNext, DataPagesNext, AppPagesNext, vars, playPagesVars,
         clientPagesVars, dataPagesVars, appPagesVars

LEMMA PrefsStep == [Next]_vars => [Prefs!Next]_(Prefs!vars)
<1> SUFFICES ASSUME [Next]_vars PROVE Prefs!Next \/ UNCHANGED <<page, prefsVars>>
  BY DEF prefsVars, Prefs!vars
<1> QED
  BY DEF Next, PlayPagesNext, ClientPagesNext, DataPagesNext, AppPagesNext, vars, playPagesVars,
         clientPagesVars, dataPagesVars, appPagesVars

LEMMA SystemStep == [Next]_vars => [System!Next]_(System!vars)
<1> SUFFICES ASSUME [Next]_vars PROVE System!Next \/ UNCHANGED <<page, systemVars>>
  BY DEF systemVars, System!vars
<1> QED
  BY DEF Next, PlayPagesNext, ClientPagesNext, DataPagesNext, AppPagesNext, vars, playPagesVars,
         clientPagesVars, dataPagesVars, appPagesVars

LEMMA AccountsStep == [Next]_vars => [Accounts!Next]_(Accounts!vars)
<1> SUFFICES ASSUME [Next]_vars PROVE Accounts!Next \/ UNCHANGED <<page, accountsVars>>
  BY DEF accountsVars, Accounts!vars, Accounts!storeVars, Accounts!shownVars, Accounts!loadVars,
         Accounts!callVars, Accounts!dialogVars
<1> QED
  BY DEF Next, PlayPagesNext, ClientPagesNext, DataPagesNext, AppPagesNext, vars, playPagesVars,
         clientPagesVars, dataPagesVars, appPagesVars

LEMMA BackupsStep == [Next]_vars => [Backups!Next]_(Backups!vars)
<1> SUFFICES ASSUME [Next]_vars PROVE Backups!Next \/ UNCHANGED <<page, backupsVars>>
  BY DEF backupsVars, Backups!vars, Backups!leagueVars, Backups!storeVars, Backups!listVars,
         Backups!dialogs, Backups!lookup
<1> QED
  BY DEF Next, PlayPagesNext, ClientPagesNext, DataPagesNext, AppPagesNext, vars, playPagesVars,
         clientPagesVars, dataPagesVars, appPagesVars

LEMMA HistoryStep == [Next]_vars => [History!Next]_(History!vars)
<1> SUFFICES ASSUME [Next]_vars PROVE History!Next \/ UNCHANGED <<page, historyVars>>
  BY DEF historyVars, History!vars
<1> QED
  BY DEF Next, PlayPagesNext, ClientPagesNext, DataPagesNext, AppPagesNext, vars, playPagesVars,
         clientPagesVars, dataPagesVars, appPagesVars

LEMMA LootStep == [Next]_vars => [Loot!Next]_(Loot!vars)
<1> SUFFICES ASSUME [Next]_vars PROVE Loot!Next \/ UNCHANGED <<page, lootVars>>
  BY DEF lootVars, Loot!vars, Loot!opVars, Loot!reviewVars, Loot!recipeVars
<1> QED
  BY DEF Next, PlayPagesNext, ClientPagesNext, DataPagesNext, AppPagesNext, vars, playPagesVars,
         clientPagesVars, dataPagesVars, appPagesVars

LEMMA SkinsStep == [Next]_vars => [Skins!Next]_(Skins!vars)
<1> SUFFICES ASSUME [Next]_vars PROVE Skins!Next \/ UNCHANGED <<page, skinsVars>>
  BY DEF skinsVars, Skins!vars
<1> QED
  BY DEF Next, PlayPagesNext, ClientPagesNext, DataPagesNext, AppPagesNext, vars, playPagesVars,
         clientPagesVars, dataPagesVars, appPagesVars

LEMMA ProgressStep == [Next]_vars => [Progress!Next]_(Progress!vars)
<1> SUFFICES ASSUME [Next]_vars PROVE Progress!Next \/ UNCHANGED <<page, progressVars>>
  BY DEF progressVars, Progress!vars, Progress!leagueVars, Progress!shownVars,
         Progress!loadVars, Progress!choiceVars, Progress!masteryVars
<1> QED
  BY DEF Next, PlayPagesNext, ClientPagesNext, DataPagesNext, AppPagesNext, vars, playPagesVars,
         clientPagesVars, dataPagesVars, appPagesVars

LEMMA CacheStep == [Next]_vars => [Cache!Next]_(Cache!vars)
<1> SUFFICES ASSUME [Next]_vars PROVE Cache!Next \/ UNCHANGED <<page, cacheVars>>
  BY DEF cacheVars, Cache!vars, Cache!kept
<1> QED
  BY DEF Next, PlayPagesNext, ClientPagesNext, DataPagesNext, AppPagesNext, vars, playPagesVars,
         clientPagesVars, dataPagesVars, appPagesVars

-----------------------------------------------------------------------------
(* The interface.                                                          *)

(* Every page keeps its invariant, whichever page is on show.              *)
CoreInv ==
  /\ PlayInv /\ PickerInv /\ RunesInv /\ RunesPages /\ DraftInv /\ LiveInv
  /\ RoomInv /\ RoomEvents /\ QoLInv /\ SocialInv /\ PrepInv /\ ProfileInv
  /\ ShellInv /\ PrefsInv /\ SystemInv /\ AccountsInv /\ BackupsInv

PagesInv ==
  /\ CoreInv
  /\ HistoryInv /\ LootRecipes /\ LootInv /\ SkinsInv /\ SkinsLists
  /\ ProgressInv /\ ProgressLimit /\ CacheInv

LEMMA PagesInvInit == Init => PagesInv
<1> SUFFICES ASSUME Init PROVE PagesInv
  OBVIOUS
<1>1. CoreInv
  BY PlayInvInit, PickerInvInit, RunesInvInit, RunesPagesInit, DraftInvInit, LiveInvInit, RoomInvInit,
     RoomEventsInit, QoLInvInit, SocialInvInit, PrepInvInit, ProfileInvInit, ShellInvInit, PrefsInvInit,
     SystemInvInit, AccountsInvInit, BackupsInvInit DEF Init, CoreInit, CoreInv
<1>2. LootRecipes
  BY LootRecipesInit DEF Init
<1>3. /\ HistoryInv /\ LootInv /\ SkinsInv /\ SkinsLists /\ ProgressInv /\ ProgressLimit /\ CacheInv
  BY HistoryInvInit, LootInvInit, SkinsInvInit, SkinsListsInit, ProgressInvInit, ProgressLimitInit,
     CacheInvInit DEF Init
<1> QED BY <1>1, <1>2, <1>3 DEF PagesInv

LEMMA PagesInvNext == PagesInv /\ [Next]_vars => PagesInv'
<1> SUFFICES ASSUME PagesInv, [Next]_vars PROVE PagesInv'
  OBVIOUS
<1>1. PlayInv'
  BY PlayStep, PlayInvNext DEF PagesInv, CoreInv
<1>2. PickerInv'
  BY PickerStep, PickerInvNext DEF PagesInv, CoreInv
<1>3. RunesInv'
  BY RunesStep, RunesInvNext DEF PagesInv, CoreInv
<1>4. DraftInv'
  BY DraftStep, DraftInvNext DEF PagesInv, CoreInv
<1>5. LiveInv'
  BY LiveStep, LiveInvNext DEF PagesInv, CoreInv
<1>6. ShellInv'
  BY ShellStep, ShellInvNext DEF PagesInv, CoreInv
<1>7. PrefsInv'
  BY PrefsStep, PrefsInvNext DEF PagesInv, CoreInv
<1>8. SystemInv'
  BY SystemStep, SystemInvNext DEF PagesInv, CoreInv
<1>9. AccountsInv'
  BY AccountsStep, AccountsInvNext DEF PagesInv, CoreInv
<1>10. BackupsInv'
  BY BackupsStep, BackupsInvNext DEF PagesInv, CoreInv
<1>11. LootInv'
  BY LootStep, LootInvNext DEF PagesInv, CoreInv
<1>12. SkinsInv'
  BY SkinsStep, SkinsInvNext DEF PagesInv, CoreInv
<1>13. SocialInv'
  BY SocialStep, SocialInvNext DEF PagesInv, CoreInv
<1>14. PrepInv'
  BY PrepStep, PrepInvNext DEF PagesInv, CoreInv
<1>15. ProfileInv'
  BY ProfileStep, ProfileInvNext DEF PagesInv, CoreInv
<1>16. ProgressInv'
  BY ProgressStep, ProgressInvNext DEF PagesInv, CoreInv
<1>17. RoomInv'
  BY RoomStep, RoomInvNext DEF PagesInv, CoreInv
<1>18. QoLInv'
  BY QoLStep, QoLInvNext DEF PagesInv, CoreInv
<1>19. CacheInv'
  BY CacheStep, CacheInvNext DEF PagesInv, CoreInv
<1>20. LootRecipes'
  BY LootStep, LootRecipesNext DEF PagesInv, CoreInv
<1>21. RunesPages'
  BY RunesStep, RunesPagesNext DEF PagesInv, CoreInv
<1>22. RoomEvents'
  BY RoomStep, RoomEventsNext DEF PagesInv, CoreInv
<1>23. HistoryInv'
  BY HistoryStep, HistoryInvNext DEF PagesInv, CoreInv
<1>24. SkinsLists'
  BY SkinsStep, SkinsListsNext DEF PagesInv, CoreInv
<1>25. ProgressLimit'
  BY ProgressStep, ProgressLimitNext DEF PagesInv, CoreInv
<1> QED BY <1>1, <1>2, <1>3, <1>4, <1>5, <1>6, <1>7, <1>8, <1>9, <1>10, <1>11, <1>12, <1>13,
           <1>14, <1>15, <1>16, <1>17, <1>18, <1>19, <1>20, <1>21, <1>22, <1>23, <1>24, <1>25
        DEF PagesInv, CoreInv

LEMMA PagesKeep == Spec => []PagesInv
  BY PagesInvInit, PagesInvNext, PTL DEF Spec

(* What a page shows as saved is what RiftOps or League keeps, once        *)
(* nothing that may change it is on its way, whatever was refused, lost or *)
(* came late before: where two requests that overlapped or a lost answer   *)
(* left the page wrong, as the code does (PlayFlowPage.tsx, QoLPanel.tsx,  *)
(* App.tsx), from the step on with which the page recovers.                *)
THEOREM ShowsStored == Spec => []ShowsWhatIsStored
<1>1. PagesInv => ShowsWhatIsStored
  BY PlayShows, PrefsShows, QoLShows, RoomShows, SystemShows, SocialShows, PrepShows,
     ProfileShows, BackupsBelongs, ProgressShows, CacheShows
  DEF PagesInv, CoreInv, ShowsWhatIsStored
<1> QED BY <1>1, PagesKeep, PTL

(* A page has one action of a kind under way, and a phone starts none of   *)
(* the desktop's, for any number of buttons, polls and answers: except for *)
(* what begins where the code itself lets it (an operation lost from       *)
(* sight, a button freed by another's end, a launch from the palette), and *)
(* only until that has ended.                                              *)
THEOREM OneAction == Spec => []OneActionAtATime
<1>1. PagesInv => OneActionAtATime
  BY LootOneShown, PlayShows, LiveOne, ShellOne, AccountsShows, ProgressShows
  DEF PagesInv, CoreInv, OneActionAtATime
<1> QED BY <1>1, PagesKeep, PTL

(* What is kept, offered or sent belongs to the account, champion, draft,  *)
(* profile or name it is shown for, also when that has changed since it    *)
(* was asked for.                                                          *)
THEOREM BelongsToShown == Spec => []BelongsToWhatIsShown
<1>1. PagesInv => BelongsToWhatIsShown
  BY SkinsBelong, PrepBelongs, AccountsShows, ProfileBelongs, DraftBelongs, BackupsBelongs,
     RunesBelongs, RoomKeepsEdit
  DEF PagesInv, CoreInv, BelongsToWhatIsShown
<1> QED BY <1>1, PagesKeep, PTL

(* What a page works out from the lists it was given is what they say: the *)
(* arrow keys follow the menu, a rune page is sent as League takes it, the *)
(* games have no gap and their streak is the run at their head, a skin is  *)
(* owned as it was read and found under its filter, the masteries closest  *)
(* to a level come first, and a phase is listed once.                      *)
THEOREM ListsRight == Spec => []ListsAreRight
<1>1. PagesInv => ListsAreRight
  BY PickerFollows, RunesSendsLegal, HistoryNoGap, HistoryStreakIs, SkinsOwned, SkinsFilters,
     ProgressClosest, RoomListsOnce
  DEF PagesInv, CoreInv, ListsAreRight
<1> QED BY <1>1, PagesKeep, PTL

(* A step takes what the page showed when the user acted and changes       *)
(* nothing beside it: of the requests in flight none empties, starts,      *)
(* takes, replaces or saves what another was asked for.                    *)
THEOREM StepsKeepToShown == Spec => StepsKeepToWhatIsShown
<1>1. PagesInv /\ [Next]_vars =>
      [\A o \in Operations :
           call.op = o /\ batch # {} /\ batch' = {} /\ call' = Loot!NoCall
             => plan[o] \subseteq applied[o]]_(Loot!vars)
  BY LootStep, LootEmptied DEF PagesInv, CoreInv
<1>2. PagesInv /\ [Next]_vars =>
      [\A l \in Social!Lists : socialReview.at = "running" /\ socialSelected'[l] # socialSelected[l] =>
           socialReview.list = l /\ socialReview.done = socialReview.ids]_(Social!vars)
  BY SocialStep, SocialEmpties DEF PagesInv, CoreInv
<1>3. PagesInv /\ [Next]_vars =>
      [\A i \in Handlers :
           starts[i].at = "start" /\ starts[i].auto /\ starts[i].clean /\ Play!StartSent(i)
             => playStored = prefs]_(Play!vars)
  BY PlayStep, PlayStartsShown DEF PagesInv, CoreInv
<1>4. PagesInv /\ [Next]_vars =>
      [Picker!Enter => chosen' \in offered]_(Picker!vars)
  BY PickerStep, PickerTakes DEF PagesInv, CoreInv
<1>5. PagesInv /\ [Next]_vars =>
      [overview'.n >= overview.n]_(Live!vars)
  BY LiveStep, LiveForward DEF PagesInv, CoreInv
<1>6. PagesInv /\ [Next]_vars =>
      [Live!isActiveLivePhase(livePhase) /\ ~Live!isActiveLivePhase(livePhase')
           => ~stale' /\ overview'.is \in {"client", "Lobby"}]_(Live!vars)
  BY LiveStep, LivePhaseKept DEF PagesInv, CoreInv
<1>7. PagesInv /\ [Next]_vars =>
      [\A s \in prefsSaves :
           ~prefsCrossed /\ Prefs!SaveArrives(s) =>
             \A n \in Names \ s.of : prefsStored'[n] = prefsStored[n]]_(Prefs!vars)
  BY PrefsStep, PrefsKeeps DEF PagesInv, CoreInv
<1>8. PagesInv /\ [Next]_vars =>
      [ruleSave # QoL!No /\ ~qolCrossed /\ late' = late =>
           rulesStored' \in {rulesStored, [rulesStored EXCEPT !.rules[ruleSave.rule] =
                                             rulesStored'.rules[ruleSave.rule]]}]_(QoL!vars)
  BY QoLStep, QoLKeepsRules DEF PagesInv, CoreInv
<1>9. PagesInv /\ [Next]_vars =>
      [sets' # sets /\ prepCall.op = "rollback" /\ ~setsCrossed => sets' = setsBefore]_(Prep!vars)
  BY PrepStep, PrepUndoes DEF PagesInv, CoreInv
<1>10. PagesInv /\ [Next]_vars =>
      [\A id \in DOMAIN logins' :
           (id \in DOMAIN logins => logins[id] # logins'[id]) => accountsStored'[id] = logins'[id]]_(Accounts!vars)
  BY AccountsStep, AccountsLogins DEF PagesInv, CoreInv
<1>11. PagesInv /\ [Next]_vars =>
      [favs' # favs => \E s \in SkinIds :
           (favs' \cap Skins!Aliases(s) # {}) = ~Skins!isSkinFavorite(s)]_(Skins!vars)
  BY SkinsStep, SkinsHeart DEF PagesInv, CoreInv
<1>12. PagesInv /\ [Next]_vars =>
      [qolTyped /\ qolState' # qolState => statusMessage' = statusMessage]_(QoL!vars)
  BY QoLStep, QoLKeepsText DEF PagesInv, CoreInv
<1>21. Spec => Loot!EmptiedWhenCrafted
  BY <1>1, PagesKeep, PTL DEF Spec, Loot!EmptiedWhenCrafted
<1>22. Spec => Social!EmptiedWhenTreated
  BY <1>2, PagesKeep, PTL DEF Spec, Social!EmptiedWhenTreated
<1>23. Spec => Play!StartsWithShown
  BY <1>3, PagesKeep, PTL DEF Spec, Play!StartsWithShown
<1>24. Spec => Picker!TakesWhatWasOffered
  BY <1>4, PagesKeep, PTL DEF Spec, Picker!TakesWhatWasOffered
<1>25. Spec => Live!NeverBack
  BY <1>5, PagesKeep, PTL DEF Spec, Live!NeverBack
<1>26. Spec => Live!KeepsThePhase
  BY <1>6, PagesKeep, PTL DEF Spec, Live!KeepsThePhase
<1>27. Spec => Prefs!KeepsOthers
  BY <1>7, PagesKeep, PTL DEF Spec, Prefs!KeepsOthers
<1>28. Spec => QoL!KeepsOtherRules
  BY <1>8, PagesKeep, PTL DEF Spec, QoL!KeepsOtherRules
<1>29. Spec => Prep!RollbackUndoes
  BY <1>9, PagesKeep, PTL DEF Spec, Prep!RollbackUndoes
<1>30. Spec => Accounts!LoginOfItsAccount
  BY <1>10, PagesKeep, PTL DEF Spec, Accounts!LoginOfItsAccount
<1>31. Spec => Skins!HeartFlips
  BY <1>11, PagesKeep, PTL DEF Spec, Skins!HeartFlips
<1>32. Spec => QoL!TypedStays
  BY <1>12, PagesKeep, PTL DEF Spec, QoL!TypedStays
<1> QED BY <1>21, <1>22, <1>23, <1>24, <1>25, <1>26, <1>27, <1>28, <1>29, <1>30, <1>31, <1>32
  DEF StepsKeepToWhatIsShown

(* The recipes on show are those of the selected material, or none are     *)
(* shown, although the answers come in any order and a finished craft      *)
(* reads them once more without asking whether they are still wanted       *)
(* (LootDashboard.tsx, runCraft): the list is disabled during a craft.     *)
THEOREM ShowsRecipesOfSelection == Spec => RecipesOfSelection
<1>1. Init => Loot!Recipes!Init
  BY LootRecipesInit DEF Init
<1>2. PagesInv /\ [Next]_vars => [Loot!Recipes!Next]_(Loot!Recipes!vars)
  BY LootStep, LootRecipesNext DEF PagesInv, CoreInv
<1> QED
  BY <1>1, <1>2, PagesKeep, PTL DEF Spec, RecipesOfSelection, Loot!RecipesOfSelection, Loot!Recipes!Spec

=============================================================================
