---------------------------- MODULE AdminUIProofs ----------------------------
(***************************************************************************)
(* The history of the admin UI, for every set of names and fields and      *)
(* however long it is: what undo, redo and edits do to its states, what an *)
(* edit makes of a configuration, and what the recorded changes say.       *)
(***************************************************************************)
EXTENDS AdminUI, SequenceTheorems, TLAPS

-----------------------------------------------------------------------------
(***************************************************************************)
(* Sequences.                                                              *)
(***************************************************************************)

\* A function on the first k numbers is a sequence of length k.
LEMMA FunctionIsSeq ==
  ASSUME NEW S, NEW k \in Nat, NEW f \in [1..k -> S]
  PROVE  f \in Seq(S) /\ Len(f) = k
<1> DEFINE g == SubSeq(f, 1, k)
<1>1. \A i \in 1..k : f[i] \in S
  OBVIOUS
<1>2. /\ g \in Seq(S)
      /\ Len(g) = k
      /\ \A i \in 1..k : g[i] = f[i]
  BY <1>1, SubSeqProperties
<1>3. g \in [1..k -> S]
  BY <1>2, LenProperties
<1>4. f = g
  BY <1>2, <1>3
<1> QED
  BY <1>2, <1>4

\* What putting an element in front of a sequence does.
LEMMA Prepended ==
  ASSUME NEW S, NEW e \in S, NEW s \in Seq(S)
  PROVE  /\ <<e>> \o s \in Seq(S)
         /\ Len(<<e>> \o s) = Len(s) + 1
         /\ (<<e>> \o s)[1] = e
         /\ \A i \in 2..(Len(s) + 1) : (<<e>> \o s)[i] = s[i - 1]
<1>1. <<e>> \in Seq(S) /\ Len(<<e>>) = 1 /\ <<e>>[1] = e
  OBVIOUS
<1> QED
  BY <1>1, ConcatProperties

\* A sequence that ends in an element is told by the rest and that element.
LEMMA LastTold ==
  ASSUME NEW S, NEW s \in Seq(S), NEW t \in Seq(S), NEW u \in S, NEW v \in S,
         s \o <<u>> = t \o <<v>>
  PROVE  s = t /\ u = v
<1>1. ASSUME NEW r \in Seq(S), NEW w \in S
      PROVE  /\ Len(r \o <<w>>) = Len(r) + 1
             /\ (r \o <<w>>)[Len(r) + 1] = w
             /\ \A i \in 1..Len(r) : (r \o <<w>>)[i] = r[i]
  <2>1. <<w>> \in Seq(S) /\ Len(<<w>>) = 1 /\ <<w>>[1] = w
    OBVIOUS
  <2>2. PICK y : y = <<w>>
    OBVIOUS
  <2>3. y \in Seq(S) /\ Len(y) = 1 /\ y[1] = w
    BY <2>1, <2>2
  <2>4. /\ Len(r \o y) = Len(r) + Len(y)
        /\ \A i \in 1..(Len(r) + Len(y)) :
             (r \o y)[i] = IF i <= Len(r) THEN r[i] ELSE y[i - Len(r)]
    BY <2>3, ConcatProperties
  <2>5. Len(r) \in Nat
    OBVIOUS
  <2>6. (r \o y)[Len(r) + 1] = y[Len(r) + 1 - Len(r)] /\ Len(r) + 1 - Len(r) = 1
    BY <2>3, <2>4, <2>5
  <2> QED
    BY <2>2, <2>3, <2>4, <2>5, <2>6
<1>2. PICK x : x = s \o <<u>> /\ x = t \o <<v>>
  OBVIOUS
<1>3. /\ Len(x) = Len(s) + 1 /\ x[Len(s) + 1] = u
      /\ \A i \in 1..Len(s) : x[i] = s[i]
  BY <1>1, <1>2
<1>4. /\ Len(x) = Len(t) + 1 /\ x[Len(t) + 1] = v
      /\ \A i \in 1..Len(t) : x[i] = t[i]
  BY <1>1, <1>2
<1>5. Len(s) \in Nat /\ Len(t) \in Nat
  OBVIOUS
<1>6. Len(s) = Len(t)
  BY <1>3, <1>4, <1>5
<1>7. s = t
  BY <1>3, <1>4, <1>6, SeqEqual
<1> QED
  BY <1>3, <1>4, <1>6, <1>7

-----------------------------------------------------------------------------
(***************************************************************************)
(* The history, whatever is in it.                                         *)
(***************************************************************************)

\* The timeline of a history has a state per entry and the present one.
LEMMA TimelineIsSeq ==
  ASSUME NEW h \in History
  PROVE  /\ TimelineOf(h) \in Seq(Items)
         /\ Len(TimelineOf(h)) = Len(h.past) + 1 + Len(h.future)
<1> DEFINE n == Len(h.past)
           m == Len(h.future)
           t == TimelineOf(h)
<1>1. /\ n \in Nat /\ m \in Nat
      /\ h.items \in Items
      /\ \A i \in 1..n : h.past[i].items \in Items
      /\ \A i \in 1..m : h.future[i].items \in Items
  <2>1. h.past \in Seq(HistoryEntry) /\ h.future \in Seq(HistoryEntry)
    BY DEF History
  <2>2. /\ n \in Nat /\ m \in Nat
        /\ \A i \in 1..n : h.past[i] \in HistoryEntry
        /\ \A i \in 1..m : h.future[i] \in HistoryEntry
    BY <2>1
  <2>3. \A x \in HistoryEntry : x.items \in Items
    BY DEF HistoryEntry
  <2>4. h.items \in Items
    BY DEF History
  <2> QED
    BY <2>2, <2>3, <2>4
<1>2. t = [i \in 1..(n + 1 + m) |->
             IF i <= n THEN h.past[n + 1 - i].items
             ELSE IF i = n + 1 THEN h.items
             ELSE h.future[n + m + 2 - i].items]
  BY DEF TimelineOf
<1> HIDE DEF n, m, t
<1>3. ASSUME NEW i \in 1..(n + 1 + m) PROVE t[i] \in Items
  <2>1. CASE i <= n
    <3>1. n + 1 - i \in 1..n
      BY <1>1, <2>1
    <3> QED
      BY <1>1, <1>2, <2>1, <3>1
  <2>2. CASE i = n + 1
    BY <1>1, <1>2, <2>2
  <2>3. CASE i > n + 1
    <3>1. n + m + 2 - i \in 1..m
      BY <1>1, <2>3
    <3> QED
      BY <1>1, <1>2, <2>3, <3>1
  <2> QED
    BY <1>1, <2>1, <2>2, <2>3
<1>4. t \in [1..(n + 1 + m) -> Items]
  BY <1>2, <1>3
<1>5. n + 1 + m \in Nat
  BY <1>1
<1>6. t \in Seq(Items) /\ Len(t) = n + 1 + m
  BY <1>4, <1>5, FunctionIsSeq
<1> QED
  BY <1>6 DEF n, m, t

\* Undoing moves back in the timeline and leaves it as it is: what onUndo
\* takes from the front of the past it puts at the end of the future.
THEOREM UndoMoves ==
  ASSUME NEW h \in History, h.past # <<>>
  PROVE  /\ onUndo(h) \in History
         /\ TimelineOf(onUndo(h)) = TimelineOf(h)
         /\ Len(onUndo(h).past) = Len(h.past) - 1
<1> DEFINE n == Len(h.past)
           m == Len(h.future)
           last == Head(h.past)
           e == Entry(h, last.change)
           p == Tail(h.past)
           f == Append(h.future, e)
           u == onUndo(h)
<1>1. /\ n \in Nat \ {0} /\ m \in Nat
      /\ last \in HistoryEntry /\ last = h.past[1]
      /\ p \in Seq(HistoryEntry) /\ Len(p) = n - 1
      /\ \A i \in 1..(n - 1) : p[i] = h.past[i + 1]
  BY DEF History
<1>2. e \in HistoryEntry /\ e.items = h.items
  BY <1>1 DEF Entry, History, HistoryEntry
<1>3. /\ f \in Seq(HistoryEntry)
      /\ Len(f) = m + 1
      /\ f[m + 1] = e
      /\ \A i \in 1..m : f[i] = h.future[i]
  BY <1>2 DEF History
<1>4. u = [items |-> last.items, version |-> last.version,
           past |-> p, future |-> f]
  BY DEF onUndo
<1>5. u \in History
  BY <1>1, <1>3, <1>4 DEF History, HistoryEntry
<1>6. TimelineOf(u) = TimelineOf(h)
  <2> HIDE DEF n, m, last, e, p, f, u
  <2>1. TimelineOf(h) =
          [i \in 1..(n + 1 + m) |->
             IF i <= n THEN h.past[n + 1 - i].items
             ELSE IF i = n + 1 THEN h.items
             ELSE h.future[n + m + 2 - i].items]
    BY DEF TimelineOf, n, m
  <2>2. TimelineOf(u) =
          [i \in 1..((n - 1) + 1 + (m + 1)) |->
             IF i <= n - 1 THEN p[(n - 1) + 1 - i].items
             ELSE IF i = (n - 1) + 1 THEN last.items
             ELSE f[(n - 1) + (m + 1) + 2 - i].items]
    BY <1>1, <1>3, <1>4 DEF TimelineOf
  <2>3. (n - 1) + 1 + (m + 1) = n + 1 + m
    BY <1>1
  <2>4. ASSUME NEW i \in 1..(n + 1 + m)
        PROVE  TimelineOf(u)[i] = TimelineOf(h)[i]
    <3>1. CASE i <= n - 1
      <4>1. p[(n - 1) + 1 - i] = h.past[n + 1 - i]
        BY <1>1, <3>1
      <4> QED
        <5>1. TimelineOf(h)[i] = h.past[n + 1 - i].items
          BY <1>1, <2>1, <3>1
        <5>2. TimelineOf(u)[i] = p[(n - 1) + 1 - i].items
          BY <1>1, <2>2, <2>3, <3>1
        <5> QED
          BY <4>1, <5>1, <5>2
    <3>2. CASE i = n
      BY <1>1, <2>1, <2>2, <2>3, <3>2
    <3>3. CASE i = n + 1
      BY <1>1, <1>2, <1>3, <2>1, <2>2, <2>3, <3>3
    <3>4. CASE i > n + 1
      <4>1. f[(n - 1) + (m + 1) + 2 - i] = h.future[n + m + 2 - i]
        <5>1. /\ (n - 1) + (m + 1) + 2 - i = n + m + 2 - i
              /\ n + m + 2 - i \in 1..m
          BY <1>1, <3>4
        <5> QED
          BY <1>3, <5>1
      <4> QED
        BY <1>1, <2>1, <2>2, <2>3, <3>4, <4>1
    <3> QED
      BY <1>1, <3>1, <3>2, <3>3, <3>4
  <2>5. /\ TimelineOf(u) = [i \in 1..(n + 1 + m) |-> TimelineOf(u)[i]]
        /\ TimelineOf(h) = [i \in 1..(n + 1 + m) |-> TimelineOf(h)[i]]
    <3>1. DOMAIN TimelineOf(u) = 1..(n + 1 + m)
      BY <2>2, <2>3
    <3>2. DOMAIN TimelineOf(h) = 1..(n + 1 + m)
      BY <2>1
    <3> QED
      BY ONLY <2>1, <2>2, <3>1, <3>2
  <2> QED
    BY ONLY <2>4, <2>5
<1> QED
  BY <1>1, <1>4, <1>5, <1>6

\* Redoing moves forward in the timeline and leaves it as it is: what onRedo
\* takes from the end of the future it puts in front of the past.
THEOREM RedoMoves ==
  ASSUME NEW h \in History, h.future # <<>>
  PROVE  /\ onRedo(h) \in History
         /\ TimelineOf(onRedo(h)) = TimelineOf(h)
         /\ Len(onRedo(h).past) = Len(h.past) + 1
<1> DEFINE n == Len(h.past)
           m == Len(h.future)
           next == h.future[m]
           e == Entry(h, next.change)
           p == <<e>> \o h.past
           f == SubSeq(h.future, 1, m - 1)
           u == onRedo(h)
<1>1. /\ n \in Nat /\ m \in Nat \ {0}
      /\ h.past \in Seq(HistoryEntry) /\ h.future \in Seq(HistoryEntry)
      /\ next \in HistoryEntry
  BY DEF History
<1>2. e \in HistoryEntry /\ e.items = h.items
  BY <1>1 DEF Entry, History, HistoryEntry
<1>3. /\ p \in Seq(HistoryEntry)
      /\ Len(p) = n + 1
      /\ p[1] = e
      /\ \A i \in 2..(n + 1) : p[i] = h.past[i - 1]
  BY <1>1, <1>2, Prepended
<1>4. /\ f \in Seq(HistoryEntry)
      /\ Len(f) = m - 1
      /\ \A i \in 1..(m - 1) : f[i] = h.future[i]
  <2>1. /\ 1 \in Nat /\ m - 1 \in Nat
        /\ \A i \in 1..(m - 1) : h.future[i] \in HistoryEntry
    BY <1>1
  <2> QED
    BY <1>1, <2>1
<1>5. u = [items |-> next.items, version |-> next.version,
           past |-> p, future |-> f]
  BY DEF onRedo
<1>6. u \in History
  BY <1>1, <1>3, <1>4, <1>5 DEF History, HistoryEntry
<1>7. TimelineOf(u) = TimelineOf(h)
  <2> HIDE DEF n, m, next, e, p, f, u
  <2>1. TimelineOf(h) =
          [i \in 1..(n + 1 + m) |->
             IF i <= n THEN h.past[n + 1 - i].items
             ELSE IF i = n + 1 THEN h.items
             ELSE h.future[n + m + 2 - i].items]
    BY DEF TimelineOf, n, m
  <2>2. TimelineOf(u) =
          [i \in 1..((n + 1) + 1 + (m - 1)) |->
             IF i <= n + 1 THEN p[(n + 1) + 1 - i].items
             ELSE IF i = (n + 1) + 1 THEN next.items
             ELSE f[(n + 1) + (m - 1) + 2 - i].items]
    BY <1>3, <1>4, <1>5 DEF TimelineOf
  <2>3. (n + 1) + 1 + (m - 1) = n + 1 + m
    BY <1>1
  <2>4. ASSUME NEW i \in 1..(n + 1 + m)
        PROVE  TimelineOf(u)[i] = TimelineOf(h)[i]
    <3>1. CASE i <= n
      <4>1. p[(n + 1) + 1 - i] = h.past[n + 1 - i]
        <5>1. /\ (n + 1) + 1 - i \in 2..(n + 1)
              /\ ((n + 1) + 1 - i) - 1 = n + 1 - i
          BY <1>1, <3>1
        <5> QED
          BY <1>3, <5>1
      <4> QED
        <5>1. TimelineOf(h)[i] = h.past[n + 1 - i].items
          BY <1>1, <2>1, <3>1
        <5>2. TimelineOf(u)[i] = p[(n + 1) + 1 - i].items
          BY <1>1, <2>2, <2>3, <3>1
        <5> QED
          BY <4>1, <5>1, <5>2
    <3>2. CASE i = n + 1
      BY <1>1, <1>2, <1>3, <2>1, <2>2, <2>3, <3>2
    <3>3. CASE i = n + 2
      <4>1. n + m + 2 - i = m /\ i \in 1..(n + 1 + m)
        BY <1>1, <3>3
      <4>2. TimelineOf(h)[i] = next.items
        BY <1>1, <2>1, <3>3, <4>1 DEF next
      <4>3. TimelineOf(u)[i] = next.items
        BY <1>1, <2>2, <2>3, <3>3, <4>1
      <4> QED
        BY <4>2, <4>3
    <3>4. CASE i > n + 2
      <4>1. f[(n + 1) + (m - 1) + 2 - i] = h.future[n + m + 2 - i]
        <5>1. /\ (n + 1) + (m - 1) + 2 - i = n + m + 2 - i
              /\ n + m + 2 - i \in 1..(m - 1)
          BY <1>1, <3>4
        <5> QED
          BY <1>4, <5>1
      <4> QED
        BY <1>1, <2>1, <2>2, <2>3, <3>4, <4>1
    <3> QED
      BY <1>1, <3>1, <3>2, <3>3, <3>4
  <2>5. /\ TimelineOf(u) = [i \in 1..(n + 1 + m) |-> TimelineOf(u)[i]]
        /\ TimelineOf(h) = [i \in 1..(n + 1 + m) |-> TimelineOf(h)[i]]
    <3>1. DOMAIN TimelineOf(u) = 1..(n + 1 + m)
      BY <2>2, <2>3
    <3>2. DOMAIN TimelineOf(h) = 1..(n + 1 + m)
      BY <2>1
    <3> QED
      BY ONLY <2>1, <2>2, <3>1, <3>2
  <2> QED
    BY ONLY <2>4, <2>5
<1> QED
  BY <1>1, <1>3, <1>5, <1>6, <1>7

\* An edit forgets what could be redone and puts its result where the history
\* is, or, when changesMergeable merges it, in place of the edit before it;
\* the states before that stay.
THEOREM EditPuts ==
  ASSUME NEW h \in History, NEW items \in Items, NEW change \in Change
  PROVE  LET u == [items |-> items, version |-> h.version,
                   past |-> Recorded(h, change), future |-> <<>>]
             k == Len(h.past) + (IF Merges(h, change) THEN 0 ELSE 1)
         IN /\ u \in History
            /\ Len(u.past) = k
            /\ Len(TimelineOf(u)) = k + 1
            /\ TimelineOf(u)[k + 1] = items
            /\ \A i \in 1..k : TimelineOf(u)[i] = TimelineOf(h)[i]
<1> DEFINE n == Len(h.past)
           m == Len(h.future)
           p == Recorded(h, change)
           k == n + (IF Merges(h, change) THEN 0 ELSE 1)
           u == [items |-> items, version |-> h.version,
                 past |-> p, future |-> <<>>]
           State(i) == IF i <= n THEN h.past[n + 1 - i].items ELSE h.items
<1>1. /\ n \in Nat /\ m \in Nat
      /\ h.past \in Seq(HistoryEntry)
  BY DEF History
<1>2. /\ k \in Nat /\ k <= n + 1
      /\ p \in Seq(HistoryEntry)
      /\ Len(p) = k
      /\ \A i \in 1..k : p[k + 1 - i].items = State(i)
  <2>1. CASE Merges(h, change)
    <3> DEFINE old == Head(h.past)
               e == Entry(old, change)
               t == Tail(h.past)
    <3>1. n > 0 /\ k = n
      BY <1>1, <2>1 DEF Merges
    <3>2. /\ old \in HistoryEntry /\ old = h.past[1]
          /\ t \in Seq(HistoryEntry) /\ Len(t) = n - 1
          /\ \A i \in 1..(n - 1) : t[i] = h.past[i + 1]
      BY <1>1, <3>1
    <3>3. e \in HistoryEntry /\ e.items = h.past[1].items
      BY <3>2 DEF Entry, HistoryEntry
    <3>4. p = <<e>> \o t
      BY <2>1 DEF Recorded
    <3>5. /\ p \in Seq(HistoryEntry) /\ Len(p) = n /\ p[1] = e
          /\ \A i \in 2..n : p[i] = t[i - 1]
      <4> HIDE DEF e, t, p
      <4>1. Len(t) + 1 = n
        BY <1>1, <3>2
      <4> QED
        BY <3>2, <3>3, <3>4, <4>1, Prepended
    <3>6. ASSUME NEW i \in 1..n PROVE p[n + 1 - i].items = State(i)
      <4> HIDE DEF e, t, p, old
      <4>1. CASE i = n
        BY <1>1, <3>1, <3>3, <3>5, <4>1
      <4>2. CASE i < n
        <5>1. /\ n + 1 - i \in 2..n /\ (n + 1 - i) - 1 \in 1..(n - 1)
              /\ ((n + 1 - i) - 1) + 1 = n + 1 - i
          BY <1>1, <4>2
        <5>2. p[n + 1 - i] = h.past[n + 1 - i]
          BY <3>2, <3>5, <5>1
        <5> QED
          BY <1>1, <5>2
      <4> QED
        BY <1>1, <4>1, <4>2
    <3> HIDE DEF p, k, State
    <3>7. k \in Nat /\ k <= n + 1 /\ Len(p) = k
      BY <1>1, <3>1, <3>5
    <3>8. \A i \in 1..k : p[k + 1 - i].items = State(i)
      BY ONLY <3>1, <3>6
    <3> QED
      BY <3>5, <3>7, <3>8
  <2>2. CASE ~Merges(h, change)
    <3> DEFINE e == Entry(h, change)
    <3>1. k = n + 1
      BY <2>2
    <3>2. e \in HistoryEntry /\ e.items = h.items
      BY DEF Entry, History, HistoryEntry
    <3>3. p = <<e>> \o h.past
      BY <2>2 DEF Recorded
    <3>4. /\ p \in Seq(HistoryEntry) /\ Len(p) = n + 1 /\ p[1] = e
          /\ \A i \in 2..(n + 1) : p[i] = h.past[i - 1]
      <4> HIDE DEF e, p
      <4> QED
        BY <1>1, <3>2, <3>3, Prepended
    <3>5. ASSUME NEW i \in 1..(n + 1) PROVE p[(n + 1) + 1 - i].items = State(i)
      <4> HIDE DEF e, p
      <4>1. CASE i = n + 1
        BY <1>1, <3>2, <3>4, <4>1
      <4>2. CASE i <= n
        <5>1. /\ (n + 1) + 1 - i \in 2..(n + 1)
              /\ ((n + 1) + 1 - i) - 1 = n + 1 - i
          BY <1>1, <4>2
        <5>2. p[(n + 1) + 1 - i] = h.past[n + 1 - i]
          BY <3>4, <5>1
        <5> QED
          BY <4>2, <5>2
      <4> QED
        BY <1>1, <4>1, <4>2
    <3> HIDE DEF p, k, State
    <3>6. k \in Nat /\ k <= n + 1 /\ Len(p) = k
      BY <1>1, <3>1, <3>4
    <3>7. \A i \in 1..k : p[k + 1 - i].items = State(i)
      BY ONLY <3>1, <3>5
    <3> QED
      BY <3>4, <3>6, <3>7
  <2> QED
    BY <2>1, <2>2
<1>3. u \in History
  BY <1>2 DEF History
<1>4. /\ Len(TimelineOf(u)) = k + 1
      /\ TimelineOf(u) =
           [i \in 1..(k + 1) |->
              IF i <= k THEN p[k + 1 - i].items ELSE items]
  <2> HIDE DEF p, k
  <2>1. u.past = p /\ u.future = <<>> /\ u.items = items /\ Len(<<>>) = 0
    OBVIOUS
  <2>2. Len(TimelineOf(u)) = k + 1
    <3>1. Len(TimelineOf(u)) = Len(u.past) + 1 + Len(u.future)
      BY <1>3, TimelineIsSeq
    <3> QED
      BY <1>2, <2>1, <3>1
  <2>3. TimelineOf(u) =
          [i \in 1..(k + 1 + 0) |->
             IF i <= k THEN p[k + 1 - i].items
             ELSE IF i = k + 1 THEN items
             ELSE <<>>[k + 0 + 2 - i].items]
    BY <1>2, <2>1 DEF TimelineOf
  <2> HIDE DEF u
  <2>4. k + 1 + 0 = k + 1 /\ \A i \in 1..(k + 1) : i <= k \/ i = k + 1
    BY <1>2
  <2> QED
    BY <1>2, <2>2, <2>3, <2>4
<1>5. \A i \in 1..k : TimelineOf(h)[i] = State(i)
  <2> HIDE DEF p, k
  <2> QED
    <3>1. SUFFICES ASSUME NEW i \in 1..k PROVE TimelineOf(h)[i] = State(i)
      OBVIOUS
    <3>2. i \in 1..(n + 1 + m) /\ (i <= n \/ i = n + 1)
      <4> HIDE DEF n, m, State
      <4>1. k \in Nat /\ k <= n + 1
        BY <1>2
      <4> QED
        BY <1>1, <4>1
    <3> QED
      BY <1>1, <3>2 DEF TimelineOf
<1> HIDE DEF p, k, u, State
<1>6. TimelineOf(u)[k + 1] = items
  BY <1>2, <1>4
<1>7. \A i \in 1..k : TimelineOf(u)[i] = TimelineOf(h)[i]
  BY <1>2, <1>4, <1>5
<1> QED
  BY <1>2, <1>3, <1>4, <1>6, <1>7 DEF p, k, u

-----------------------------------------------------------------------------
(***************************************************************************)
(* Edits.                                                                  *)
(***************************************************************************)

\* Where a bucket is kept and under which key its changes are recorded.
LEMMA BucketTypes ==
  ASSUME NEW b \in Buckets
  PROVE  BucketPath(b) \in BucketPaths /\ BucketKey(b) \in Seq(Parts)
<1>1. BucketPath(b) \in BucketPaths
  BY DEF BucketPaths
<1>2. BucketKey(b) \in Seq(Parts)
  <2>1. CASE b \in DOMAIN BUCKET_KEY_MAP
    <3>1. BUCKET_KEY_MAP[b] \in {<<"default_bucket">>, <<"dynamic_bucket_template">>}
      BY <2>1 DEF BUCKET_KEY_MAP
    <3>2. /\ <<"default_bucket">> \in Seq(Parts)
          /\ <<"dynamic_bucket_template">> \in Seq(Parts)
      BY StoreAssumption
    <3> QED
      BY <2>1, <3>1, <3>2 DEF BucketKey
  <2>2. CASE b \notin DOMAIN BUCKET_KEY_MAP
    BY <2>2, StoreAssumption DEF BucketKey
  <2> QED
    BY <2>1, <2>2
<1> QED
  BY <1>1, <1>2

\* What is put where something is added.
LEMMA NewTypes ==
  /\ NewBucket \in BucketConfig
  /\ NewNamespace \in NamespaceConfig
  /\ NoItems \in Items
<1>1. Undefined \in Setting
  BY DEF Setting
<1> QED
  BY <1>1 DEF NewBucket, NewNamespace, NoItems, BucketConfig, NamespaceConfig, Items

\* Replacing the bucket at path p of namespace n.
LEMMA ReplaceBucket ==
  ASSUME NEW items \in Items, NEW n \in Namespaces, items[n] # Undefined,
         NEW p \in BucketPaths, NEW c \in BucketConfig \cup {Undefined}
  PROVE  [items EXCEPT ![n].buckets[p] = c] \in Items
<1>1. items[n] \in NamespaceConfig
  BY DEF Items
<1>2. [items[n].buckets EXCEPT ![p] = c] \in
        [BucketPaths -> BucketConfig \cup {Undefined}]
  BY <1>1 DEF NamespaceConfig
<1>3. [items[n] EXCEPT !.buckets[p] = c] \in NamespaceConfig
  BY <1>1, <1>2 DEF NamespaceConfig
<1> QED
  BY <1>3 DEF Items

\* The edits, by kind.
LEMMA EditKinds ==
  ASSUME NEW items, NEW a \in EditsOf(items)
  PROVE  \/ \E n \in Namespaces : a = addNamespace(n)
         \/ \E n \in Namespaces, v \in FieldInput :
              items[n] # Undefined /\ a = updateNamespace(n, v)
         \/ \E n \in Namespaces :
              /\ items[n] # Undefined
              /\ a = [type |-> "REMOVE_NAMESPACE", namespace |-> n]
         \/ \E n \in Namespaces, b \in Buckets :
              items[n] # Undefined /\ a = addBucket(n, b)
         \/ \E n \in Namespaces, b \in Buckets, f \in Fields, v \in FieldInput :
              HasBucket(items, n, b) /\ a = updateBucket(n, b, f, v)
         \/ \E n \in Namespaces, b \in Buckets :
              /\ HasBucket(items, n, b)
              /\ a = [type |-> "REMOVE_BUCKET", namespace |-> n, bucket |-> b]
<1> DEFINE Present == {n \in Namespaces : items[n] # Undefined}
<1>1. CASE a \in {addNamespace(n) : n \in Namespaces}
  BY <1>1
<1>2. CASE a \in {updateNamespace(n, v) : n \in Present, v \in FieldInput}
  BY <1>2
<1>3. CASE a \in {removeNamespace(n).action : n \in Present}
  BY <1>3 DEF removeNamespace, confirm
<1>4. CASE a \in {addBucket(n, b) : n \in Present, b \in Buckets}
  BY <1>4
<1>5. CASE /\ a \in {updateBucket(n, b, f, v) : n \in Present, b \in Buckets,
                                     f \in Fields, v \in FieldInput}
           /\ HasBucket(items, a.namespace, a.bucket)
  <2>1. PICK n \in Present, b \in Buckets, f \in Fields, v \in FieldInput :
          a = updateBucket(n, b, f, v)
    BY <1>5
  <2>2. a.namespace = n /\ a.bucket = b
    BY <2>1 DEF updateBucket
  <2> QED
    BY <1>5, <2>1, <2>2
<1>6. CASE /\ a \in {removeBucket(n, b).action : n \in Present, b \in Buckets}
           /\ HasBucket(items, a.namespace, a.bucket)
  <2>1. PICK n \in Present, b \in Buckets : a = removeBucket(n, b).action
    BY <1>6
  <2>2. /\ a = [type |-> "REMOVE_BUCKET", namespace |-> n, bucket |-> b]
        /\ a.namespace = n /\ a.bucket = b
    BY <2>1 DEF removeBucket, confirm
  <2> QED
    BY <1>6, <2>2
<1> QED
  BY <1>1, <1>2, <1>3, <1>4, <1>5, <1>6 DEF EditsOf

LEMMA ChangedTypes ==
  ASSUME NEW t \in MutableActions, NEW k \in Seq(Parts), NEW v \in Setting,
         NEW items \in Items
  PROVE  /\ Changed(t, k, v, items).items \in Items
         /\ Changed(t, k, v, items).change \in Change
BY DEF Changed, Change

\* An edit of a configuration gives a configuration and a change.
LEMMA EditTypes ==
  ASSUME NEW items \in Items, NEW a \in EditsOf(items)
  PROVE  /\ a.type \in MutableActions
         /\ Edited(items, a).items \in Items
         /\ Edited(items, a).change \in Change
<1> USE DEF MutableActions
<1>0. /\ FieldInput \subseteq Setting /\ Undefined \in Setting
      /\ Namespaces \subseteq Seq(Parts)
      /\ \A f \in Fields \cup {"max_dynamic_buckets"} : <<f>> \in Seq(Parts)
  BY StoreAssumption DEF FieldInput, Setting
<1>1. ASSUME NEW n \in Namespaces, a = addNamespace(n)
      PROVE  /\ a.type = "ADD_NAMESPACE"
             /\ Edited(items, a).items \in Items
             /\ Edited(items, a).change \in Change
  <2>1. [items EXCEPT ![n] = NewNamespace] \in Items
    BY NewTypes DEF Items
  <2>2. Edited(items, a) = Changed("ADD_NAMESPACE", n, Undefined,
                                   [items EXCEPT ![n] = NewNamespace])
    BY <1>1 DEF addNamespace, Edited, onAddNamespace
  <2>7. a.type = "ADD_NAMESPACE"
    BY <1>1 DEF addNamespace
  <2> QED
    BY ONLY <1>0, <1>1, <2>1, <2>2, <2>7, ChangedTypes DEF MutableActions
<1>2. ASSUME NEW n \in Namespaces, NEW v \in FieldInput, items[n] # Undefined,
             a = updateNamespace(n, v)
      PROVE  /\ a.type = "UPDATE_NAMESPACE"
             /\ Edited(items, a).items \in Items
             /\ Edited(items, a).change \in Change
  <2>1. [items EXCEPT ![n].max_dynamic_buckets = v] \in Items
    <3>1. items[n] \in NamespaceConfig /\ v \in Setting
      BY <1>0, <1>2 DEF Items
    <3>2. [items[n] EXCEPT !.max_dynamic_buckets = v] \in NamespaceConfig
      BY <3>1 DEF NamespaceConfig
    <3> QED
      BY <3>2 DEF Items
  <2>2. Edited(items, a) =
          Changed("UPDATE_NAMESPACE", n \o <<"max_dynamic_buckets">>, v,
                  [items EXCEPT ![n].max_dynamic_buckets = v])
    BY <1>2 DEF updateNamespace, Edited, onUpdateNamespace
  <2>3. n \o <<"max_dynamic_buckets">> \in Seq(Parts)
    BY <1>0
  <2>7. a.type = "UPDATE_NAMESPACE"
    BY <1>2 DEF updateNamespace
  <2> QED
    BY ONLY <1>0, <1>2, <2>1, <2>2, <2>3, <2>7, ChangedTypes DEF MutableActions
<1>3. ASSUME NEW n \in Namespaces,
             a = [type |-> "REMOVE_NAMESPACE", namespace |-> n]
      PROVE  /\ a.type = "REMOVE_NAMESPACE"
             /\ Edited(items, a).items \in Items
             /\ Edited(items, a).change \in Change
  <2>1. [items EXCEPT ![n] = Undefined] \in Items
    BY DEF Items
  <2>2. Edited(items, a) = Changed("REMOVE_NAMESPACE", n, Undefined,
                                   [items EXCEPT ![n] = Undefined])
    BY <1>3 DEF Edited, onRemoveNamespace
  <2>7. a.type = "REMOVE_NAMESPACE"
    BY <1>3
  <2> QED
    BY ONLY <1>0, <1>3, <2>1, <2>2, <2>7, ChangedTypes DEF MutableActions
<1>4. ASSUME NEW n \in Namespaces, NEW b \in Buckets, items[n] # Undefined,
             a = addBucket(n, b)
      PROVE  /\ a.type = "ADD_BUCKET"
             /\ Edited(items, a).items \in Items
             /\ Edited(items, a).change \in Change
  <2> DEFINE p == BucketPath(b)
  <2>1. [items EXCEPT ![n].buckets[p] = NewBucket] \in Items
    BY <1>4, BucketTypes, NewTypes, ReplaceBucket
  <2>2. Edited(items, a) = Changed("ADD_BUCKET", n \o BucketKey(b), Undefined,
                                   [items EXCEPT ![n].buckets[p] = NewBucket])
    BY <1>4 DEF addBucket, Edited, onAddBucket
  <2>3. n \o BucketKey(b) \in Seq(Parts)
    BY <1>0, BucketTypes
  <2>7. a.type = "ADD_BUCKET"
    BY <1>4 DEF addBucket
  <2> QED
    BY ONLY <1>0, <1>4, <2>1, <2>2, <2>3, <2>7, ChangedTypes DEF MutableActions
<1>5. ASSUME NEW n \in Namespaces, NEW b \in Buckets, NEW f \in Fields,
             NEW v \in FieldInput, HasBucket(items, n, b),
             a = updateBucket(n, b, f, v)
      PROVE  /\ a.type = "UPDATE_BUCKET"
             /\ Edited(items, a).items \in Items
             /\ Edited(items, a).change \in Change
  <2> DEFINE p == BucketPath(b)
             c == [items[n].buckets[p] EXCEPT ![f] = v]
  <2>1. items[n] # Undefined /\ items[n] \in NamespaceConfig /\ p \in BucketPaths
    BY <1>5, BucketTypes DEF HasBucket, Items
  <2>2. c \in BucketConfig
    <3>1. items[n].buckets[p] \in BucketConfig
      BY <1>5, <2>1 DEF HasBucket, NamespaceConfig
    <3> QED
      BY <1>0, <3>1 DEF BucketConfig
  <2>3. [items EXCEPT ![n].buckets[p] = c] \in Items
    BY <2>1, <2>2, ReplaceBucket
  <2>4. [items EXCEPT ![n].buckets[p][f] = v] = [items EXCEPT ![n].buckets[p] = c]
    OBVIOUS
  <2>5. Edited(items, a) =
          Changed("UPDATE_BUCKET", n \o BucketKey(b) \o <<f>>, v,
                  [items EXCEPT ![n].buckets[p] = c])
    BY <1>5, <2>4 DEF updateBucket, Edited, onUpdateBucket
  <2>6. n \o BucketKey(b) \o <<f>> \in Seq(Parts)
    BY <1>0, BucketTypes
  <2>7. a.type = "UPDATE_BUCKET"
    BY <1>5 DEF updateBucket
  <2> QED
    BY ONLY <1>0, <1>5, <2>3, <2>5, <2>6, <2>7, ChangedTypes DEF MutableActions
<1>6. ASSUME NEW n \in Namespaces, NEW b \in Buckets, HasBucket(items, n, b),
             a = [type |-> "REMOVE_BUCKET", namespace |-> n, bucket |-> b]
      PROVE  /\ a.type = "REMOVE_BUCKET"
             /\ Edited(items, a).items \in Items
             /\ Edited(items, a).change \in Change
  <2> DEFINE p == BucketPath(b)
  <2>1. [items EXCEPT ![n].buckets[p] = Undefined] \in Items
    BY <1>6, BucketTypes, ReplaceBucket DEF HasBucket
  <2>2. Edited(items, a) = Changed("REMOVE_BUCKET", n \o BucketKey(b), Undefined,
                                   [items EXCEPT ![n].buckets[p] = Undefined])
    BY <1>6 DEF Edited, onRemoveBucket
  <2>3. n \o BucketKey(b) \in Seq(Parts)
    BY <1>0, BucketTypes
  <2>7. a.type = "REMOVE_BUCKET"
    BY <1>6
  <2> QED
    BY ONLY <1>0, <1>6, <2>1, <2>2, <2>3, <2>7, ChangedTypes DEF MutableActions
<1> QED
  BY <1>1, <1>2, <1>3, <1>4, <1>5, <1>6, EditKinds

-----------------------------------------------------------------------------
(***************************************************************************)
(* The changes in the history.                                             *)
(***************************************************************************)

\* A change is an edit that leads from items x to items y.
Explains(x, change, y) ==
  \E a \in EditsOf(x) : Edited(x, a) = [change |-> change, items |-> y]

\* Each change of the past leads to the state after it, and each change of the
\* future from the state before it.
Explained(h) ==
  /\ \A i \in DOMAIN h.past :
       Explains(h.past[i].items, h.past[i].change,
                IF i = 1 THEN h.items ELSE h.past[i - 1].items)
  /\ \A i \in DOMAIN h.future :
       Explains(IF i = Len(h.future) THEN h.items ELSE h.future[i + 1].items,
                h.future[i].change, h.future[i].items)

\* What the reducers record for the two kinds of edit that may be merged.
LEMMA UpdatesRecorded ==
  ASSUME NEW x, NEW a \in EditsOf(x)
  PROVE  LET r == Edited(x, a)
         IN /\ r.change.type = "UPDATE_NAMESPACE" =>
                 \E n \in Namespaces, v \in FieldInput :
                   /\ x[n] # Undefined
                   /\ r = Changed("UPDATE_NAMESPACE", n \o <<"max_dynamic_buckets">>, v,
                                  [x EXCEPT ![n].max_dynamic_buckets = v])
            /\ r.change.type = "UPDATE_BUCKET" =>
                 \E n \in Namespaces, b \in Buckets, f \in Fields, v \in FieldInput :
                   /\ HasBucket(x, n, b)
                   /\ r = Changed("UPDATE_BUCKET", n \o BucketKey(b) \o <<f>>, v,
                                  [x EXCEPT ![n].buckets[BucketPath(b)][f] = v])
<1> DEFINE r == Edited(x, a)
<1>1. ASSUME NEW n \in Namespaces, a = addNamespace(n)
      PROVE  r.change.type = "ADD_NAMESPACE"
  BY <1>1 DEF addNamespace, Edited, onAddNamespace, Changed
<1>2. ASSUME NEW n \in Namespaces, NEW v \in FieldInput, a = updateNamespace(n, v)
      PROVE  /\ r = Changed("UPDATE_NAMESPACE", n \o <<"max_dynamic_buckets">>, v,
                            [x EXCEPT ![n].max_dynamic_buckets = v])
             /\ r.change.type = "UPDATE_NAMESPACE"
  BY <1>2 DEF updateNamespace, Edited, onUpdateNamespace, Changed
<1>3. ASSUME NEW n \in Namespaces,
             a = [type |-> "REMOVE_NAMESPACE", namespace |-> n]
      PROVE  r.change.type = "REMOVE_NAMESPACE"
  BY <1>3 DEF Edited, onRemoveNamespace, Changed
<1>4. ASSUME NEW n \in Namespaces, NEW b \in Buckets, a = addBucket(n, b)
      PROVE  r.change.type = "ADD_BUCKET"
  BY <1>4 DEF addBucket, Edited, onAddBucket, Changed
<1>5. ASSUME NEW n \in Namespaces, NEW b \in Buckets, NEW f \in Fields,
             NEW v \in FieldInput, a = updateBucket(n, b, f, v)
      PROVE  /\ r = Changed("UPDATE_BUCKET", n \o BucketKey(b) \o <<f>>, v,
                            [x EXCEPT ![n].buckets[BucketPath(b)][f] = v])
             /\ r.change.type = "UPDATE_BUCKET"
  BY <1>5 DEF updateBucket, Edited, onUpdateBucket, Changed
<1>6. ASSUME NEW n \in Namespaces, NEW b \in Buckets,
             a = [type |-> "REMOVE_BUCKET", namespace |-> n, bucket |-> b]
      PROVE  r.change.type = "REMOVE_BUCKET"
  BY <1>6 DEF Edited, onRemoveBucket, Changed
<1> HIDE DEF r
<1>7. CASE r.change.type = "UPDATE_NAMESPACE"
  <2>1. \E n \in Namespaces, v \in FieldInput :
          x[n] # Undefined /\ a = updateNamespace(n, v)
    BY <1>1, <1>3, <1>4, <1>5, <1>6, <1>7, EditKinds
  <2> QED
    BY <1>2, <1>7, <2>1 DEF r
<1>8. CASE r.change.type = "UPDATE_BUCKET"
  <2>1. \E n \in Namespaces, b \in Buckets, f \in Fields, v \in FieldInput :
          HasBucket(x, n, b) /\ a = updateBucket(n, b, f, v)
    BY <1>1, <1>2, <1>3, <1>4, <1>6, <1>8, EditKinds
  <2> QED
    BY <1>5, <1>8, <2>1 DEF r
<1> QED
  BY <1>7, <1>8 DEF r

\* Setting a namespace's limit and setting a field of a bucket.
SetsLimit(x, n, v, y) == y = [x EXCEPT ![n].max_dynamic_buckets = v]

SetsField(x, n, p, f, v, y) == y = [x EXCEPT ![n].buckets[p][f] = v]

\* What is set twice is set once, from the state before.
LEMMA LimitSetTwice ==
  ASSUME NEW x \in Items, NEW n \in Namespaces, x[n] # Undefined,
         NEW v, NEW y, SetsLimit(x, n, v, y), NEW w, NEW z, SetsLimit(y, n, w, z)
  PROVE  SetsLimit(x, n, w, z)
<1>1. x[n] \in NamespaceConfig /\ x \in [Namespaces -> NamespaceConfig \cup {Undefined}]
  BY DEF Items
<1>2. [[x[n] EXCEPT !.max_dynamic_buckets = v] EXCEPT !.max_dynamic_buckets = w]
        = [x[n] EXCEPT !.max_dynamic_buckets = w]
  BY <1>1 DEF NamespaceConfig
<1> QED
  BY <1>1, <1>2 DEF SetsLimit

LEMMA FieldSetTwice ==
  ASSUME NEW x \in Items, NEW n \in Namespaces, x[n] # Undefined,
         NEW p \in BucketPaths, x[n].buckets[p] # Undefined, NEW f \in Fields,
         NEW v, NEW y, SetsField(x, n, p, f, v, y),
         NEW w, NEW z, SetsField(y, n, p, f, w, z)
  PROVE  SetsField(x, n, p, f, w, z)
<1>1. x[n] \in NamespaceConfig /\ x \in [Namespaces -> NamespaceConfig \cup {Undefined}]
  BY DEF Items
<1>2. PICK bs : bs = x[n].buckets
  OBVIOUS
<1>3. bs \in [BucketPaths -> BucketConfig \cup {Undefined}] /\ bs[p] \in BucketConfig
  BY <1>1, <1>2 DEF NamespaceConfig
<1>4. [[bs[p] EXCEPT ![f] = v] EXCEPT ![f] = w] = [bs[p] EXCEPT ![f] = w]
  BY <1>3 DEF BucketConfig
<1>5. [[bs EXCEPT ![p][f] = v] EXCEPT ![p][f] = w] = [bs EXCEPT ![p][f] = w]
  BY <1>3, <1>4
<1>6. [[x[n] EXCEPT !.buckets[p][f] = v] EXCEPT !.buckets[p][f] = w]
        = [x[n] EXCEPT !.buckets[p][f] = w]
  BY <1>1, <1>2, <1>5 DEF NamespaceConfig
<1> QED
  BY <1>1, <1>6 DEF SetsField

\* Changes that changesMergeable takes for one are one edit from the state
\* before the first to the state after the second.
LEMMA MergedIsOneEdit ==
  ASSUME KeysApart,
         NEW x \in Items, NEW c, NEW y, Explains(x, c, y),
         NEW d, NEW z, Explains(y, d, z), changesMergeable(c, d)
  PROVE  Explains(x, d, z)
<1>1. PICK a \in EditsOf(x) : Edited(x, a) = [change |-> c, items |-> y]
  BY DEF Explains
<1>2. PICK e \in EditsOf(y) : Edited(y, e) = [change |-> d, items |-> z]
  BY DEF Explains
<1>3. /\ Edited(x, a).change = c /\ Edited(x, a).items = y
      /\ Edited(y, e).change = d /\ Edited(y, e).items = z
  BY <1>1, <1>2
<1>4. /\ d.type \in {"UPDATE_NAMESPACE", "UPDATE_BUCKET"}
      /\ c.type = d.type /\ c.key = d.key
  BY DEF changesMergeable, MERGEABLE_CHANGES
<1>5. Namespaces \subseteq Seq(Parts) /\ Fields \subseteq Parts
      /\ "max_dynamic_buckets" \in Parts
  BY StoreAssumption
<1>6. CASE d.type = "UPDATE_NAMESPACE"
  <2> DEFINE M == <<"max_dynamic_buckets">>
  <2>1. PICK n \in Namespaces, v \in FieldInput :
          /\ x[n] # Undefined
          /\ Edited(x, a) = Changed("UPDATE_NAMESPACE", n \o M, v,
                                    [x EXCEPT ![n].max_dynamic_buckets = v])
    BY <1>3, <1>4, <1>6, UpdatesRecorded
  <2>2. PICK m \in Namespaces, w \in FieldInput :
          Edited(y, e) = Changed("UPDATE_NAMESPACE", m \o M, w,
                                 [y EXCEPT ![m].max_dynamic_buckets = w])
    BY <1>3, <1>6, UpdatesRecorded
  <2>3. /\ c.key = n \o M /\ y = [x EXCEPT ![n].max_dynamic_buckets = v]
        /\ d.key = m \o M /\ z = [y EXCEPT ![m].max_dynamic_buckets = w]
    BY <1>3, <2>1, <2>2 DEF Changed
  <2>4. n = m
    <3>1. PICK k : k = "max_dynamic_buckets"
      OBVIOUS
    <3>2. /\ n \in Seq(Parts) /\ m \in Seq(Parts) /\ k \in Parts
          /\ n \o <<k>> = m \o <<k>>
      BY <1>4, <1>5, <2>3, <3>1
    <3> QED
      BY ONLY <3>2, LastTold
  <2>5. z = [x EXCEPT ![n].max_dynamic_buckets = w]
    <3>1. SetsLimit(x, n, v, y) /\ SetsLimit(y, n, w, z)
      BY ONLY <2>3, <2>4 DEF SetsLimit
    <3>2. SetsLimit(x, n, w, z)
      BY ONLY <2>1, <3>1, x \in Items, n \in Namespaces, LimitSetTwice
    <3> QED
      BY ONLY <3>2 DEF SetsLimit
  <2>6. updateNamespace(n, w) \in EditsOf(x)
    BY <2>1 DEF EditsOf
  <2>7. Edited(x, updateNamespace(n, w)) =
          Changed("UPDATE_NAMESPACE", n \o M, w,
                  [x EXCEPT ![n].max_dynamic_buckets = w])
    BY DEF updateNamespace, Edited, onUpdateNamespace
  <2>8. Edited(x, updateNamespace(n, w)) = Edited(y, e)
    BY <2>2, <2>3, <2>4, <2>5, <2>7
  <2> QED
    BY <1>2, <2>6, <2>8 DEF Explains
<1>7. CASE d.type = "UPDATE_BUCKET"
  <2>1. PICK n \in Namespaces, b \in Buckets, f \in Fields, v \in FieldInput :
          /\ HasBucket(x, n, b)
          /\ Edited(x, a) = Changed("UPDATE_BUCKET", n \o BucketKey(b) \o <<f>>, v,
                                    [x EXCEPT ![n].buckets[BucketPath(b)][f] = v])
    BY <1>3, <1>4, <1>7, UpdatesRecorded
  <2>2. PICK m \in Namespaces, q \in Buckets, g \in Fields, w \in FieldInput :
          /\ HasBucket(y, m, q)
          /\ Edited(y, e) = Changed("UPDATE_BUCKET", m \o BucketKey(q) \o <<g>>, w,
                                    [y EXCEPT ![m].buckets[BucketPath(q)][g] = w])
    <3>1. Edited(y, e).change.type = "UPDATE_BUCKET"
      BY <1>3, <1>7
    <3> QED
      BY ONLY <3>1, e \in EditsOf(y), UpdatesRecorded
  <2>3. /\ c.key = (n \o BucketKey(b)) \o <<f>>
        /\ y = [x EXCEPT ![n].buckets[BucketPath(b)][f] = v]
        /\ d.key = (m \o BucketKey(q)) \o <<g>>
        /\ z = [y EXCEPT ![m].buckets[BucketPath(q)][g] = w]
    <3>1. PICK k, i : /\ k = (n \o BucketKey(b)) \o <<f>>
                      /\ i = [x EXCEPT ![n].buckets[BucketPath(b)][f] = v]
      OBVIOUS
    <3>2. Edited(x, a) = Changed("UPDATE_BUCKET", k, v, i)
      BY ONLY <2>1, <3>1
    <3>3. c.key = k /\ y = i
      BY ONLY <1>3, <3>2 DEF Changed
    <3>4. PICK l, j : /\ l = (m \o BucketKey(q)) \o <<g>>
                      /\ j = [y EXCEPT ![m].buckets[BucketPath(q)][g] = w]
      OBVIOUS
    <3>5. Edited(y, e) = Changed("UPDATE_BUCKET", l, w, j)
      BY ONLY <2>2, <3>4
    <3>6. d.key = l /\ z = j
      BY ONLY <1>3, <3>5 DEF Changed
    <3> QED
      BY ONLY <3>1, <3>3, <3>4, <3>6
  <2>4. n \o BucketKey(b) \in Seq(Parts) /\ m \o BucketKey(q) \in Seq(Parts)
    BY <1>5, BucketTypes
  <2>5. n \o BucketKey(b) = m \o BucketKey(q) /\ f = g
    <3>1. PICK s, t : s = n \o BucketKey(b) /\ t = m \o BucketKey(q)
      OBVIOUS
    <3>2. /\ s \in Seq(Parts) /\ t \in Seq(Parts) /\ f \in Parts /\ g \in Parts
          /\ s \o <<f>> = t \o <<g>>
      BY <1>4, <1>5, <2>3, <2>4, <3>1
    <3>3. s = t /\ f = g
      BY ONLY <3>2, LastTold
    <3> QED
      BY <3>1, <3>3
  <2>6. n = m /\ BucketPath(b) = BucketPath(q)
    <3> DEFINE Key(i, s) == i \o BucketKey(s)
    <3>1. \A i, j \in Namespaces : \A s, t \in Buckets :
            Key(i, s) = Key(j, t) => i = j /\ BucketPath(s) = BucketPath(t)
      BY DEF KeysApart
    <3>2. Key(n, b) = Key(m, q)
      BY <2>5
    <3> HIDE DEF Key
    <3> QED
      BY ONLY <3>1, <3>2, n \in Namespaces, m \in Namespaces, b \in Buckets,
              q \in Buckets
  <2>7. /\ x[n] # Undefined /\ x[n].buckets[BucketPath(b)] # Undefined
        /\ BucketPath(b) \in BucketPaths
    BY <2>1, BucketTypes DEF HasBucket
  <2>8. z = [x EXCEPT ![n].buckets[BucketPath(b)][f] = w]
    <3>1. PICK o : o = BucketPath(b)
      OBVIOUS
    <3>2. o \in BucketPaths /\ x[n].buckets[o] # Undefined
      BY <2>7, <3>1
    <3>3. SetsField(x, n, o, f, v, y) /\ SetsField(y, n, o, f, w, z)
      BY ONLY <2>3, <2>5, <2>6, <3>1 DEF SetsField
    <3>4. SetsField(x, n, o, f, w, z)
      BY ONLY <2>7, <3>2, <3>3, x \in Items, n \in Namespaces, f \in Fields,
              FieldSetTwice
    <3> QED
      BY ONLY <3>1, <3>4 DEF SetsField
  <2>9. updateBucket(n, b, f, w) \in EditsOf(x)
    <3>1. /\ updateBucket(n, b, f, w).namespace = n
          /\ updateBucket(n, b, f, w).bucket = b
      BY DEF updateBucket
    <3> QED
      BY <2>1, <2>7, <3>1 DEF EditsOf
  <2>10. Edited(x, updateBucket(n, b, f, w)) =
           Changed("UPDATE_BUCKET", n \o BucketKey(b) \o <<f>>, w,
                   [x EXCEPT ![n].buckets[BucketPath(b)][f] = w])
    BY DEF updateBucket, Edited, onUpdateBucket
  <2>11. Edited(x, updateBucket(n, b, f, w)) = Edited(y, e)
    <3>1. PICK s : s = n \o BucketKey(b) /\ s = m \o BucketKey(q)
      BY <2>5
    <3>2. Edited(y, e) = Changed("UPDATE_BUCKET", s \o <<f>>, w, z)
      BY ONLY <2>2, <2>3, <2>5, <3>1
    <3>3. Edited(x, updateBucket(n, b, f, w)) = Changed("UPDATE_BUCKET", s \o <<f>>, w, z)
      BY ONLY <2>8, <2>10, <3>1
    <3> QED
      BY ONLY <3>2, <3>3
  <2> QED
    BY <1>2, <2>9, <2>11 DEF Explains
<1> QED
  BY <1>4, <1>6, <1>7

\* An edit is explained by the change that its reducer returns.
LEMMA EditExplains ==
  ASSUME NEW x, NEW a \in EditsOf(x)
  PROVE  Explains(x, Edited(x, a).change, Edited(x, a).items)
<1> DEFINE Shaped == \E t, k, v, y : Edited(x, a) = Changed(t, k, v, y)
<1>1. Shaped
  <2> USE DEF Edited, onAddNamespace, onUpdateNamespace, onRemoveNamespace,
              onAddBucket, onUpdateBucket, onRemoveBucket
  <2>1. ASSUME NEW n \in Namespaces, a = addNamespace(n)
        PROVE  Shaped
    BY <2>1 DEF addNamespace
  <2>2. ASSUME NEW n \in Namespaces, NEW w \in FieldInput, a = updateNamespace(n, w)
        PROVE  Shaped
    BY <2>2 DEF updateNamespace
  <2>3. ASSUME NEW n \in Namespaces, a = [type |-> "REMOVE_NAMESPACE", namespace |-> n]
        PROVE  Shaped
    BY <2>3
  <2>4. ASSUME NEW n \in Namespaces, NEW b \in Buckets, a = addBucket(n, b)
        PROVE  Shaped
    BY <2>4 DEF addBucket
  <2>5. ASSUME NEW n \in Namespaces, NEW b \in Buckets, NEW f \in Fields,
               NEW w \in FieldInput, a = updateBucket(n, b, f, w)
        PROVE  Shaped
    BY <2>5 DEF updateBucket
  <2>6. ASSUME NEW n \in Namespaces, NEW b \in Buckets,
               a = [type |-> "REMOVE_BUCKET", namespace |-> n, bucket |-> b]
        PROVE  Shaped
    BY <2>6
  <2> HIDE DEF Shaped
  <2> QED
    BY ONLY <2>1, <2>2, <2>3, <2>4, <2>5, <2>6, EditKinds, a \in EditsOf(x)
<1> QED
  BY <1>1 DEF Changed, Explains

\* Undoing moves a change from the past to the future, between the same states.
LEMMA UndoExplained ==
  ASSUME NEW h \in History, Explained(h)
  PROVE  Explained(onUndo(h))
<1>1. CASE h.past = <<>>
  BY <1>1 DEF onUndo
<1>2. CASE h.past # <<>>
  <2> DEFINE n == Len(h.past)
             m == Len(h.future)
             e == Entry(h, h.past[1].change)
  <2>1. /\ h.past \in Seq(HistoryEntry) /\ h.future \in Seq(HistoryEntry)
        /\ n \in Nat \ {0} /\ m \in Nat
        /\ DOMAIN h.past = 1..n /\ DOMAIN h.future = 1..m
    BY <1>2 DEF History
  <2>2. Head(h.past) = h.past[1] /\ h.past[1] \in HistoryEntry
    BY <2>1
  <2>3. PICK g : g = onUndo(h)
    OBVIOUS
  <2>4. /\ g.items = h.past[1].items
        /\ g.past = Tail(h.past)
        /\ g.future = Append(h.future, e)
    BY <1>2, <2>2, <2>3 DEF onUndo
  <2>5. e \in HistoryEntry /\ e.items = h.items /\ e.change = h.past[1].change
    BY <2>2 DEF Entry, History, HistoryEntry
  <2> HIDE DEF e
  <2>6. /\ DOMAIN g.past = 1..(n - 1)
        /\ \A i \in 1..(n - 1) : g.past[i] = h.past[i + 1]
    BY <2>1, <2>4
  <2>7. /\ DOMAIN g.future = 1..(m + 1) /\ Len(g.future) = m + 1
        /\ g.future[m + 1] = e
        /\ \A i \in 1..m : g.future[i] = h.future[i]
    BY <2>1, <2>4, <2>5
  <2>8. /\ \A i \in 1..n :
             Explains(h.past[i].items, h.past[i].change,
                      IF i = 1 THEN h.items ELSE h.past[i - 1].items)
        /\ \A i \in 1..m :
             Explains(IF i = m THEN h.items ELSE h.future[i + 1].items,
                      h.future[i].change, h.future[i].items)
    BY <2>1 DEF Explained
  <2> HIDE DEF n, m
  <2>9. ASSUME NEW i \in 1..(n - 1)
        PROVE  Explains(g.past[i].items, g.past[i].change,
                        IF i = 1 THEN g.items ELSE g.past[i - 1].items)
    <3>1. /\ i + 1 \in 1..n /\ i + 1 # 1 /\ (i + 1) - 1 = i
          /\ i # 1 => i - 1 \in 1..(n - 1) /\ (i - 1) + 1 = i
      BY <2>1
    <3>2. g.past[i] = h.past[i + 1] /\ (i # 1 => g.past[i - 1] = h.past[i])
      BY <2>6, <3>1
    <3>3. Explains(h.past[i + 1].items, h.past[i + 1].change, h.past[i].items)
      BY <2>8, <3>1
    <3> QED
      BY <2>4, <3>2, <3>3
  <2>10. ASSUME NEW i \in 1..(m + 1)
         PROVE  Explains(IF i = m + 1 THEN g.items ELSE g.future[i + 1].items,
                         g.future[i].change, g.future[i].items)
    <3>1. CASE i = m + 1
      <4>1. 1 \in 1..n
        BY <2>1
      <4>2. Explains(h.past[1].items, h.past[1].change, h.items)
        BY <2>8, <4>1
      <4> QED
        BY <2>4, <2>5, <2>7, <3>1, <4>2
    <3>2. CASE i # m + 1
      <4>1. i \in 1..m /\ i + 1 \in 1..(m + 1) /\ (i # m => i + 1 \in 1..m)
        BY <2>1, <3>2
      <4>2. /\ g.future[i] = h.future[i]
            /\ g.future[i + 1].items = IF i = m THEN h.items ELSE h.future[i + 1].items
        BY <2>5, <2>7, <4>1
      <4> QED
        BY <2>8, <3>2, <4>1, <4>2
    <3> QED
      BY <3>1, <3>2
  <2>11. Explained(g)
    BY <2>6, <2>7, <2>9, <2>10 DEF Explained
  <2> QED
    BY <2>3, <2>11
<1> QED
  BY <1>1, <1>2

\* A past with an entry in front explains itself when the entry leads to items
\* and the rest to the entry.
LEMMA PastExplained ==
  ASSUME NEW e \in HistoryEntry, NEW t \in Seq(HistoryEntry), NEW items,
         Explains(e.items, e.change, items),
         \A i \in 1..Len(t) :
           Explains(t[i].items, t[i].change, IF i = 1 THEN e.items ELSE t[i - 1].items)
  PROVE  \A i \in DOMAIN (<<e>> \o t) :
           Explains((<<e>> \o t)[i].items, (<<e>> \o t)[i].change,
                    IF i = 1 THEN items ELSE (<<e>> \o t)[i - 1].items)
<1> DEFINE k == Len(t)
<1>1. PICK p : p = <<e>> \o t
  OBVIOUS
<1>2. /\ k \in Nat /\ p[1] = e /\ DOMAIN p = 1..(k + 1)
      /\ \A i \in 2..(k + 1) : p[i] = t[i - 1]
  <2>1. /\ p \in Seq(HistoryEntry) /\ Len(p) = k + 1
        /\ p[1] = e /\ \A i \in 2..(k + 1) : p[i] = t[i - 1]
    BY <1>1, Prepended
  <2> QED
    BY <2>1
<1> HIDE DEF k
<1>3. ASSUME NEW i \in 1..(k + 1)
      PROVE  Explains(p[i].items, p[i].change, IF i = 1 THEN items ELSE p[i - 1].items)
  <2>1. CASE i = 1
    BY <1>2, <2>1
  <2>2. CASE i # 1
    <3>1. /\ i \in 2..(k + 1) /\ i - 1 \in 1..k
          /\ i - 1 # 1 => i - 1 \in 2..(k + 1)
      BY <1>2, <2>2
    <3>2. /\ p[i] = t[i - 1]
          /\ p[i - 1].items = IF i - 1 = 1 THEN e.items ELSE t[(i - 1) - 1].items
      BY <1>2, <3>1
    <3>3. Explains(t[i - 1].items, t[i - 1].change,
                   IF i - 1 = 1 THEN e.items ELSE t[(i - 1) - 1].items)
      BY <3>1 DEF k
    <3> QED
      BY <2>2, <3>2, <3>3
  <2> QED
    BY <2>1, <2>2
<1> QED
  BY <1>1, <1>2, <1>3

LEMMA RedoExplained ==
  ASSUME NEW h \in History, Explained(h)
  PROVE  Explained(onRedo(h))
<1>1. CASE h.future = <<>>
  BY <1>1 DEF onRedo
<1>2. CASE h.future # <<>>
  <2> DEFINE n == Len(h.past)
             m == Len(h.future)
             next == h.future[m]
             e == Entry(h, next.change)
  <2>1. /\ h.past \in Seq(HistoryEntry) /\ h.future \in Seq(HistoryEntry)
        /\ m \in Nat \ {0} /\ n \in Nat
        /\ DOMAIN h.past = 1..n /\ DOMAIN h.future = 1..m
    BY <1>2 DEF History
  <2>2. next \in HistoryEntry
    BY <2>1
  <2>3. PICK g : g = onRedo(h)
    OBVIOUS
  <2>4. /\ g.items = next.items
        /\ g.past = <<e>> \o h.past
        /\ g.future = SubSeq(h.future, 1, m - 1)
    BY <1>2, <2>3 DEF onRedo
  <2>5. e \in HistoryEntry /\ e.items = h.items /\ e.change = next.change
    BY <2>2 DEF Entry, History, HistoryEntry
  <2>6. /\ DOMAIN g.future = 1..(m - 1) /\ Len(g.future) = m - 1
        /\ \A i \in 1..(m - 1) : g.future[i] = h.future[i]
    BY <2>1, <2>4
  <2>7. /\ \A i \in 1..n :
             Explains(h.past[i].items, h.past[i].change,
                      IF i = 1 THEN h.items ELSE h.past[i - 1].items)
        /\ \A i \in 1..m :
             Explains(IF i = m THEN h.items ELSE h.future[i + 1].items,
                      h.future[i].change, h.future[i].items)
    BY <2>1 DEF Explained
  <2>8. Explains(e.items, e.change, g.items)
    <3>1. m \in 1..m
      BY <2>1
    <3> QED
      BY <2>4, <2>5, <2>7, <3>1
  <2>9. \A i \in DOMAIN g.past :
          Explains(g.past[i].items, g.past[i].change,
                   IF i = 1 THEN g.items ELSE g.past[i - 1].items)
    <3>1. \A i \in 1..Len(h.past) :
            Explains(h.past[i].items, h.past[i].change,
                     IF i = 1 THEN e.items ELSE h.past[i - 1].items)
      BY <2>5, <2>7
    <3> HIDE DEF e
    <3> QED
      BY <2>1, <2>4, <2>5, <2>8, <3>1, PastExplained
  <2> HIDE DEF m
  <2>10. ASSUME NEW i \in 1..(m - 1)
         PROVE  Explains(IF i = m - 1 THEN g.items ELSE g.future[i + 1].items,
                         g.future[i].change, g.future[i].items)
    <3>1. /\ i \in 1..m /\ i # m /\ (i = m - 1 => i + 1 = m)
          /\ i # m - 1 => i + 1 \in 1..(m - 1)
      BY <2>1
    <3>2. Explains(h.future[i + 1].items, h.future[i].change, h.future[i].items)
      BY <2>7, <3>1
    <3> QED
      BY <2>4, <2>6, <3>1, <3>2
  <2>11. Explained(g)
    BY <2>6, <2>9, <2>10 DEF Explained
  <2> QED
    BY <2>3, <2>11
<1> QED
  BY <1>1, <1>2

\* An edit is recorded as what it is; when it is merged, as the one edit that
\* it makes with the edit before it.
LEMMA EditExplained ==
  ASSUME KeysApart, NEW h \in History, Explained(h),
         NEW items, NEW change \in Change, Explains(h.items, change, items)
  PROVE  Explained([items |-> items, version |-> h.version,
                    past |-> Recorded(h, change), future |-> <<>>])
<1> DEFINE n == Len(h.past)
<1>1. /\ h.past \in Seq(HistoryEntry) /\ n \in Nat /\ DOMAIN h.past = 1..n
      /\ \A i \in 1..n : h.past[i] \in HistoryEntry
  BY DEF History
<1>2. \A i \in 1..n :
        Explains(h.past[i].items, h.past[i].change,
                 IF i = 1 THEN h.items ELSE h.past[i - 1].items)
  BY <1>1 DEF Explained
<1>3. PICK p : p = Recorded(h, change)
  OBVIOUS
<1>4. \A i \in DOMAIN p :
        Explains(p[i].items, p[i].change, IF i = 1 THEN items ELSE p[i - 1].items)
  <2>1. CASE Merges(h, change)
    <3>1. /\ n > 0 /\ Head(h.past) = h.past[1] /\ h.past[1] \in HistoryEntry
          /\ changesMergeable(h.past[1].change, change)
      BY <1>1, <2>1 DEF Merges
    <3>2. PICK e, t : e = Entry(h.past[1], change) /\ t = Tail(h.past)
      OBVIOUS
    <3>3. /\ e \in HistoryEntry /\ e.items = h.past[1].items /\ e.change = change
          /\ h.past[1].items \in Items
      BY <3>1, <3>2 DEF Entry, HistoryEntry
    <3>4. /\ t \in Seq(HistoryEntry) /\ Len(t) = n - 1
          /\ \A i \in 1..(n - 1) : t[i] = h.past[i + 1]
      BY <1>1, <3>1, <3>2
    <3>5. p = <<e>> \o t
      BY <1>3, <2>1, <3>1, <3>2 DEF Recorded
    <3>6. Explains(e.items, e.change, items)
      <4>1. Explains(h.past[1].items, h.past[1].change, h.items)
        BY <1>1, <1>2, <3>1
      <4> QED
        BY <3>1, <3>3, <4>1, MergedIsOneEdit
    <3>7. ASSUME NEW i \in 1..Len(t)
          PROVE  Explains(t[i].items, t[i].change,
                          IF i = 1 THEN e.items ELSE t[i - 1].items)
      <4> HIDE DEF n
      <4>1. /\ i \in 1..(n - 1) /\ i + 1 \in 1..n /\ i + 1 # 1 /\ (i + 1) - 1 = i
            /\ i # 1 => i - 1 \in 1..(n - 1) /\ (i - 1) + 1 = i
        BY <1>1, <3>4
      <4>2. /\ t[i] = h.past[i + 1]
            /\ h.past[i].items = IF i = 1 THEN e.items ELSE t[i - 1].items
        BY <3>3, <3>4, <4>1
      <4>3. Explains(h.past[i + 1].items, h.past[i + 1].change, h.past[i].items)
        BY <1>2, <4>1
      <4> QED
        BY <4>2, <4>3
    <3> QED
      BY <3>3, <3>4, <3>5, <3>6, <3>7, PastExplained
  <2>2. CASE ~Merges(h, change)
    <3>1. PICK e : e = Entry(h, change)
      OBVIOUS
    <3>2. e \in HistoryEntry /\ e.items = h.items /\ e.change = change
      BY <3>1 DEF Entry, History, HistoryEntry
    <3>3. p = <<e>> \o h.past
      BY <1>3, <2>2, <3>1 DEF Recorded
    <3>4. \A i \in 1..Len(h.past) :
            Explains(h.past[i].items, h.past[i].change,
                     IF i = 1 THEN e.items ELSE h.past[i - 1].items)
      BY <1>2, <3>2
    <3> QED
      BY <1>1, <3>2, <3>3, <3>4, PastExplained
  <2> QED
    BY <2>1, <2>2
<1>5. PICK g : g = [items |-> items, version |-> h.version,
                    past |-> p, future |-> <<>>]
  OBVIOUS
<1>6. g.items = items /\ g.past = p /\ DOMAIN g.future = {}
  BY <1>5
<1> QED
  BY <1>3, <1>4, <1>5, <1>6 DEF Explained

\* What is explained entry by entry is what HistoryExplained says of the
\* timeline.
LEMMA ExplainedTimeline ==
  ASSUME store.namespaces \in History, Explained(store.namespaces)
  PROVE  HistoryExplained
<1>1. PICK h : h = store.namespaces
  OBVIOUS
<1> DEFINE n == Len(h.past)
           m == Len(h.future)
<1>2. /\ h \in History /\ n \in Nat /\ m \in Nat
      /\ DOMAIN h.past = 1..n /\ DOMAIN h.future = 1..m
  <2>1. h.past \in Seq(HistoryEntry) /\ h.future \in Seq(HistoryEntry)
    BY <1>1 DEF History
  <2> QED
    BY <1>1, <2>1
<1>3. /\ \A i \in 1..n :
           Explains(h.past[i].items, h.past[i].change,
                    IF i = 1 THEN h.items ELSE h.past[i - 1].items)
      /\ \A i \in 1..m :
           Explains(IF i = m THEN h.items ELSE h.future[i + 1].items,
                    h.future[i].change, h.future[i].items)
  BY <1>1, <1>2 DEF Explained
<1>4. /\ Timeline = [i \in 1..(n + 1 + m) |->
                        IF i <= n THEN h.past[n + 1 - i].items
                        ELSE IF i = n + 1 THEN h.items
                        ELSE h.future[n + m + 2 - i].items]
      /\ Len(Timeline) = n + 1 + m
  BY <1>1, <1>2, TimelineIsSeq DEF Timeline, TimelineOf
<1>5. \A i : TimelineChange(i) = IF i <= n THEN h.past[n + 1 - i].change
                                           ELSE h.future[n + m + 1 - i].change
  BY <1>1 DEF TimelineChange
<1> HIDE DEF n, m
<1>6. ASSUME NEW i \in 1..(n + m)
      PROVE  Explains(Timeline[i], TimelineChange(i), Timeline[i + 1])
  <2>1. i \in 1..(n + 1 + m) /\ i + 1 \in 1..(n + 1 + m)
    BY <1>2
  <2>2. CASE i <= n
    <3>1. PICK j \in 1..n : j = n + 1 - i
      BY <1>2, <2>2
    <3>2. (j = 1 <=> i = n) /\ n + 1 - (i + 1) = j - 1 /\ (i # n <=> i + 1 <= n)
      BY <1>2, <2>2, <3>1
    <3>3. Timeline[i] = h.past[j].items /\ TimelineChange(i) = h.past[j].change
      BY <1>4, <1>5, <2>1, <2>2, <3>1
    <3>4. Timeline[i + 1] = IF j = 1 THEN h.items ELSE h.past[j - 1].items
      BY <1>2, <1>4, <2>1, <2>2, <3>2
    <3> QED
      BY <1>3, <3>3, <3>4
  <2>3. CASE i > n
    <3>1. PICK j \in 1..m : j = n + m + 1 - i
      BY <1>2, <2>3
    <3>2. /\ j = m <=> i = n + 1
          /\ n + m + 2 - (i + 1) = j /\ n + m + 2 - i = j + 1
          /\ ~(i <= n) /\ ~(i + 1 <= n) /\ i + 1 # n + 1
      BY <1>2, <2>3, <3>1
    <3>3. Timeline[i + 1] = h.future[j].items /\ TimelineChange(i) = h.future[j].change
      BY <1>4, <1>5, <2>1, <3>1, <3>2
    <3>4. Timeline[i] = IF j = m THEN h.items ELSE h.future[j + 1].items
      BY <1>4, <2>1, <3>2
    <3> QED
      BY <1>3, <3>3, <3>4
  <2> QED
    BY <1>2, <2>2, <2>3
<1>7. Len(Timeline) - 1 = n + m
  BY <1>2, <1>4
<1> QED
  BY <1>6, <1>7 DEF HistoryExplained, Explains

=============================================================================
