--------------------------- MODULE ThrottleProofs ---------------------------
(***************************************************************************)
(* Proofs about Throttle for any number of replicas, any limit and any     *)
(* window: the counter in Redis always has a time to live, and no span of  *)
(* one window's length lets in two windows' worth of requests, but for     *)
(* what the replicas counted in their own memory.                          *)
(***************************************************************************)
EXTENDS Throttle, SumTheorems

-----------------------------------------------------------------------------
(* Logs: requests by age *)

Logs == [Ages -> Nat]

\* The ages are the numbers below Ttl, and 0 is one of them
LEMMA AgesFinite ==
    /\ IsFiniteSet(Ages)
    /\ 0 \in Ages
    /\ \A i, j \in Int : IsFiniteSet(i..j)
    /\ \A i \in Nat, j \in Int : j < Ttl => i..j \subseteq Ages
  BY FS_Interval, ThrottleAssumption DEF Ages

\* What a log holds in all
LEMMA TotalIsSum ==
    ASSUME NEW log \in Logs
    PROVE  Total(log) = SumFunctionOnSet(log, Ages) /\ Total(log) \in Nat
  <1>1. DOMAIN log = Ages
    BY DEF Logs
  <1>2. Total(log) = SumFunctionOnSet(log, DOMAIN log)
    BY DEF Total, FoldFunction, SumFunctionOnSet
  <1>3. SumFunctionOnSet(log, Ages) \in Nat
    BY AgesFinite, SumInNat DEF Logs
  <1> QED
    BY <1>1, <1>2, <1>3

\* Nothing in the log, nothing in all
LEMMA NobodyTotal ==
    /\ Nobody \in Logs /\ Total(Nobody) = 0
    /\ \A log \in Logs : Total(log) = 0 => log = Nobody
  <1>1. Nobody \in Logs /\ \A age \in Ages : Nobody[age] = 0
    BY DEF Nobody, Logs
  <1>2. SumFunctionOnSet(Nobody, Ages) <= Cardinality(Ages) * 0
    BY <1>1, AgesFinite, SumBound
  <1>3. Cardinality(Ages) * 0 = 0
    BY AgesFinite, FS_CardinalityType
  <1>4. Total(Nobody) = 0
    BY <1>1, <1>2, <1>3, TotalIsSum
  <1>5. ASSUME NEW log \in Logs, Total(log) = 0
        PROVE  log = Nobody
    <2>1. ASSUME NEW age \in Ages
          PROVE  log[age] = 0
      <3>1. IsFiniteSet(Ages \ {age}) /\ \A i \in Ages : log[i] \in Nat
        BY AgesFinite, FS_RemoveElement DEF Logs
      <3>2. SumFunctionOnSet(log, Ages \ {age}) \in Nat
        BY <3>1, SumInNat
      <3>3. SumFunctionOnSet(log, Ages) = log[age] + SumFunctionOnSet(log, Ages \ {age})
        BY <3>1, AgesFinite, SumSplits
      <3> QED
        BY <1>5, <3>1, <3>2, <3>3, TotalIsSum
    <2> QED
      BY <2>1 DEF Nobody, Logs
  <1> QED
    BY <1>1, <1>4, <1>5

\* Logs that differ by one request at age 0
LEMMA OneMoreInSpan ==
    ASSUME NEW log \in Logs, NEW next \in Logs, next[0] = log[0] + 1,
           \A age \in Ages \ {0} : next[age] = log[age], NEW T \in SUBSET Ages
    PROVE  SumFunctionOnSet(next, T) =
               SumFunctionOnSet(log, T) + (IF 0 \in T THEN 1 ELSE 0)
  <1>1. /\ IsFiniteSet(T) /\ IsFiniteSet(T \ {0})
        /\ \A age \in T : log[age] \in Nat
        /\ \A age \in T : next[age] \in Nat
    BY AgesFinite, FS_Subset DEF Logs
  <1>2. \A age \in T \ {0} : next[age] \in Nat /\ next[age] = log[age]
    BY <1>1
  <1>3. SumFunctionOnSet(next, T \ {0}) = SumFunctionOnSet(log, T \ {0})
    BY <1>1, <1>2, SumEqual
  <1>4. SumFunctionOnSet(log, T \ {0}) \in Nat
    BY <1>1, SumInNat
  <1>5. CASE 0 \in T
    <2>1. SumFunctionOnSet(next, T) = next[0] + SumFunctionOnSet(next, T \ {0})
      BY <1>1, <1>5, SumSplits
    <2>2. SumFunctionOnSet(log, T) = log[0] + SumFunctionOnSet(log, T \ {0})
      BY <1>1, <1>5, SumSplits
    <2>3. log[0] \in Nat
      BY <1>1, <1>5
    <2> QED
      BY <1>3, <1>4, <1>5, <2>1, <2>2, <2>3
  <1>6. CASE 0 \notin T
    <2>1. T \ {0} = T
      BY <1>6
    <2> QED
      BY <1>3, <1>4, <1>6, <2>1
  <1> QED
    BY <1>5, <1>6

\* One request more at age 0
LEMMA OneMore ==
    ASSUME NEW log \in Logs
    PROVE  LET next == [log EXCEPT ![0] = @ + 1]
           IN  /\ next \in Logs /\ next[0] = log[0] + 1
               /\ \A age \in Ages \ {0} : next[age] = log[age]
               /\ \A T \in SUBSET Ages :
                      SumFunctionOnSet(next, T) =
                          SumFunctionOnSet(log, T) + (IF 0 \in T THEN 1 ELSE 0)
  <1> DEFINE next == [log EXCEPT ![0] = @ + 1]
  <1>1. /\ next \in Logs /\ next[0] = log[0] + 1
        /\ \A age \in Ages \ {0} : next[age] = log[age]
    BY AgesFinite DEF Logs
  <1> HIDE DEF next
  <1>2. \A T \in SUBSET Ages :
           SumFunctionOnSet(next, T) = SumFunctionOnSet(log, T) + (IF 0 \in T THEN 1 ELSE 0)
    BY <1>1, OneMoreInSpan
  <1> QED
    BY <1>1, <1>2 DEF next

\* A tick moves the requests of a span of ages to the span one tick older
LEMMA OlderSpan ==
    ASSUME NEW log \in Logs, NEW i \in Nat, NEW j \in Int, j < Ttl - 1
    PROVE  SumFunctionOnSet(Older(log), (i + 1)..(j + 1)) = SumFunctionOnSet(log, i..j)
  <1> DEFINE next == Older(log)
             F == {n \in Nat : i + n - 1 <= j =>
                      SumFunctionOnSet(next, (i + 1)..(i + n)) =
                          SumFunctionOnSet(log, i..(i + n - 1))}
  <1>1. \A age \in i..j : log[age] \in Nat /\ next[age + 1] = log[age]
    <2> SUFFICES ASSUME NEW age \in i..j
                 PROVE  log[age] \in Nat /\ next[age + 1] = log[age]
      OBVIOUS
    <2>1. age \in Ages /\ age + 1 \in Ages /\ age + 1 # 0 /\ age + 1 - 1 = age
      BY ThrottleAssumption DEF Ages
    <2>2. next[age + 1] = log[age + 1 - 1]
      BY <2>1 DEF Older
    <2> QED
      BY <2>1, <2>2 DEF Logs
  <1> HIDE DEF next
  <1>2. 0 \in F
    <2>1. (i + 1)..(i + 0) = {} /\ i..(i + 0 - 1) = {}
      OBVIOUS
    <2> QED
      BY <2>1, SumEmpty
  <1>3. ASSUME NEW n \in Nat, n \in F
        PROVE  n + 1 \in F
    <2> SUFFICES ASSUME i + n <= j
                 PROVE  SumFunctionOnSet(next, (i + 1)..(i + n + 1)) =
                            SumFunctionOnSet(log, i..(i + n))
      OBVIOUS
    <2>1. /\ (i + 1)..(i + n + 1) = ((i + 1)..(i + n)) \cup {i + n + 1}
          /\ i..(i + n) = (i..(i + n - 1)) \cup {i + n}
      OBVIOUS
    <2>2. /\ IsFiniteSet((i + 1)..(i + n)) /\ IsFiniteSet(i..(i + n - 1))
          /\ i + n + 1 \notin (i + 1)..(i + n) /\ i + n \notin i..(i + n - 1)
      BY FS_Interval
    <2>3. /\ \A age \in ((i + 1)..(i + n)) \cup {i + n + 1} : next[age] \in Nat
          /\ \A age \in (i..(i + n - 1)) \cup {i + n} : log[age] \in Nat
      <3>1. ASSUME NEW age \in (i + 1)..(i + n + 1)
            PROVE  next[age] \in Nat
        <4>1. age - 1 \in i..j /\ age = (age - 1) + 1
          OBVIOUS
        <4> QED
          BY <1>1, <4>1
      <3> QED
        BY <1>1, <2>1, <3>1
    <2>4. SumFunctionOnSet(next, (i + 1)..(i + n + 1)) =
              next[i + n + 1] + SumFunctionOnSet(next, (i + 1)..(i + n))
      BY <2>1, <2>2, <2>3, SumAdds
    <2>5. SumFunctionOnSet(log, i..(i + n)) =
              log[i + n] + SumFunctionOnSet(log, i..(i + n - 1))
      BY <2>1, <2>2, <2>3, SumAdds
    <2>6. next[i + n + 1] = log[i + n]
      BY <1>1
    <2> QED
      BY <1>3, <2>4, <2>5, <2>6
  <1> HIDE DEF F
  <1>4. \A n \in Nat : n \in F
    BY <1>2, <1>3, NaturalsInSet
  <1>5. CASE i <= j
    <2>1. j - i + 1 \in F /\ j - i + 1 \in Nat
      BY <1>4, <1>5
    <2>2. i + (j - i + 1) = j + 1 /\ i + (j - i + 1) - 1 = j
      OBVIOUS
    <2> QED
      BY <2>1, <2>2 DEF F, next
  <1>6. CASE i > j
    <2>1. (i + 1)..(j + 1) = {} /\ i..j = {}
      BY <1>6
    <2> QED
      BY <2>1, SumEmpty
  <1> QED
    BY <1>5, <1>6

\* Every span of a log holds a number of requests, a part of it no more
LEMMA SpansOfLog ==
    ASSUME NEW log \in Logs
    PROVE  /\ \A T \in SUBSET Ages : SumFunctionOnSet(log, T) \in Nat
           /\ \A T \in SUBSET Ages : \A U \in SUBSET T :
                 SumFunctionOnSet(log, U) <= SumFunctionOnSet(log, T)
  <1>1. \A T \in SUBSET Ages : IsFiniteSet(T) /\ \A age \in T : log[age] \in Nat
    BY AgesFinite, FS_Subset DEF Logs
  <1>2. \A T \in SUBSET Ages : SumFunctionOnSet(log, T) \in Nat
    BY <1>1, SumInNat
  <1>3. ASSUME NEW T \in SUBSET Ages, NEW U \in SUBSET T
        PROVE  SumFunctionOnSet(log, U) <= SumFunctionOnSet(log, T)
    BY <1>1, SumOfPart
  <1> QED
    BY <1>2, <1>3

\* A tick makes room at age 0
LEMMA OlderLog ==
    ASSUME NEW log \in Logs
    PROVE  /\ Older(log) \in Logs /\ Older(log)[0] = 0
           /\ \A k \in -1..(Ttl - 1) :
                 SumFunctionOnSet(Older(log), 0..k) = SumFunctionOnSet(log, 0..(k - 1))
           /\ Total(Older(log)) <= Total(log)
  <1> DEFINE next == Older(log)
  <1>1. next \in Logs /\ next[0] = 0
    <2>1. \A age \in Ages : age # 0 => age - 1 \in Ages
      BY ThrottleAssumption DEF Ages
    <2> QED
      BY <2>1, AgesFinite DEF Older, Logs
  <1>2. ASSUME NEW k \in -1..(Ttl - 1)
        PROVE  SumFunctionOnSet(next, 0..k) = SumFunctionOnSet(log, 0..(k - 1))
    <2>1. CASE k = -1
      <3>1. 0..k = {} /\ 0..(k - 1) = {}
        BY <2>1
      <3> QED
        BY <3>1, SumEmpty
    <2>2. CASE k # -1
      <3>1. /\ 0..k \in SUBSET Ages /\ IsFiniteSet(0..k) /\ 0 \in 0..k
            /\ (0..k) \ {0} = 1..k /\ k - 1 < Ttl - 1 /\ k \in Nat
        BY <2>2, AgesFinite, ThrottleAssumption DEF Ages
      <3> HIDE DEF next
      <3>2. \A age \in 0..k : next[age] \in Nat
        BY <1>1, <3>1 DEF Logs
      <3>3. SumFunctionOnSet(next, 0..k) = next[0] + SumFunctionOnSet(next, 1..k)
        BY <3>1, <3>2, SumSplits
      <3>4. SumFunctionOnSet(next, 1..k) = SumFunctionOnSet(log, 0..(k - 1))
        <4>1. PICK j \in Int : j = k - 1
          BY <3>1
        <4>2. j < Ttl - 1 /\ (0 + 1)..(j + 1) = 1..k
          BY <3>1, <4>1
        <4>3. SumFunctionOnSet(next, (0 + 1)..(j + 1)) = SumFunctionOnSet(log, 0..j)
          BY <4>2, OlderSpan DEF next
        <4> QED
          BY <4>1, <4>2, <4>3
      <3>5. SumFunctionOnSet(log, 0..(k - 1)) \in Nat
        <4>1. 0..(k - 1) \in SUBSET Ages
          BY <3>1, ThrottleAssumption DEF Ages
        <4> QED
          BY <4>1, SpansOfLog
      <3> QED
        BY <1>1, <3>3, <3>4, <3>5
    <2> QED
      BY <2>1, <2>2
  <1>3. Total(next) <= Total(log)
    <2>1. Ttl - 1 \in -1..(Ttl - 1) /\ 0..(Ttl - 1) = Ages
      BY ThrottleAssumption DEF Ages
    <2>2. 0..(Ttl - 1 - 1) \in SUBSET Ages
      BY ThrottleAssumption DEF Ages
    <2> HIDE DEF next
    <2>3. SumFunctionOnSet(next, Ages) = SumFunctionOnSet(log, 0..(Ttl - 1 - 1))
      BY <1>2, <2>1
    <2>4. SumFunctionOnSet(log, 0..(Ttl - 1 - 1)) <= SumFunctionOnSet(log, Ages)
      BY <2>2, SpansOfLog
    <2> QED
      BY <1>1, <2>3, <2>4, TotalIsSum
  <1> QED
    BY <1>1, <1>2, <1>3

-----------------------------------------------------------------------------
(* The fixed window in Redis *)

\* Above the limit the counter says no more than that
Capped(h) == IF h > Limit THEN Limit ELSE h

(***************************************************************************)
(* What Redis let in, as a log.  With l ticks to go the window is Ttl - l  *)
(* ticks old.  What it let in is counted by h; its first hit is as old as  *)
(* the window, so what came after is one less; and what is left of the     *)
(* windows before it is less than a whole one, as it is when no window     *)
(* runs.                                                                   *)
(***************************************************************************)
InWindow(log, h, l) ==
    /\ l = 0 => log[0] = 0 /\ SumFunctionOnSet(log, Ages) <= Limit - 1
    /\ l > 0 => /\ SumFunctionOnSet(log, 0..(Ttl - l)) <= Capped(h)
                /\ SumFunctionOnSet(log, 0..(Ttl - l - 1)) <= Capped(h) - 1
                /\ SumFunctionOnSet(log, (Ttl - l + 1)..(Ttl - 1)) <= Limit - 1

\* The counter and its time to live
Counter(h, l) == h \in 0..Limit + 1 /\ l \in 0..Ttl /\ (h > 0 <=> l > 0)

\* The three spans of a window are ages
LEMMA SpansAreAges ==
    ASSUME NEW l \in 1..Ttl
    PROVE  /\ 0..(Ttl - l) \in SUBSET Ages
           /\ 0..(Ttl - l - 1) \in SUBSET Ages
           /\ (Ttl - l + 1)..(Ttl - 1) \in SUBSET Ages
           /\ 0 \in 0..(Ttl - l) /\ 0 \notin (Ttl - l + 1)..(Ttl - 1)
  BY ThrottleAssumption DEF Ages

\* A hit that Redis counts and does not let in
LEMMA CountKeeps ==
    ASSUME NEW log \in Logs, NEW h, NEW l, Counter(h, l), InWindow(log, h, l)
    PROVE  LET h2 == IF h > Limit THEN h ELSE h + 1
               l2 == IF h = 0 THEN Ttl ELSE l
           IN  Counter(h2, l2) /\ InWindow(log, h2, l2)
  <1>1. Limit \in Nat \ {0} /\ Ttl \in Nat \ {0}
    BY ThrottleAssumption
  <1>2. PICK h2 : h2 = IF h > Limit THEN h ELSE h + 1
    OBVIOUS
  <1>3. PICK l2 : l2 = IF h = 0 THEN Ttl ELSE l
    OBVIOUS
  <1>4. Counter(h2, l2) /\ l2 \in 1..Ttl /\ l2 > 0 /\ l2 # 0
    BY <1>1, <1>2, <1>3 DEF Counter
  <1>5. CASE h = 0
    <2>1. l = 0 /\ l2 = Ttl /\ h2 = 1 /\ Capped(h2) = 1
      BY <1>1, <1>2, <1>3, <1>5 DEF Counter, Capped
    <2>2. log[0] = 0 /\ SumFunctionOnSet(log, Ages) <= Limit - 1
      BY <2>1 DEF InWindow
    <2>3. 0..(Ttl - l2) = {0} /\ 0..(Ttl - l2 - 1) = {}
      BY <1>1, <2>1
    <2>4. SumFunctionOnSet(log, {0}) = 0
      <3>1. \A age \in {} \cup {0} : log[age] \in Nat
        BY AgesFinite DEF Logs
      <3>2. SumFunctionOnSet(log, {} \cup {0}) = log[0] + SumFunctionOnSet(log, {})
        BY <3>1, FS_EmptySet, SumAdds
      <3>3. {} \cup {0} = {0}
        OBVIOUS
      <3> QED
        BY <2>2, <3>2, <3>3, SumEmpty
    <2>5. SumFunctionOnSet(log, {}) = 0
      BY SumEmpty
    <2>6. SumFunctionOnSet(log, (Ttl - l2 + 1)..(Ttl - 1)) <= Limit - 1
      <3>1. /\ SumFunctionOnSet(log, (Ttl - l2 + 1)..(Ttl - 1)) <= SumFunctionOnSet(log, Ages)
            /\ SumFunctionOnSet(log, (Ttl - l2 + 1)..(Ttl - 1)) \in Nat
            /\ SumFunctionOnSet(log, Ages) \in Nat
        BY <1>4, SpansAreAges, SpansOfLog
      <3> QED
        BY <1>1, <2>2, <3>1
    <2>7. /\ SumFunctionOnSet(log, 0..(Ttl - l2)) <= Capped(h2)
          /\ SumFunctionOnSet(log, 0..(Ttl - l2 - 1)) <= Capped(h2) - 1
      <3>1. /\ SumFunctionOnSet(log, 0..(Ttl - l2)) = 0
            /\ SumFunctionOnSet(log, 0..(Ttl - l2 - 1)) = 0
        BY <2>3, <2>4, <2>5, Zenon
      <3> QED
        BY <2>1, <3>1
    <2> QED
      BY <1>2, <1>3, <1>4, <2>6, <2>7 DEF InWindow
  <1>6. CASE h # 0
    <2>1. l2 = l
      BY <1>3, <1>6
    <2>2. Capped(h) \in Nat /\ Capped(h2) \in Nat /\ Capped(h) <= Capped(h2)
      BY <1>1, <1>2 DEF Capped, Counter
    <2>3. /\ SumFunctionOnSet(log, 0..(Ttl - l)) <= Capped(h)
          /\ SumFunctionOnSet(log, 0..(Ttl - l - 1)) <= Capped(h) - 1
          /\ SumFunctionOnSet(log, (Ttl - l + 1)..(Ttl - 1)) <= Limit - 1
      BY <1>4, <2>1 DEF InWindow
    <2>4. /\ SumFunctionOnSet(log, 0..(Ttl - l)) \in Nat
          /\ SumFunctionOnSet(log, 0..(Ttl - l - 1)) \in Nat
      BY <1>4, <2>1, SpansAreAges, SpansOfLog
    <2>5. /\ SumFunctionOnSet(log, 0..(Ttl - l)) <= Capped(h2)
          /\ SumFunctionOnSet(log, 0..(Ttl - l - 1)) <= Capped(h2) - 1
      BY <2>2, <2>3, <2>4
    <2> QED
      BY <1>2, <1>3, <1>4, <2>1, <2>3, <2>5 DEF InWindow
  <1> QED
    BY <1>5, <1>6

\* A hit that Redis counts and lets in, because the counter is within the limit
LEMMA CountAdmits ==
    ASSUME NEW log \in Logs, NEW h, NEW l, Counter(h, l), InWindow(log, h, l),
           (IF h > Limit THEN h ELSE h + 1) <= Limit
    PROVE  InWindow([log EXCEPT ![0] = @ + 1],
                    IF h > Limit THEN h ELSE h + 1, IF h = 0 THEN Ttl ELSE l)
  <1>1. Limit \in Nat \ {0} /\ Ttl \in Nat \ {0}
    BY ThrottleAssumption
  <1>2. PICK h2 : h2 = IF h > Limit THEN h ELSE h + 1
    OBVIOUS
  <1>3. PICK l2 : l2 = IF h = 0 THEN Ttl ELSE l
    OBVIOUS
  <1>4. PICK next : next = [log EXCEPT ![0] = @ + 1]
    OBVIOUS
  <1>5. l2 \in 1..Ttl /\ l2 > 0 /\ l2 # 0 /\ h2 = h + 1 /\ Capped(h2) = h + 1 /\ h \in Nat
    BY <1>1, <1>2, <1>3 DEF Counter, Capped
  <1>6. InWindow(log, h2, l2)
    BY <1>2, <1>3, CountKeeps
  <1>7. \A T \in SUBSET Ages :
           SumFunctionOnSet(next, T) = SumFunctionOnSet(log, T) + (IF 0 \in T THEN 1 ELSE 0)
    BY <1>4, OneMore
  <1>8. /\ SumFunctionOnSet(log, 0..(Ttl - l2)) \in Nat
        /\ SumFunctionOnSet(log, 0..(Ttl - l2 - 1)) \in Nat
        /\ SumFunctionOnSet(log, (Ttl - l2 + 1)..(Ttl - 1)) \in Nat
    BY <1>5, SpansAreAges, SpansOfLog
  <1>9. SumFunctionOnSet(next, (Ttl - l2 + 1)..(Ttl - 1)) <= Limit - 1
    <2>1. SumFunctionOnSet(next, (Ttl - l2 + 1)..(Ttl - 1)) =
              SumFunctionOnSet(log, (Ttl - l2 + 1)..(Ttl - 1)) + 0
      BY <1>5, <1>7, SpansAreAges
    <2>2. SumFunctionOnSet(log, (Ttl - l2 + 1)..(Ttl - 1)) <= Limit - 1
      BY <1>5, <1>6 DEF InWindow
    <2> QED
      BY <1>8, <2>1, <2>2
  <1>10. SumFunctionOnSet(log, 0..(Ttl - l2)) <= h
    <2>1. CASE h = 0
      <3>1. log[0] = 0 /\ l2 = Ttl
        BY <1>3, <2>1 DEF InWindow, Counter
      <3>2. 0..(Ttl - l2) = {} \cup {0}
        BY <1>1, <3>1
      <3>3. \A age \in {} \cup {0} : log[age] \in Nat
        BY AgesFinite DEF Logs
      <3>4. SumFunctionOnSet(log, {} \cup {0}) = log[0] + SumFunctionOnSet(log, {})
        BY <3>3, FS_EmptySet, SumAdds
      <3>5. SumFunctionOnSet(log, {} \cup {0}) = 0
        BY <3>1, <3>4, SumEmpty
      <3>6. SumFunctionOnSet(log, 0..(Ttl - l2)) = 0
        BY <3>2, <3>5, Zenon
      <3> QED
        BY <2>1, <3>6
    <2>2. CASE h # 0
      <3>1. l2 = l /\ Capped(h) = h
        BY <1>2, <1>3, <1>5, <2>2 DEF Capped
      <3> QED
        BY <1>5, <3>1 DEF InWindow
    <2> QED
      BY <2>1, <2>2
  <1>11. SumFunctionOnSet(next, 0..(Ttl - l2)) <= Capped(h2)
    <2>1. SumFunctionOnSet(next, 0..(Ttl - l2)) = SumFunctionOnSet(log, 0..(Ttl - l2)) + 1
      BY <1>5, <1>7, SpansAreAges
    <2> QED
      BY <1>5, <1>8, <1>10, <2>1
  <1>12. SumFunctionOnSet(next, 0..(Ttl - l2 - 1)) <= Capped(h2) - 1
    <2>1. CASE l2 = Ttl
      <3>1. 0..(Ttl - l2 - 1) = {}
        BY <1>1, <2>1
      <3>2. SumFunctionOnSet(next, 0..(Ttl - l2 - 1)) = 0
        BY <3>1, SumEmpty, Zenon
      <3> QED
        BY <1>5, <3>2
    <2>2. CASE l2 # Ttl
      <3>1. 0 \in 0..(Ttl - l2 - 1) /\ h # 0 /\ l2 = l /\ Capped(h) = h
        BY <1>1, <1>2, <1>3, <1>5, <2>2 DEF Capped
      <3>2. SumFunctionOnSet(next, 0..(Ttl - l2 - 1)) =
                SumFunctionOnSet(log, 0..(Ttl - l2 - 1)) + 1
        BY <1>5, <1>7, <3>1, SpansAreAges
      <3>3. SumFunctionOnSet(log, 0..(Ttl - l2 - 1)) <= h - 1
        BY <1>5, <3>1 DEF InWindow
      <3> QED
        BY <1>5, <1>8, <3>2, <3>3
    <2> QED
      BY <2>1, <2>2
  <1>13. InWindow(next, h2, l2)
    BY <1>5, <1>9, <1>11, <1>12 DEF InWindow
  <1> QED
    BY <1>2, <1>3, <1>4, <1>13

\* A tick: the window goes on, or ends and leaves less than a whole one
LEMMA WindowTicks ==
    ASSUME NEW log \in Logs, NEW h, NEW l, Counter(h, l), InWindow(log, h, l)
    PROVE  LET h2 == IF l = 1 THEN 0 ELSE h
               l2 == IF l = 0 THEN 0 ELSE l - 1
           IN  Counter(h2, l2) /\ InWindow(Older(log), h2, l2)
  <1>1. Limit \in Nat \ {0} /\ Ttl \in Nat \ {0} /\ Ages = 0..(Ttl - 1)
    BY ThrottleAssumption DEF Ages
  <1>2. PICK h2 : h2 = IF l = 1 THEN 0 ELSE h
    OBVIOUS
  <1>3. PICK l2 : l2 = IF l = 0 THEN 0 ELSE l - 1
    OBVIOUS
  <1>4. PICK next : next = Older(log)
    OBVIOUS
  <1>5. Counter(h2, l2) /\ l2 \in 0..Ttl
    BY <1>1, <1>2, <1>3 DEF Counter
  <1>6. /\ next \in Logs /\ next[0] = 0 /\ Total(next) <= Total(log)
        /\ \A k \in -1..(Ttl - 1) :
              SumFunctionOnSet(next, 0..k) = SumFunctionOnSet(log, 0..(k - 1))
    BY <1>4, OlderLog
  <1>7. Capped(h) \in Nat /\ Capped(h) <= Limit
    BY <1>1 DEF Capped, Counter
  <1>8. CASE l = 0
    <2>1. l2 = 0 /\ SumFunctionOnSet(log, Ages) <= Limit - 1
      BY <1>3, <1>8 DEF InWindow
    <2>2. SumFunctionOnSet(next, Ages) <= Limit - 1
      BY <1>1, <1>6, <2>1, TotalIsSum
    <2> QED
      BY <1>2, <1>3, <1>4, <1>5, <1>6, <2>1, <2>2 DEF InWindow
  <1>9. CASE l = 1
    <2>1. l2 = 0 /\ SumFunctionOnSet(log, 0..(Ttl - 1 - 1)) <= Capped(h) - 1
      BY <1>3, <1>9 DEF InWindow
    <2>2. SumFunctionOnSet(next, 0..(Ttl - 1)) = SumFunctionOnSet(log, 0..(Ttl - 1 - 1))
      BY <1>1, <1>6
    <2>3. 0..(Ttl - 1 - 1) \in SUBSET Ages
      BY <1>1
    <2>4. SumFunctionOnSet(log, 0..(Ttl - 1 - 1)) \in Nat
      BY <2>3, SpansOfLog
    <2>5. SumFunctionOnSet(next, Ages) <= Limit - 1
      BY <1>1, <1>7, <2>1, <2>2, <2>4
    <2> QED
      BY <1>2, <1>3, <1>4, <1>5, <1>6, <2>1, <2>5 DEF InWindow
  <1>10. CASE l > 1
    <2>1. l \in 2..Ttl /\ l2 = l - 1 /\ h2 = h
      BY <1>1, <1>2, <1>3, <1>10 DEF Counter
    <2>2. /\ SumFunctionOnSet(log, 0..(Ttl - l)) <= Capped(h)
          /\ SumFunctionOnSet(log, 0..(Ttl - l - 1)) <= Capped(h) - 1
          /\ SumFunctionOnSet(log, (Ttl - l + 1)..(Ttl - 1)) <= Limit - 1
      BY <1>10 DEF InWindow, Counter
    <2>3. PICK s \in 0..(Ttl - 2) : s = Ttl - l
      BY <1>1, <2>1
    <2>4. Ttl - l2 = s + 1 /\ Ttl - l2 - 1 = s /\ Ttl - l2 + 1 = s + 2
      BY <1>1, <2>1, <2>3
    <2>5. SumFunctionOnSet(next, 0..(s + 1)) = SumFunctionOnSet(log, 0..s)
      <3>1. s + 1 \in -1..(Ttl - 1) /\ s + 1 - 1 = s
        BY <1>1
      <3> QED
        BY <1>6, <3>1
    <2>6. SumFunctionOnSet(next, 0..s) = SumFunctionOnSet(log, 0..(s - 1))
      <3>1. s \in -1..(Ttl - 1)
        BY <1>1
      <3> QED
        BY <1>6, <3>1
    <2>7. SumFunctionOnSet(next, (s + 2)..(Ttl - 1)) <= Limit - 1
      <3>1. PICK i \in Nat : i = s + 1
        OBVIOUS
      <3>2. PICK j \in Int : j = Ttl - 2
        BY <1>1
      <3>3. (i + 1)..(j + 1) = (s + 2)..(Ttl - 1) /\ j < Ttl - 1
        BY <1>1, <3>1, <3>2
      <3>4. SumFunctionOnSet(next, (i + 1)..(j + 1)) = SumFunctionOnSet(log, i..j)
        BY <1>4, <3>3, OlderSpan
      <3>5. i..j \in SUBSET ((s + 1)..(Ttl - 1)) /\ (s + 1)..(Ttl - 1) \in SUBSET Ages
        BY <1>1, <3>1, <3>2
      <3>6. i..j \in SUBSET Ages
        BY <3>5
      <3>7. /\ SumFunctionOnSet(log, i..j) <= SumFunctionOnSet(log, (s + 1)..(Ttl - 1))
            /\ SumFunctionOnSet(log, i..j) \in Nat
            /\ SumFunctionOnSet(log, (s + 1)..(Ttl - 1)) \in Nat
        BY <3>5, <3>6, SpansOfLog
      <3>8. SumFunctionOnSet(log, (s + 1)..(Ttl - 1)) <= Limit - 1
        BY <2>2, <2>3
      <3>9. SumFunctionOnSet(next, (s + 2)..(Ttl - 1)) = SumFunctionOnSet(log, i..j)
        BY <3>3, <3>4, Zenon
      <3> QED
        BY <1>1, <3>7, <3>8, <3>9
    <2>8. /\ SumFunctionOnSet(next, 0..(s + 1)) <= Capped(h2)
          /\ SumFunctionOnSet(next, 0..s) <= Capped(h2) - 1
      <3>1. /\ SumFunctionOnSet(log, 0..s) <= Capped(h)
            /\ SumFunctionOnSet(log, 0..(s - 1)) <= Capped(h) - 1
        BY <2>2, <2>3
      <3> QED
        BY <2>1, <2>5, <2>6, <3>1
    <2>9. l2 # 0
      BY <2>1
    <2>10. InWindow(next, h2, l2)
      BY <2>4, <2>7, <2>8, <2>9 DEF InWindow
    <2> QED
      BY <1>2, <1>3, <1>4, <1>5, <2>10
  <1> QED
    BY <1>8, <1>9, <1>10 DEF Counter

-----------------------------------------------------------------------------
(* What was let in is what Redis let in and what the replicas counted *)

\* What the replicas have of one age in their memory
InMemory(logs, age) == SumFunctionOnSet([n \in Replicas |-> logs[n][age]], Replicas)

\* What Redis let in: the rest of what was let in
ByRedis(log, logs) == [age \in Ages |-> log[age] - InMemory(logs, age)]

\* The memories after replica n has counted a request
Counted(logs, n) == [logs EXCEPT ![n][0] = @ + 1]

\* What is in memory at an age is a number, and grows and ages as the memories do
LEMMA MemoryStep ==
    ASSUME NEW logs \in [Replicas -> Logs], NEW age \in Ages
    PROVE  /\ InMemory(logs, age) \in Nat
           /\ (\A n \in Replicas : logs[n][age] = 0) => InMemory(logs, age) = 0
           /\ \A n \in Replicas : logs[n][age] <= InMemory(logs, age)
           /\ \A n \in Replicas :
                 InMemory(Counted(logs, n), age) =
                     InMemory(logs, age) + (IF age = 0 THEN 1 ELSE 0)
  <1>1. IsFiniteSet(Replicas)
    BY ThrottleAssumption
  <1>2. PICK column : column = [n \in Replicas |-> logs[n][age]]
    OBVIOUS
  <1>3. \A n \in Replicas : column[n] \in Nat /\ column[n] = logs[n][age]
    BY <1>2 DEF Logs
  <1>4. InMemory(logs, age) = SumFunctionOnSet(column, Replicas)
    BY <1>2 DEF InMemory
  <1>5. InMemory(logs, age) \in Nat
    BY <1>1, <1>3, <1>4, SumInNat
  <1>6. ASSUME \A n \in Replicas : logs[n][age] = 0
        PROVE  InMemory(logs, age) = 0
    <2>1. \A n \in Replicas : column[n] \in 0..0
      BY <1>3, <1>6
    <2>2. SumFunctionOnSet(column, Replicas) <= Cardinality(Replicas) * 0
      BY <1>1, <2>1, SumBound
    <2>3. Cardinality(Replicas) * 0 = 0
      BY <1>1, FS_CardinalityType
    <2> QED
      BY <1>4, <1>5, <2>2, <2>3
  <1>7. ASSUME NEW n \in Replicas
        PROVE  logs[n][age] <= InMemory(logs, age)
    <2>1. SumFunctionOnSet(column, Replicas) =
              column[n] + SumFunctionOnSet(column, Replicas \ {n})
      BY <1>1, <1>3, SumSplits
    <2>2. SumFunctionOnSet(column, Replicas \ {n}) \in Nat
      <3>1. IsFiniteSet(Replicas \ {n}) /\ \A m \in Replicas \ {n} : column[m] \in Nat
        BY <1>1, <1>3, FS_RemoveElement
      <3> QED
        BY <3>1, SumInNat
    <2> QED
      BY <1>3, <1>4, <2>1, <2>2
  <1>8. ASSUME NEW n \in Replicas
        PROVE  InMemory(Counted(logs, n), age) =
                   InMemory(logs, age) + (IF age = 0 THEN 1 ELSE 0)
    <2>1. PICK logs2 : logs2 = Counted(logs, n)
      OBVIOUS
    <2>2. PICK column2 : column2 = [m \in Replicas |-> logs2[m][age]]
      OBVIOUS
    <2>3. InMemory(logs2, age) = SumFunctionOnSet(column2, Replicas)
      BY <2>2 DEF InMemory
    <2>4. /\ column2[n] = column[n] + (IF age = 0 THEN 1 ELSE 0)
          /\ \A m \in Replicas \ {n} : column2[m] = column[m]
      BY <1>3, <2>1, <2>2 DEF Logs, Counted
    <2>5. \A m \in Replicas : column2[m] \in Nat
      BY <1>3, <2>4
    <2>6. PICK rest : rest = Replicas \ {n}
      OBVIOUS
    <2>7. IsFiniteSet(rest)
      BY <1>1, <2>6, FS_RemoveElement
    <2>8. \A m \in rest : column2[m] \in Nat /\ column2[m] = column[m] /\ column[m] \in Nat
      BY <1>3, <2>4, <2>5, <2>6
    <2>9. SumFunctionOnSet(column2, rest) = SumFunctionOnSet(column, rest)
      BY <2>7, <2>8, SumEqual
    <2>10. SumFunctionOnSet(column, rest) \in Nat
      BY <2>7, <2>8, SumInNat
    <2>11. /\ SumFunctionOnSet(column2, Replicas) = column2[n] + SumFunctionOnSet(column2, rest)
           /\ SumFunctionOnSet(column, Replicas) = column[n] + SumFunctionOnSet(column, rest)
      BY <1>1, <1>3, <2>5, <2>6, SumSplits
    <2>12. InMemory(logs2, age) = InMemory(logs, age) + (IF age = 0 THEN 1 ELSE 0)
      BY <1>3, <1>4, <2>3, <2>4, <2>9, <2>10, <2>11
    <2> QED
      BY <2>1, <2>12
  <1> QED
    BY <1>5, <1>6, <1>7, <1>8

\* All that was let in: what Redis let in, and what each replica counted
LEMMA AllThatWasLetIn ==
    ASSUME NEW log \in Logs, NEW logs \in [Replicas -> Logs],
           ByRedis(log, logs) \in Logs
    PROVE  Total(log) = SumFunctionOnSet(ByRedis(log, logs), Ages)
                        + SumFunctionOnSet([n \in Replicas |-> Total(logs[n])], Replicas)
  <1>1. IsFiniteSet(Replicas) /\ IsFiniteSet(Ages)
    BY ThrottleAssumption, AgesFinite
  <1>2. PICK f, g : /\ f = ByRedis(log, logs)
                    /\ g = [age \in Ages |-> InMemory(logs, age)]
    OBVIOUS
  <1>3. \A age \in Ages : f[age] \in Nat /\ g[age] \in Nat /\ log[age] = f[age] + g[age]
    BY <1>2, MemoryStep DEF ByRedis, Logs
  <1>4. SumFunctionOnSet(log, Ages) = SumFunctionOnSet(f, Ages) + SumFunctionOnSet(g, Ages)
    BY <1>1, <1>3, SumOfSums
  <1>5. \A n \in Replicas : \A age \in Ages : logs[n][age] \in Nat
    BY DEF Logs
  <1>6. SumFunctionOnSet([age \in Ages |->
            SumFunctionOnSet([n \in Replicas |-> logs[n][age]], Replicas)], Ages)
            = SumFunctionOnSet([n \in Replicas |-> SumFunctionOnSet(logs[n], Ages)], Replicas)
    BY <1>1, <1>5, SumExchange
  <1>7. g = [age \in Ages |->
                SumFunctionOnSet([n \in Replicas |-> logs[n][age]], Replicas)]
    BY <1>2 DEF InMemory
  <1>8. [n \in Replicas |-> SumFunctionOnSet(logs[n], Ages)]
            = [n \in Replicas |-> Total(logs[n])]
    <2>1. \A n \in Replicas : SumFunctionOnSet(logs[n], Ages) = Total(logs[n])
      BY TotalIsSum
    <2> QED
      BY <2>1
  <1>9. SumFunctionOnSet(g, Ages) =
            SumFunctionOnSet([n \in Replicas |-> Total(logs[n])], Replicas)
    BY <1>6, <1>7, <1>8, Zenon
  <1>10. Total(log) = SumFunctionOnSet(log, Ages)
    BY TotalIsSum
  <1> QED
    BY <1>2, <1>4, <1>9, <1>10, Zenon

\* What Redis let in, after it let in one more, a replica did, or time passed
LEMMA ByRedisSteps ==
    ASSUME NEW log \in Logs, NEW logs \in [Replicas -> Logs], ByRedis(log, logs) \in Logs
    PROVE  /\ ByRedis([log EXCEPT ![0] = @ + 1], logs) =
                  [ByRedis(log, logs) EXCEPT ![0] = @ + 1]
           /\ \A n \in Replicas :
                 ByRedis([log EXCEPT ![0] = @ + 1], Counted(logs, n)) =
                     ByRedis(log, logs)
           /\ ByRedis(Older(log), [n \in Replicas |-> Older(logs[n])]) =
                  Older(ByRedis(log, logs))
  <1>1. PICK f : f = ByRedis(log, logs)
    OBVIOUS
  <1>2. \A age \in Ages : /\ log[age] \in Nat /\ InMemory(logs, age) \in Nat
                          /\ f[age] = log[age] - InMemory(logs, age) /\ f[age] \in Nat
    BY <1>1, MemoryStep DEF ByRedis, Logs
  <1>3. PICK log2 : log2 = [log EXCEPT ![0] = @ + 1]
    OBVIOUS
  <1>4. \A age \in Ages : log2[age] = log[age] + (IF age = 0 THEN 1 ELSE 0)
    BY <1>2, <1>3 DEF Logs
  <1>5. ByRedis(log2, logs) = [f EXCEPT ![0] = @ + 1]
    <2>1. \A age \in Ages : log2[age] - InMemory(logs, age) = [f EXCEPT ![0] = @ + 1][age]
      BY <1>1, <1>2, <1>4 DEF Logs
    <2>2. [f EXCEPT ![0] = @ + 1] = [age \in Ages |-> [f EXCEPT ![0] = @ + 1][age]]
      BY <1>1 DEF Logs
    <2> QED
      BY <2>1, <2>2 DEF ByRedis
  <1>6. ASSUME NEW n \in Replicas
        PROVE  ByRedis(log2, Counted(logs, n)) = f
    <2>1. PICK logs2 : logs2 = Counted(logs, n)
      OBVIOUS
    <2>2. \A age \in Ages : InMemory(logs2, age) =
                                InMemory(logs, age) + (IF age = 0 THEN 1 ELSE 0)
      BY <2>1, MemoryStep
    <2>3. \A age \in Ages : log2[age] - InMemory(logs2, age) = f[age]
      BY <1>2, <1>4, <2>2
    <2>4. f = [age \in Ages |-> f[age]]
      BY <1>1 DEF ByRedis
    <2>5. ByRedis(log2, logs2) = f
      BY <2>3, <2>4 DEF ByRedis
    <2> QED
      BY <2>1, <2>5
  <1>7. ByRedis(Older(log), [n \in Replicas |-> Older(logs[n])]) = Older(f)
    <2>1. PICK logs2 : logs2 = [n \in Replicas |-> Older(logs[n])]
      OBVIOUS
    <2>2. logs2 \in [Replicas -> Logs] /\ \A n \in Replicas : logs2[n][0] = 0
      BY <2>1, OlderLog
    <2>3. ASSUME NEW age \in Ages
          PROVE  Older(log)[age] - InMemory(logs2, age) = Older(f)[age]
      <3>1. CASE age = 0
        <4>1. Older(log)[0] = 0 /\ Older(f)[0] = 0
          BY <1>1, OlderLog
        <4>2. InMemory(logs2, 0) = 0
          BY <2>2, AgesFinite, MemoryStep
        <4> QED
          BY <3>1, <4>1, <4>2
      <3>2. CASE age # 0
        <4>1. age - 1 \in Ages
          BY <3>2, ThrottleAssumption DEF Ages
        <4>2. \A n \in Replicas : logs2[n][age] = logs[n][age - 1]
          BY <2>1, <3>2 DEF Older
        <4>3. InMemory(logs2, age) = InMemory(logs, age - 1)
          BY <4>2 DEF InMemory
        <4>4. Older(log)[age] = log[age - 1] /\ Older(f)[age] = f[age - 1]
          BY <3>2 DEF Older
        <4> QED
          BY <1>2, <4>1, <4>3, <4>4
      <3> QED
        BY <3>1, <3>2
    <2>4. Older(f) = [age \in Ages |-> Older(f)[age]]
      BY DEF Older
    <2>5. ByRedis(Older(log), logs2) = Older(f)
      BY <2>3, <2>4 DEF ByRedis
    <2> QED
      BY <2>1, <2>5
  <1> QED
    BY <1>1, <1>3, <1>5, <1>6, <1>7

-----------------------------------------------------------------------------
(* The invariant *)

\* Each replica counts within the limit, and nothing while Redis counts all
MemoryInv ==
    /\ memory \in [Replicas -> Logs]
    /\ \A n \in Replicas : Total(memory[n]) <= Limit
    /\ counted => \A n \in Replicas : memory[n] = Nobody

\* What was let in and not counted in memory is what the window in Redis let in
RedisInv ==
    /\ Counter(hits, left)
    /\ admitted \in Logs
    /\ ByRedis(admitted, memory) \in Logs
    /\ InWindow(ByRedis(admitted, memory), hits, left)

ThrottleInv ==
    /\ ready \subseteq Replicas
    /\ counted \in BOOLEAN
    /\ MemoryInv
    /\ RedisInv

\* At first nothing has been let in and no window runs
LEMMA InitThrottleInv == Init => ThrottleInv
  <1> SUFFICES ASSUME Init
               PROVE  ThrottleInv
    OBVIOUS
  <1>0. Limit \in Nat \ {0} /\ Ttl \in Nat \ {0}
    BY ThrottleAssumption
  <1>1. hits = 0 /\ left = 0 /\ admitted = Nobody /\ counted = TRUE /\ ready \subseteq Replicas
    BY DEF Init
  <1>2. memory \in [Replicas -> Logs] /\ \A n \in Replicas : memory[n] = Nobody
    BY NobodyTotal DEF Init
  <1>3. ByRedis(admitted, memory) = Nobody
    <2>1. ASSUME NEW age \in Ages
          PROVE  Nobody[age] - InMemory(memory, age) = 0
      <3>1. \A n \in Replicas : memory[n][age] = 0
        BY <1>2 DEF Nobody
      <3>2. InMemory(memory, age) = 0
        BY <1>2, <3>1, MemoryStep
      <3> QED
        BY <3>2 DEF Nobody
    <2> QED
      BY <1>1, <2>1 DEF ByRedis, Nobody
  <1>4. MemoryInv
    BY <1>0, <1>2, NobodyTotal DEF MemoryInv
  <1>5. InWindow(Nobody, 0, 0)
    <2>1. SumFunctionOnSet(Nobody, Ages) = 0 /\ Nobody[0] = 0
      BY AgesFinite, NobodyTotal, TotalIsSum DEF Nobody
    <2> QED
      BY <1>0, <2>1 DEF InWindow
  <1>6. Counter(0, 0)
    BY <1>0 DEF Counter
  <1>7. RedisInv
    BY <1>1, <1>3, <1>5, <1>6, NobodyTotal DEF RedisInv
  <1> QED
    BY <1>1, <1>4, <1>7 DEF ThrottleInv

\* A hit that Redis counts
LEMMA HitRedisKeeps ==
    ASSUME ThrottleInv, NEW n \in Replicas, HitRedis(n)
    PROVE  ThrottleInv'
  <1>1. /\ Count /\ UNCHANGED <<ready, memory, counted>>
        /\ hits' > Limit => UNCHANGED admitted
        /\ ~(hits' > Limit) => LetIn
    BY DEF HitRedis
  <1>2. /\ hits' = IF hits > Limit THEN hits ELSE hits + 1
        /\ left' = IF hits = 0 THEN Ttl ELSE left
    BY <1>1 DEF Count
  <1>3. /\ Counter(hits, left) /\ admitted \in Logs /\ memory \in [Replicas -> Logs]
        /\ ByRedis(admitted, memory) \in Logs
        /\ InWindow(ByRedis(admitted, memory), hits, left)
    BY DEF ThrottleInv, RedisInv, MemoryInv
  <1>4. Counter(hits', left') /\ InWindow(ByRedis(admitted, memory), hits', left')
    BY <1>2, <1>3, CountKeeps
  <1>5. CASE hits' > Limit
    <2>1. admitted' = admitted /\ memory' = memory
      BY <1>1, <1>5
    <2> QED
      BY <1>1, <1>3, <1>4, <2>1 DEF ThrottleInv, MemoryInv, RedisInv
  <1>6. CASE ~(hits' > Limit)
    <2>1. admitted' = [admitted EXCEPT ![0] = @ + 1] /\ memory' = memory
      BY <1>1, <1>6 DEF LetIn
    <2>2. hits' <= Limit
      BY <1>4, <1>6, ThrottleAssumption DEF Counter
    <2>3. InWindow([ByRedis(admitted, memory) EXCEPT ![0] = @ + 1], hits', left')
      BY <1>2, <1>3, <2>2, CountAdmits
    <2>4. ByRedis(admitted', memory') = [ByRedis(admitted, memory) EXCEPT ![0] = @ + 1]
      BY <1>3, <2>1, ByRedisSteps
    <2>5. ByRedis(admitted', memory') \in Logs /\ admitted' \in Logs
      BY <1>3, <2>1, <2>4, OneMore
    <2> QED
      BY <1>1, <1>3, <1>4, <2>1, <2>3, <2>4, <2>5 DEF ThrottleInv, MemoryInv, RedisInv
  <1> QED
    BY <1>5, <1>6

\* A hit that a replica counts in its memory, whether or not Redis counted it too
LEMMA HitMemoryKeeps ==
    ASSUME ThrottleInv, NEW n \in Replicas, HitMemory(n)
    PROVE  ThrottleInv'
  <1>1. /\ CountInMemory(n) /\ ready' = ready
        /\ Count \/ UNCHANGED <<hits, left>>
    BY DEF HitMemory
  <1>2. /\ Counter(hits, left) /\ admitted \in Logs /\ memory \in [Replicas -> Logs]
        /\ ByRedis(admitted, memory) \in Logs
        /\ InWindow(ByRedis(admitted, memory), hits, left)
    BY DEF ThrottleInv, RedisInv, MemoryInv
  <1>3. Counter(hits', left') /\ InWindow(ByRedis(admitted, memory), hits', left')
    <2>1. CASE Count
      <3>1. /\ hits' = IF hits > Limit THEN hits ELSE hits + 1
            /\ left' = IF hits = 0 THEN Ttl ELSE left
        BY <2>1 DEF Count
      <3> QED
        BY <1>2, <3>1, CountKeeps
    <2>2. CASE UNCHANGED <<hits, left>>
      BY <1>2, <2>2
    <2> QED
      BY <1>1, <2>1, <2>2
  <1>4. CASE Total(memory[n]) < Limit
    <2>1. /\ memory' = [memory EXCEPT ![n][0] = @ + 1]
          /\ admitted' = [admitted EXCEPT ![0] = @ + 1]
          /\ counted' = FALSE
      BY <1>1, <1>4 DEF CountInMemory, LetIn
    <2>2. ByRedis(admitted', memory') = ByRedis(admitted, memory)
      <3>1. ByRedis([admitted EXCEPT ![0] = @ + 1], Counted(memory, n)) =
                ByRedis(admitted, memory)
        BY <1>2, ByRedisSteps
      <3> QED
        BY <2>1, <3>1 DEF Counted
    <2>3. admitted' \in Logs
      BY <1>2, <2>1, OneMore
    <2>4. PICK own : own = [memory[n] EXCEPT ![0] = @ + 1]
      OBVIOUS
    <2>5. own \in Logs /\ Total(own) = Total(memory[n]) + 1
      <3>1. own \in Logs /\ SumFunctionOnSet(own, Ages) =
                                SumFunctionOnSet(memory[n], Ages) + (IF 0 \in Ages THEN 1 ELSE 0)
        BY <1>2, <2>4, OneMore
      <3> QED
        BY <1>2, <3>1, AgesFinite, TotalIsSum
    <2>6. memory' = [memory EXCEPT ![n] = own]
      BY <1>2, <2>1, <2>4
    <2>7. memory'[n] = own /\ \A m \in Replicas : m # n => memory'[m] = memory[m]
      BY <1>2, <2>6
    <2>8. memory' \in [Replicas -> Logs]
      BY <1>2, <2>5, <2>6
    <2>9. \A m \in Replicas : Total(memory'[m]) <= Limit
      <3>1. Total(own) <= Limit
        BY <1>2, <1>4, <2>5, TotalIsSum, ThrottleAssumption
      <3> QED
        BY <2>7, <3>1 DEF ThrottleInv, MemoryInv
    <2>10. MemoryInv'
      BY <2>1, <2>8, <2>9 DEF MemoryInv
    <2>11. RedisInv'
      BY <1>2, <1>3, <2>2, <2>3 DEF RedisInv
    <2> QED
      BY <1>1, <2>1, <2>10, <2>11 DEF ThrottleInv
  <1>5. CASE ~(Total(memory[n]) < Limit)
    <2>1. UNCHANGED <<memory, counted, admitted>>
      BY <1>1, <1>5 DEF CountInMemory
    <2> QED
      BY <1>1, <1>2, <1>3, <2>1 DEF ThrottleInv, MemoryInv, RedisInv
  <1> QED
    BY <1>4, <1>5

\* A tick
LEMMA TickKeeps ==
    ASSUME ThrottleInv, Tick
    PROVE  ThrottleInv'
  <1>1. /\ Counter(hits, left) /\ admitted \in Logs /\ memory \in [Replicas -> Logs]
        /\ ByRedis(admitted, memory) \in Logs
        /\ InWindow(ByRedis(admitted, memory), hits, left)
        /\ \A n \in Replicas : Total(memory[n]) <= Limit
        /\ counted => \A n \in Replicas : memory[n] = Nobody
    BY DEF ThrottleInv, RedisInv, MemoryInv
  <1>2. /\ left' = IF left = 0 THEN 0 ELSE left - 1
        /\ hits' = IF left = 1 THEN 0 ELSE hits
        /\ memory' = [n \in Replicas |-> Older(memory[n])]
        /\ admitted' = Older(admitted)
        /\ counted' = (counted \/ Total(admitted') = 0)
        /\ ready' = ready
    BY DEF Tick
  <1>3. ByRedis(admitted', memory') = Older(ByRedis(admitted, memory))
    BY <1>1, <1>2, ByRedisSteps
  <1>4. /\ admitted' \in Logs /\ ByRedis(admitted', memory') \in Logs
        /\ memory' \in [Replicas -> Logs]
    BY <1>1, <1>2, <1>3, OlderLog
  <1>5. Counter(hits', left') /\ InWindow(ByRedis(admitted', memory'), hits', left')
    BY <1>1, <1>2, <1>3, WindowTicks
  <1>6. \A n \in Replicas : Total(memory'[n]) <= Limit
    <2> SUFFICES ASSUME NEW n \in Replicas
                 PROVE  Total(memory'[n]) <= Limit
      OBVIOUS
    <2>1. memory'[n] = Older(memory[n]) /\ memory[n] \in Logs
      BY <1>1, <1>2
    <2>2. /\ Total(Older(memory[n])) <= Total(memory[n])
          /\ Total(Older(memory[n])) \in Nat /\ Total(memory[n]) \in Nat
      BY <2>1, OlderLog, TotalIsSum
    <2> QED
      BY <1>1, <2>1, <2>2, ThrottleAssumption
  <1>7. ASSUME counted', NEW n \in Replicas
        PROVE  memory'[n] = Nobody
    <2>1. CASE counted
      <3>1. memory[n] = Nobody /\ memory'[n] = Older(memory[n])
        BY <1>1, <1>2, <2>1
      <3>2. Total(Older(Nobody)) <= Total(Nobody) /\ Older(Nobody) \in Logs
        BY NobodyTotal, OlderLog
      <3>3. Total(Older(Nobody)) = 0
        BY <3>2, NobodyTotal, TotalIsSum
      <3> QED
        BY <3>1, <3>2, <3>3, NobodyTotal
    <2>2. CASE Total(admitted') = 0
      <3>1. admitted' = Nobody
        BY <1>4, <2>2, NobodyTotal
      <3>2. ASSUME NEW age \in Ages
            PROVE  memory'[n][age] = 0
        <4>1. PICK log, logs, f : log = admitted' /\ logs = memory' /\ f = ByRedis(log, logs)
          OBVIOUS
        <4>2. f \in Logs /\ log = Nobody /\ logs \in [Replicas -> Logs]
          BY <1>4, <3>1, <4>1
        <4>3. f[age] = log[age] - InMemory(logs, age) /\ log[age] = 0 /\ f[age] \in Nat
          BY <4>1, <4>2 DEF ByRedis, Nobody, Logs
        <4>4. /\ InMemory(logs, age) \in Nat /\ logs[n][age] <= InMemory(logs, age)
              /\ logs[n][age] \in Nat
          BY <4>2, MemoryStep DEF Logs
        <4> QED
          BY <4>1, <4>3, <4>4
      <3>3. memory'[n] \in Logs
        BY <1>4
      <3> QED
        BY <3>2, <3>3 DEF Logs, Nobody
    <2> QED
      BY <1>2, <1>7, <2>1, <2>2
  <1>8. counted' \in BOOLEAN
    BY <1>2 DEF ThrottleInv
  <1>9. MemoryInv'
    BY <1>4, <1>6, <1>7 DEF MemoryInv
  <1>10. RedisInv'
    BY <1>4, <1>5 DEF RedisInv
  <1> QED
    BY <1>2, <1>8, <1>9, <1>10 DEF ThrottleInv

LEMMA StepThrottleInv == ThrottleInv /\ [Next]_vars => ThrottleInv'
  <1> SUFFICES ASSUME ThrottleInv, [Next]_vars
               PROVE  ThrottleInv'
    OBVIOUS
  <1>1. ASSUME NEW n \in Replicas, Hit(n)
        PROVE  ThrottleInv'
    BY <1>1, HitRedisKeeps, HitMemoryKeeps DEF Hit
  <1>2. ASSUME NEW n \in Replicas, Connection(n)
        PROVE  ThrottleInv'
    <2>1. ready' \subseteq Replicas /\ UNCHANGED <<hits, left, memory, admitted, counted>>
      BY <1>2 DEF Connection, ThrottleInv
    <2> QED
      BY <2>1 DEF ThrottleInv, MemoryInv, RedisInv
  <1>3. CASE UNCHANGED vars
    BY <1>3 DEF vars, ThrottleInv, MemoryInv, RedisInv
  <1> QED
    BY <1>1, <1>2, <1>3, TickKeeps DEF Next

(***************************************************************************)
(* What was let in and not counted in memory was let in by the window that *)
(* runs in Redis or is left of the one before; inductive.                  *)
(***************************************************************************)
THEOREM ThrottleInvariant == Spec => []ThrottleInv
  BY InitThrottleInv, StepThrottleInv, PTL DEF Spec

(***************************************************************************)
(* For any number of replicas, limit and window the key in Redis has a     *)
(* time to live as long as it counts, and no replica's memory holds more   *)
(* than the limit.                                                         *)
(***************************************************************************)
THEOREM ThrottleTypes == Spec => []TypeOK
  <1>1. ThrottleInv => TypeOK
    <2> SUFFICES ASSUME ThrottleInv
                 PROVE  TypeOK
      OBVIOUS
    <2>1. ASSUME NEW n \in Replicas, NEW age \in Ages
          PROVE  memory[n][age] \in 0..Limit
      <3>1. memory[n] \in Logs /\ Total(memory[n]) <= Limit
        BY DEF ThrottleInv, MemoryInv
      <3>2. \A i \in Ages : memory[n][i] \in Nat
        BY <3>1 DEF Logs
      <3>3. SumFunctionOnSet(memory[n], Ages) =
                memory[n][age] + SumFunctionOnSet(memory[n], Ages \ {age})
        BY <3>2, AgesFinite, SumSplits
      <3>4. SumFunctionOnSet(memory[n], Ages \ {age}) \in Nat
        BY <3>1, SpansOfLog
      <3> QED
        BY <3>1, <3>2, <3>3, <3>4, TotalIsSum, ThrottleAssumption
    <2>2. memory \in [Replicas -> [Ages -> 0..Limit]]
      BY <2>1 DEF ThrottleInv, MemoryInv, Logs
    <2> QED
      BY <2>2 DEF TypeOK, ThrottleInv, RedisInv, Counter, Logs
  <1> QED
    BY <1>1, ThrottleInvariant, PTL

(***************************************************************************)
(* However the requests of a client are spread over any number of          *)
(* replicas, any span of one window's length lets in less than two         *)
(* windows' worth of them while Redis counts, and one window's worth more  *)
(* per replica when some were counted in memory.                           *)
(***************************************************************************)
THEOREM WindowsAreBounded == Spec => []WindowBound
  <1>1. ThrottleInv => WindowBound
    <2> SUFFICES ASSUME ThrottleInv
                 PROVE  WindowBound
      OBVIOUS
    <2>0. Limit \in Nat \ {0} /\ Ttl \in Nat \ {0} /\ IsFiniteSet(Replicas)
      BY ThrottleAssumption
    <2>1. /\ Counter(hits, left) /\ admitted \in Logs /\ memory \in [Replicas -> Logs]
          /\ ByRedis(admitted, memory) \in Logs
          /\ InWindow(ByRedis(admitted, memory), hits, left)
          /\ \A n \in Replicas : Total(memory[n]) <= Limit
          /\ counted => \A n \in Replicas : memory[n] = Nobody
      BY DEF ThrottleInv, RedisInv, MemoryInv
    <2>2. PICK f, g : /\ f = ByRedis(admitted, memory)
                      /\ g = [n \in Replicas |-> Total(memory[n])]
      OBVIOUS
    <2>3. Total(admitted) = SumFunctionOnSet(f, Ages) + SumFunctionOnSet(g, Replicas)
      BY <2>1, <2>2, AllThatWasLetIn
    <2>4. \A n \in Replicas : g[n] \in 0..Limit /\ g[n] = Total(memory[n])
      BY <2>0, <2>1, <2>2, TotalIsSum
    <2>5. SumFunctionOnSet(f, Ages) \in Nat /\ SumFunctionOnSet(f, Ages) <= 2 * Limit - 1
      <3>1. SumFunctionOnSet(f, Ages) \in Nat
        BY <2>1, <2>2, SpansOfLog
      <3>2. CASE left = 0
        BY <2>0, <2>1, <2>2, <3>1, <3>2 DEF InWindow
      <3>3. CASE left # 0
        <4>1. PICK young, old : /\ young = 0..(Ttl - left)
                                /\ old = (Ttl - left + 1)..(Ttl - 1)
          OBVIOUS
        <4>2. left \in 1..Ttl /\ Capped(hits) <= Limit /\ Capped(hits) \in Nat
          BY <2>0, <2>1, <3>3 DEF Counter, Capped
        <4>3. /\ young \in SUBSET Ages /\ old \in SUBSET Ages /\ young \cap old = {}
              /\ young \cup old = Ages
          BY <2>0, <4>1, <4>2 DEF Ages
        <4>4. \A age \in young \cup old : f[age] \in Nat
          BY <2>1, <2>2, <4>3 DEF Logs
        <4>5. IsFiniteSet(young) /\ IsFiniteSet(old)
          BY <4>3, AgesFinite, FS_Subset
        <4>6. SumFunctionOnSet(f, young \cup old) =
                  SumFunctionOnSet(f, young) + SumFunctionOnSet(f, old)
          BY <4>3, <4>4, <4>5, SumDisjoint
        <4>7. SumFunctionOnSet(f, young) <= Capped(hits) /\ SumFunctionOnSet(f, old) <= Limit - 1
          BY <2>1, <2>2, <4>1, <4>2 DEF InWindow
        <4>8. SumFunctionOnSet(f, young) \in Nat /\ SumFunctionOnSet(f, old) \in Nat
          BY <2>1, <2>2, <4>3, SpansOfLog
        <4>9. SumFunctionOnSet(f, Ages) =
                  SumFunctionOnSet(f, young) + SumFunctionOnSet(f, old)
          BY <4>3, <4>6, Zenon
        <4> QED
          BY <2>0, <3>1, <4>2, <4>7, <4>8, <4>9
      <3> QED
        BY <3>2, <3>3
    <2>6. SumFunctionOnSet(g, Replicas) \in Nat
          /\ SumFunctionOnSet(g, Replicas) <= Cardinality(Replicas) * Limit
      BY <2>0, <2>4, SumBound, SumInNat
    <2>7. ASSUME counted
          PROVE  SumFunctionOnSet(g, Replicas) = 0
      <3>1. \A n \in Replicas : g[n] \in 0..0
        BY <2>1, <2>4, <2>7, NobodyTotal
      <3>2. SumFunctionOnSet(g, Replicas) <= Cardinality(Replicas) * 0
        BY <2>0, <3>1, SumBound
      <3>3. Cardinality(Replicas) * 0 = 0
        BY <2>0, FS_CardinalityType
      <3> QED
        BY <2>6, <3>2, <3>3
    <2>8. CASE counted
      BY <2>0, <2>3, <2>5, <2>7, <2>8 DEF WindowBound
    <2>9. CASE ~counted
      <3>1. PICK most \in Int : most = Cardinality(Replicas) * Limit
        BY <2>0, FS_CardinalityType
      <3>2. Total(admitted) <= 2 * Limit - 1 + most
        BY <2>0, <2>3, <2>5, <2>6, <3>1
      <3> QED
        BY <2>9, <3>1, <3>2 DEF WindowBound
    <2> QED
      BY <2>8, <2>9
  <1> QED
    BY <1>1, ThrottleInvariant, PTL
=============================================================================
