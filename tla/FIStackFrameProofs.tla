--------------------------- MODULE FIStackFrameProofs ---------------------------
(***************************************************************************)
(* The stack frame of FIStackFrame, for every number of registers, every   *)
(* set of layouts, any nesting of temporaries and of locals.               *)
(*                                                                         *)
(* FrameOK is the invariant of what the methods of the planner and of the  *)
(* operand stacks work on; it is kept by each of them, so that it also     *)
(* holds between the two calls of ReserveTemp and of ForceSpillAll.        *)
(***************************************************************************)
EXTENDS FIStackFrame, FiniteSetTheorems, SequenceTheorems, TLAPS

Bottom(f) == UpAlign(f.base, 8)
Count(f)  == (f.top - Bottom(f)) \div 8
Region(f) == {Bottom(f) + 8 * k : k \in 0 .. Count(f) - 1}

FrameRecords == [base : Nat, top : Nat, max : Nat, free : Seq(Nat), old : Seq(Nat),
                 stack : [Class -> Seq(Nat \cup {NoSpill})], firstNoSpill : [Class -> Nat]]

\* Whoever has a slot: a place in the free list, or a spilled temporary.
Holders(f) == {h \in {"free"} \X Nat : h[2] \in 1 .. Len(f.free)}
                  \cup {h \in Class \X Nat : h[2] \in 1 .. f.firstNoSpill[h[1]]}
Held(f, h) == IF h[1] = "free" THEN f.free[h[2]] ELSE f.stack[h[1]][h[2]]

\* The top is as many slots above the locals as there are.
TopIsAligned(f) == Count(f) \in Nat /\ f.top = Bottom(f) + 8 * Count(f) /\ f.top <= f.max

\* Spilled are the oldest temporaries of each class.
OldestSpilled(f) ==
    \A c \in Class : /\ f.firstNoSpill[c] <= Len(f.stack[c])
                     /\ \A i \in 1 .. Len(f.stack[c]) : f.stack[c][i] = NoSpill <=> i > f.firstNoSpill[c]

\* No slot has two holders, and every slot has one.
OneHolder(f) ==
    /\ \A h \in Holders(f) : Held(f, h) \in Region(f)
    /\ \A g, h \in Holders(f) : Held(f, g) = Held(f, h) => g = h
    /\ \A s \in Region(f) : \E h \in Holders(f) : Held(f, h) = s

FrameOK(f) == f \in FrameRecords /\ TopIsAligned(f) /\ OldestSpilled(f) /\ OneHolder(f)

\* What is pending is what the stacks hold.
StacksAgree ==
    /\ tempStack \in Seq(Class)
    /\ \A c \in Class : /\ Cardinality({i \in DOMAIN tempStack : tempStack[i] = c}) = Len(frame.stack[c])
                        /\ Len(frame.stack[c]) <= MaxTemps
                        /\ NumNoSpill(frame, c) <= NoSpillLimit[c]

\* The saved bases and the locals follow one another.
LocalsFollow ==
    /\ locals \in Seq(Nat \X Nat) /\ Len(frame.old) = Len(locals)
    /\ StartOffset <= frame.base
    /\ \A i \in 1 .. Len(locals) :
        /\ StartOffset <= frame.old[i] /\ frame.old[i] <= locals[i][1]
        /\ locals[i][1] + locals[i][2] <= frame.base
        /\ \A j \in i + 1 .. Len(locals) : locals[i][1] + locals[i][2] <= frame.old[j]

FrameIInv == FrameOK(frame) /\ StacksAgree /\ LocalsFollow

-----------------------------------------------------------------------------
(* Numbers and sequences                                                   *)

\* Alignment to slots rounds up, by less than a slot, and keeps the order.
LEMMA SlotAlignment ==
    ASSUME NEW m \in Nat, NEW n \in Nat, m <= n
    PROVE  /\ UpAlign(n, 8) \in Nat /\ n <= UpAlign(n, 8)
           /\ UpAlign(m, 8) <= UpAlign(n, 8)
  BY Z3 DEF UpAlign

\* The alignment of a variable rounds up.
LEMMA AlignmentRoundsUp ==
    ASSUME NEW n \in Nat, NEW a \in {1, 2, 4, 8}
    PROVE  UpAlign(n, a) \in Nat /\ n <= UpAlign(n, a)
<1>1. CASE a = 1
      BY <1>1, Z3 DEF UpAlign
<1>2. CASE a = 2
      BY <1>2, Z3 DEF UpAlign
<1>3. CASE a = 4
      BY <1>3, Z3 DEF UpAlign
<1>4. CASE a = 8
      BY <1>4, Z3 DEF UpAlign
<1>5. QED
      BY <1>1, <1>2, <1>3, <1>4

\* What a prefix of a sequence holds.
LEMMA PrefixProperties ==
    ASSUME NEW S, NEW s \in Seq(S), NEW n \in 0 .. Len(s)
    PROVE  /\ SubSeq(s, 1, n) \in Seq(S) /\ Len(SubSeq(s, 1, n)) = n
           /\ \A i \in 1 .. n : SubSeq(s, 1, n)[i] = s[i]
<1>1. Len(s) \in Nat /\ \A i \in 1 .. Len(s) : s[i] \in S
      BY ElementOfSeq
<1>2. n \in Nat /\ \A i \in 1 .. n : s[i] \in S
      BY <1>1
<1>3. /\ SubSeq(s, 1, n) \in Seq(S)
      /\ Len(SubSeq(s, 1, n)) = IF 1 <= n THEN n - 1 + 1 ELSE 0
      /\ \A i \in 1 .. n - 1 + 1 : SubSeq(s, 1, n)[i] = s[1 + i - 1]
      BY ONLY <1>2, 1 \in Int, n \in Int, SubSeqProperties
<1>4. QED
      BY <1>2, <1>3

\* A function on an interval is a sequence.
LEMMA FunctionIsSequence ==
    ASSUME NEW S, NEW n \in Nat, NEW s \in [1 .. n -> S]
    PROVE  s \in Seq(S) /\ Len(s) = n
<1>1. s \in Seq(S)
      BY SeqDef
<1>2. QED
      BY <1>1

-----------------------------------------------------------------------------
(* The methods keep FrameOK                                                *)

\* The types in a frame.
LEMMA FrameTypes ==
    ASSUME NEW f \in FrameRecords, NEW c \in Class
    PROVE  /\ f.base \in Nat /\ f.top \in Nat /\ f.max \in Nat /\ Bottom(f) \in Nat
           /\ f.free \in Seq(Nat) /\ Len(f.free) \in Nat
           /\ f.old \in Seq(Nat) /\ Len(f.old) \in Nat
           /\ f.stack \in [Class -> Seq(Nat \cup {NoSpill})]
           /\ f.stack[c] \in Seq(Nat \cup {NoSpill}) /\ Len(f.stack[c]) \in Nat
           /\ f.firstNoSpill \in [Class -> Nat] /\ f.firstNoSpill[c] \in Nat
<1>1. /\ f.base \in Nat /\ f.top \in Nat /\ f.max \in Nat
      /\ f.free \in Seq(Nat) /\ f.old \in Seq(Nat)
      /\ f.stack \in [Class -> Seq(Nat \cup {NoSpill})]
      /\ f.firstNoSpill \in [Class -> Nat]
      BY DEF FrameRecords
<1>2. f.stack[c] \in Seq(Nat \cup {NoSpill}) /\ f.firstNoSpill[c] \in Nat
      BY <1>1
<1>3. Bottom(f) \in Nat
      BY <1>1, AlignmentRoundsUp DEF Bottom
<1>4. QED
      BY <1>1, <1>2, <1>3, LenProperties

\* What SpillUpTo makes of a frame, in one piece.
LEMMA SpillIs ==
    ASSUME NEW f \in FrameRecords, NEW c \in Class, NEW bound
    PROVE  LET first  == f.firstNoSpill[c]
               n      == Larger(bound - first, 0)
               reused == Smaller(n, Len(f.free))
               top    == f.top + 8 * (n - reused)
           IN  SpillUpTo(f, c, bound) =
                   [f EXCEPT !.free = SubSeq(f.free, 1, Len(f.free) - reused),
                             !.top = top, !.max = Larger(f.max, top),
                             !.stack[c] = [i \in DOMAIN f.stack[c] |->
                                 IF i \in (first + 1) .. bound THEN Slot(f, i - first) ELSE f.stack[c][i]],
                             !.firstNoSpill[c] = first + n]
<1>1. /\ f.stack \in [Class -> Seq(Nat \cup {NoSpill})]
      /\ f.firstNoSpill \in [Class -> Nat]
      BY DEF FrameRecords
<1>2. QED
      BY <1>1 DEF SpillUpTo, TakeTemps, FrameRecords

\* Spilling hands out slots that nobody has: first those of the free list,
\* from its back, then new ones at the top.
LEMMA SpillKeepsFrame ==
    ASSUME NEW f, FrameOK(f), NEW c \in Class, NEW bound \in 0 .. Len(f.stack[c])
    PROVE  LET g == SpillUpTo(f, c, bound)
           IN  /\ FrameOK(g) /\ g.base = f.base /\ g.old = f.old /\ f.max <= g.max
               /\ \A d \in Class : Len(g.stack[d]) = Len(f.stack[d])
               /\ g.firstNoSpill[c] = Larger(f.firstNoSpill[c], bound)
               /\ \A d \in Class : d # c => g.firstNoSpill[d] = f.firstNoSpill[d]
<1> DEFINE first  == f.firstNoSpill[c]
           size   == Len(f.stack[c])
           L      == Len(f.free)
           B      == Bottom(f)
           N      == Count(f)
           n      == Larger(bound - first, 0)
           reused == Smaller(n, L)
           top    == f.top + 8 * (n - reused)
           stack  == [i \in DOMAIN f.stack[c] |->
                         IF i \in (first + 1) .. bound THEN Slot(f, i - first) ELSE f.stack[c][i]]
           free   == SubSeq(f.free, 1, L - reused)
           g      == SpillUpTo(f, c, bound)
<1>1. f \in FrameRecords /\ TopIsAligned(f) /\ OldestSpilled(f) /\ OneHolder(f)
      BY DEF FrameOK
<1>2. /\ f.base \in Nat /\ f.top \in Nat /\ f.max \in Nat /\ B \in Nat
      /\ f.free \in Seq(Nat) /\ L \in Nat
      /\ f.stack[c] \in Seq(Nat \cup {NoSpill}) /\ size \in Nat /\ first \in Nat
      BY <1>1, FrameTypes
<1>3. N \in Nat /\ f.top = B + 8 * N /\ f.top <= f.max
      BY <1>1 DEF TopIsAligned
<1>4. first <= size /\ bound \in Nat /\ bound <= size
      BY <1>1, <1>2 DEF OldestSpilled
<1> HIDE DEF first, size, L, B, N
<1>5. /\ n \in Nat /\ reused \in Nat /\ reused <= n /\ reused <= L
      /\ (reused = n \/ reused = L)
      /\ first + n = Larger(first, bound) /\ first + n <= size
      /\ \A i \in Nat : i \in (first + 1) .. bound <=> (first < i /\ i <= first + n)
      BY <1>2, <1>4 DEF Larger, Smaller
<1>6. free \in Seq(Nat) /\ Len(free) = L - reused /\ \A i \in 1 .. L - reused : free[i] = f.free[i]
  <2>1. L - reused \in 0 .. Len(f.free)
        BY <1>2, <1>5 DEF L
  <2>2. QED
        BY <2>1, <1>2, PrefixProperties
<1> HIDE DEF n, reused, free
<1>7. /\ top \in Nat /\ f.top <= top /\ top = B + 8 * (N + n - reused)
      /\ Larger(f.max, top) \in Nat /\ top <= Larger(f.max, top) /\ f.max <= Larger(f.max, top)
      BY <1>2, <1>3, <1>5 DEF Larger
<1> HIDE DEF top
<1>8. ASSUME NEW k \in 1 .. n
      PROVE  /\ Slot(f, k) \in Nat
             /\ k <= L => L + 1 - k \in 1 .. L /\ Slot(f, k) = f.free[L + 1 - k]
             /\ k > L => Slot(f, k) = B + 8 * (N + k - L - 1)
  <2>1. CASE k <= L
    <3>1. L + 1 - k \in 1 .. L /\ Slot(f, k) = f.free[L + 1 - k]
      <4>1. L + 1 - k \in 1 .. L
            BY <2>1, <1>2, <1>5
      <4>2. Slot(f, k) = f.free[L + 1 - k]
            BY ONLY <2>1 DEF Slot, L
      <4>3. QED
            BY ONLY <4>1, <4>2
    <3>2. f.free[L + 1 - k] \in Nat
          BY <3>1, <1>2, ElementOfSeq DEF L
    <3>3. QED
          BY <3>1, <3>2, <2>1, <1>2, <1>5
  <2>2. CASE k > L
    <3>1. Slot(f, k) = f.top + 8 * (k - L - 1)
          BY <2>2, <1>2, <1>5 DEF Slot, L
    <3>2. QED
          BY <3>1, <2>2, <1>2, <1>3, <1>5
  <2>3. QED
        BY <2>1, <2>2, <1>2, <1>5
<1>9. /\ DOMAIN f.stack[c] = 1 .. size
      /\ \A i \in 1 .. size : f.stack[c][i] \in Nat \cup {NoSpill}
      BY <1>2, LenProperties, ElementOfSeq DEF size
<1>10. /\ stack \in Seq(Nat \cup {NoSpill}) /\ Len(stack) = size
       /\ \A i \in 1 .. size : stack[i] = IF first < i /\ i <= first + n
                                          THEN Slot(f, i - first) ELSE f.stack[c][i]
  <2>1. ASSUME NEW i \in 1 .. size
        PROVE  /\ stack[i] = IF first < i /\ i <= first + n THEN Slot(f, i - first) ELSE f.stack[c][i]
               /\ stack[i] \in Nat \cup {NoSpill}
    <3>1. stack[i] = IF first < i /\ i <= first + n THEN Slot(f, i - first) ELSE f.stack[c][i]
      <4>1. /\ i \in DOMAIN f.stack[c]
            /\ i \in (first + 1) .. bound <=> (first < i /\ i <= first + n)
        <5>1. i \in Nat
              BY <1>2
        <5>2. QED
              BY <5>1, <1>5, <1>9
      <4>2. stack[i] = IF i \in (first + 1) .. bound THEN Slot(f, i - first) ELSE f.stack[c][i]
            BY <4>1
      <4>3. QED
            BY <4>1, <4>2
    <3>2. first < i /\ i <= first + n => i - first \in 1 .. n
          BY <1>2, <1>5
    <3>3. QED
          BY <3>1, <3>2, <1>8, <1>9
  <2>2. DOMAIN stack = 1 .. size
        BY <1>9
  <2>3. stack \in [1 .. size -> Nat \cup {NoSpill}]
        BY <2>1, <1>9
  <2>4. QED
        BY <2>1, <2>3, <1>2, FunctionIsSequence
<1>11. g = [f EXCEPT !.free = free, !.top = top, !.max = Larger(f.max, top),
                     !.stack[c] = stack, !.firstNoSpill[c] = first + n]
       BY <1>1, SpillIs DEF free, top, reused, n, first, L
<1> HIDE DEF stack, g
<1>12. /\ g \in FrameRecords
       /\ g.base = f.base /\ g.old = f.old /\ Bottom(g) = B
       /\ g.free = free /\ g.top = top /\ g.max = Larger(f.max, top)
       /\ g.stack[c] = stack /\ g.firstNoSpill[c] = first + n
       /\ \A d \in Class : d # c => /\ g.stack[d] = f.stack[d]
                                    /\ g.firstNoSpill[d] = f.firstNoSpill[d]
  <2> DEFINE max == Larger(f.max, top)
             last == first + n
  <2>1. last \in Nat /\ max \in Nat
        BY <1>2, <1>5, <1>7
  <2>2. g = [f EXCEPT !.free = free, !.top = top, !.max = max,
                      !.stack[c] = stack, !.firstNoSpill[c] = last]
        BY <1>11
  <2> HIDE DEF max, last
  <2>3. f.stack \in [Class -> Seq(Nat \cup {NoSpill})] /\ f.firstNoSpill \in [Class -> Nat]
        BY <1>1, FrameTypes
  <2>4. /\ g.base = f.base /\ g.old = f.old
        /\ g.free = free /\ g.top = top /\ g.max = max
        /\ g.stack = [f.stack EXCEPT ![c] = stack]
        /\ g.firstNoSpill = [f.firstNoSpill EXCEPT ![c] = last]
        /\ g \in FrameRecords
        BY <2>1, <2>2, <1>1, <1>6, <1>7, <1>10 DEF FrameRecords
  <2>5. QED
        BY <2>3, <2>4 DEF max, last, B, Bottom
<1>13. TopIsAligned(g) /\ Count(g) = N + n - reused
  <2>1. N + n - reused \in Nat /\ (8 * (N + n - reused)) \div 8 = N + n - reused
        BY <1>3, <1>5
  <2>2. Count(g) = N + n - reused
        BY <2>1, <1>2, <1>7, <1>12 DEF Count
  <2>3. QED
        BY <2>1, <2>2, <1>7, <1>12 DEF TopIsAligned
<1>14. OldestSpilled(g)
  <2>1. ASSUME NEW i \in 1 .. size PROVE stack[i] = NoSpill <=> i > first + n
    <3>1. f.stack[c][i] = NoSpill <=> i > first
          BY <1>1 DEF OldestSpilled, size, first
    <3>2. CASE first < i /\ i <= first + n
      <4>1. i - first \in 1 .. n
            BY <3>2, <1>2, <1>5
      <4>2. stack[i] \in Nat
            BY <4>1, <3>2, <1>8, <1>10
      <4>3. QED
            BY <4>2, <3>2, <1>2, <1>5 DEF NoSpill
    <3>3. CASE ~(first < i /\ i <= first + n)
          BY <3>1, <3>3, <1>2, <1>5, <1>10
    <3>4. QED
          BY <3>2, <3>3
  <2>2. QED
        BY <2>1, <1>1, <1>5, <1>10, <1>12 DEF OldestSpilled
<1>15. \A i : <<"free", i>> \in Holders(f) <=> i \in 1 .. L
       BY <1>2 DEF Holders, Class, L
<1>16. \A i : <<"free", i>> \in Holders(g) <=> i \in 1 .. L - reused
  <2>1. Len(g.free) = L - reused
        BY <1>6, <1>12
  <2>2. QED
        BY <2>1 DEF Holders, Class
<1>17. \A i : <<c, i>> \in Holders(f) <=> i \in 1 .. first
       BY <1>2 DEF Holders, Class, first
<1>18. \A i : <<c, i>> \in Holders(g) <=> i \in 1 .. first + n
       BY <1>2, <1>5, <1>12 DEF Holders, Class
<1>19. \A d \in Class : d # c => \A i : <<d, i>> \in Holders(g) <=> <<d, i>> \in Holders(f)
       BY <1>12 DEF Holders, Class
<1>20. ASSUME NEW h, h \in Holders(f) \/ h \in Holders(g)
       PROVE  \/ \E i : h = <<"free", i>>
              \/ \E i : h = <<c, i>>
              \/ \E d \in Class : \E i : d # c /\ h = <<d, i>>
       BY <1>20 DEF Holders
<1>21. /\ \A i \in 1 .. L - reused : Held(g, <<"free", i>>) = Held(f, <<"free", i>>)
       /\ \A i \in 1 .. L : Held(f, <<"free", i>>) = f.free[i]
       BY <1>6, <1>12 DEF Held
<1>22. /\ \A i \in 1 .. first : Held(g, <<c, i>>) = Held(f, <<c, i>>)
       /\ \A i \in first + 1 .. first + n : Held(g, <<c, i>>) = Slot(f, i - first)
  <2>1. \A e : \A i : Held(e, <<c, i>>) = e.stack[c][i]
        BY DEF Held, Class
  <2>2. \A i \in 1 .. size : stack[i] = IF first < i /\ i <= first + n THEN Slot(f, i - first) ELSE f.stack[c][i]
        BY <1>10
  <2>3. ASSUME NEW i \in 1 .. first PROVE Held(g, <<c, i>>) = Held(f, <<c, i>>)
    <3>1. i \in 1 .. size /\ ~(first < i)
          BY <2>3, <1>2, <1>4
    <3>2. QED
          BY <3>1, <2>1, <2>2, <1>12
  <2>4. ASSUME NEW i \in first + 1 .. first + n PROVE Held(g, <<c, i>>) = Slot(f, i - first)
    <3>1. i \in 1 .. size /\ first < i /\ i <= first + n
          BY <2>4, <1>2, <1>4, <1>5
    <3>2. QED
          BY <3>1, <2>1, <2>2, <1>12
  <2>5. QED
        BY <2>3, <2>4
<1>23. \A d \in Class : d # c => \A i : Held(g, <<d, i>>) = Held(f, <<d, i>>)
       BY <1>12 DEF Held, Class
\* Below first + L, c has the slots that the free list had behind L - reused.
<1>24. ASSUME NEW i \in first + 1 .. first + n, i <= first + L
       PROVE  /\ <<"free", L + 1 - (i - first)>> \in Holders(f)
              /\ L + 1 - (i - first) > L - reused
              /\ Held(g, <<c, i>>) = Held(f, <<"free", L + 1 - (i - first)>>)
  <2>1. i - first \in 1 .. n /\ i - first <= L /\ i - first <= reused
        BY <1>2, <1>5, <1>24
  <2>2. L + 1 - (i - first) \in 1 .. L /\ L + 1 - (i - first) > L - reused
        BY <2>1, <1>2, <1>5
  <2>3. Held(g, <<c, i>>) = Slot(f, i - first)
        BY <1>22
  <2>4. Slot(f, i - first) = f.free[L + 1 - (i - first)]
        BY <2>1, <1>8
  <2>5. QED
        BY <2>2, <2>3, <2>4, <1>15, <1>21
\* Above, it has new ones.
<1>25. ASSUME NEW i \in first + 1 .. first + n, i > first + L
       PROVE  Held(g, <<c, i>>) = B + 8 * (N + (i - first) - L - 1)
  <2>1. i - first \in 1 .. n /\ i - first > L
        BY <1>2, <1>5, <1>25
  <2>2. QED
        BY <2>1, <1>8, <1>22
<1>26. /\ \A s : s \in Region(f) <=> \E k \in 0 .. N - 1 : s = B + 8 * k
       /\ \A s : s \in Region(g) <=> \E k \in 0 .. N + n - reused - 1 : s = B + 8 * k
  <2>1. \A s : s \in Region(f) <=> \E k \in 0 .. N - 1 : s = B + 8 * k
        BY DEF Region, B, N
  <2>2. Bottom(g) = B /\ Count(g) = N + n - reused
        BY <1>12, <1>13
  <2>3. ASSUME NEW s PROVE s \in Region(g) <=> \E k \in 0 .. N + n - reused - 1 : s = B + 8 * k
        BY <2>2, <1>2, <1>3, <1>5 DEF Region
  <2>4. QED
        BY <2>1, <2>3
<1>27. Region(f) \subseteq Region(g)
       BY <1>3, <1>5, <1>26
<1>28. ASSUME NEW h \in Holders(g)
       PROVE  \/ h \in Holders(f) /\ Held(g, h) = Held(f, h) /\ \A i : h = <<"free", i>> => i <= L - reused
              \/ \E i \in first + 1 .. first + n : h = <<c, i>>
  <2>1. CASE \E i : h = <<"free", i>>
    <3>1. PICK i : h = <<"free", i>>
          BY <2>1
    <3>2. i \in 1 .. L - reused /\ i \in 1 .. L
          BY <3>1, <1>2, <1>5, <1>16
    <3>4. <<"free", i>> \in Holders(f) /\ Held(g, <<"free", i>>) = Held(f, <<"free", i>>)
          BY ONLY <3>2, <1>15, <1>21
    <3>5. \A j : <<"free", i>> = <<"free", j>> => i = j
          BY ONLY Zenon
    <3>6. i <= L - reused
          BY ONLY <3>2, <1>2, <1>5
    <3>3. QED
          BY ONLY <3>1, <3>4, <3>5, <3>6
  <2>2. CASE \E i : h = <<c, i>>
    <3>1. PICK i : h = <<c, i>>
          BY <2>2
    <3>2. i \in 1 .. first \/ i \in first + 1 .. first + n
          BY <3>1, <1>2, <1>5, <1>18
    <3>3. c # "free"
          BY DEF Class
    <3>4. QED
          BY <3>1, <3>2, <3>3, <1>17, <1>22
  <2>3. CASE \E d \in Class : \E i : d # c /\ h = <<d, i>>
    <3>1. PICK d \in Class : d # c /\ \E i : h = <<d, i>>
          BY <2>3
    <3>2. d # "free"
          BY DEF Class
    <3>3. QED
          BY <3>1, <3>2, <1>19, <1>23
  <2>4. QED
        BY <2>1, <2>2, <2>3, <1>20
<1>29. ASSUME NEW h \in Holders(g) PROVE Held(g, h) \in Region(g)
  <2>1. CASE h \in Holders(f) /\ Held(g, h) = Held(f, h)
        BY <2>1, <1>1, <1>27 DEF OneHolder
  <2>2. CASE \E i \in first + 1 .. first + n : h = <<c, i>>
    <3>1. PICK i \in first + 1 .. first + n : h = <<c, i>>
          BY <2>2
    <3>2. CASE i <= first + L
      <4>1. /\ <<"free", L + 1 - (i - first)>> \in Holders(f)
            /\ Held(g, h) = Held(f, <<"free", L + 1 - (i - first)>>)
            BY <3>1, <3>2, <1>24
      <4>2. QED
            BY <4>1, <1>1, <1>27 DEF OneHolder
    <3>3. CASE i > first + L
      <4>1. Held(g, h) = B + 8 * (N + (i - first) - L - 1)
            BY <3>1, <3>3, <1>25
      <4>2. N + (i - first) - L - 1 \in 0 .. N + n - reused - 1
            BY <3>3, <1>2, <1>3, <1>5
      <4>3. QED
            BY <4>1, <4>2, <1>26
    <3>4. QED
          BY <3>2, <3>3, <1>2
  <2>3. QED
        BY <2>1, <2>2, <1>28
<1>30. ASSUME NEW e \in Holders(g), NEW h \in Holders(g), Held(g, e) = Held(g, h)
       PROVE  e = h
\* The slots that c got are not those that stay where they were, and differ.
  <2>1. ASSUME NEW i \in first + 1 .. first + n, NEW h2 \in Holders(f), Held(g, <<c, i>>) = Held(f, h2),
               \A j : h2 = <<"free", j>> => j <= L - reused
        PROVE  FALSE
    <3>1. CASE i <= first + L
      <4>1. h2 = <<"free", L + 1 - (i - first)>>
            BY <3>1, <2>1, <1>1, <1>24 DEF OneHolder
      <4>2. L + 1 - (i - first) > L - reused
            BY <3>1, <1>24
      <4>3. L + 1 - (i - first) <= L - reused
            BY <4>1, <2>1
      <4>4. QED
            BY <4>2, <4>3, <1>2, <1>5
    <3>2. CASE i > first + L
      <4>1. Held(f, h2) = B + 8 * (N + (i - first) - L - 1)
            BY <3>2, <2>1, <1>25
      <4>2. PICK k \in 0 .. N - 1 : Held(f, h2) = B + 8 * k
            BY <1>1, <1>26 DEF OneHolder
      <4>3. QED
            BY <4>1, <4>2, <3>2, <1>2, <1>3, <1>5
    <3>3. QED
          BY <3>1, <3>2, <1>2
  <2>2. ASSUME NEW i \in first + 1 .. first + n, NEW j \in first + 1 .. first + n,
               Held(g, <<c, i>>) = Held(g, <<c, j>>)
        PROVE  i = j
    <3>1. CASE i <= first + L /\ j <= first + L
      <4>5. /\ <<"free", L + 1 - (i - first)>> \in Holders(f) /\ Held(g, <<c, i>>) = Held(f, <<"free", L + 1 - (i - first)>>)
            /\ <<"free", L + 1 - (j - first)>> \in Holders(f) /\ Held(g, <<c, j>>) = Held(f, <<"free", L + 1 - (j - first)>>)
            BY <3>1, <1>24
      <4>1. <<"free", L + 1 - (i - first)>> = <<"free", L + 1 - (j - first)>>
            BY ONLY <4>5, <2>2, <1>1 DEF OneHolder
      <4>2. \A k, m : <<"free", k>> = <<"free", m>> => k = m
            BY ONLY Zenon
      <4>3. L + 1 - (i - first) = L + 1 - (j - first)
            BY ONLY <4>1, <4>2, Zenon
      <4>4. QED
            BY <4>3, <1>2
    <3>2. CASE i > first + L /\ j > first + L
      <4>1. B + 8 * (N + (i - first) - L - 1) = B + 8 * (N + (j - first) - L - 1)
            BY <3>2, <2>2, <1>25
      <4>2. QED
            BY <4>1, <1>2, <1>3, <1>5
    <3>3. ASSUME NEW x \in first + 1 .. first + n, NEW y \in first + 1 .. first + n,
                 Held(g, <<c, x>>) = Held(g, <<c, y>>), x <= first + L, y > first + L
          PROVE  FALSE
      <4>1. PICK k \in 0 .. N - 1 : Held(g, <<c, x>>) = B + 8 * k
            BY <3>3, <1>1, <1>24, <1>26 DEF OneHolder
      <4>2. Held(g, <<c, y>>) = B + 8 * (N + (y - first) - L - 1)
            BY <3>3, <1>25
      <4>3. QED
            BY <4>1, <4>2, <3>3, <1>2, <1>3, <1>5
    <3>4. QED
          BY <3>1, <3>2, <3>3, <2>2, <1>2
  <2>3. CASE \E i \in first + 1 .. first + n : e = <<c, i>>
    <3>1. PICK i \in first + 1 .. first + n : e = <<c, i>>
          BY <2>3
    <3>2. CASE \E j \in first + 1 .. first + n : h = <<c, j>>
          BY <3>1, <3>2, <2>2, <1>30
    <3>3. CASE h \in Holders(f) /\ Held(g, h) = Held(f, h) /\ \A j : h = <<"free", j>> => j <= L - reused
          BY <3>1, <3>3, <2>1, <1>30
    <3>4. QED
          BY <3>2, <3>3, <1>28
  <2>4. CASE e \in Holders(f) /\ Held(g, e) = Held(f, e) /\ \A i : e = <<"free", i>> => i <= L - reused
    <3>1. CASE \E j \in first + 1 .. first + n : h = <<c, j>>
          BY <3>1, <2>4, <2>1, <1>30
    <3>2. CASE h \in Holders(f) /\ Held(g, h) = Held(f, h)
          BY <3>2, <2>4, <1>1, <1>30 DEF OneHolder
    <3>3. QED
          BY <3>1, <3>2, <1>28
  <2>5. QED
        BY <2>3, <2>4, <1>28
<1>31. ASSUME NEW s \in Region(g) PROVE \E h \in Holders(g) : Held(g, h) = s
  <2>1. PICK k \in 0 .. N + n - reused - 1 : s = B + 8 * k
        BY <1>26
  <2>2. CASE k < N
    <3>1. s \in Region(f)
          BY <2>1, <2>2, <1>3, <1>26
    <3>2. PICK h \in Holders(f) : Held(f, h) = s
          BY <3>1, <1>1 DEF OneHolder
    <3>3. CASE \E i : h = <<"free", i>>
      <4>1. PICK i \in 1 .. L : h = <<"free", i>>
            BY <3>2, <3>3, <1>15
      <4>2. CASE i <= L - reused
            BY <4>1, <4>2, <3>2, <1>2, <1>5, <1>16, <1>21
      <4>3. CASE i > L - reused
        <5>1. /\ first + L + 1 - i \in first + 1 .. first + n /\ first + L + 1 - i <= first + L
              /\ L + 1 - ((first + L + 1 - i) - first) = i
              BY <4>1, <4>3, <1>2, <1>5
        <5> DEFINE j == first + L + 1 - i
        <5>5. j \in first + 1 .. first + n /\ j <= first + L /\ L + 1 - (j - first) = i
              BY <5>1
        <5> HIDE DEF j
        <5>6. Held(g, <<c, j>>) = Held(f, <<"free", i>>)
              BY <5>5, <1>24
        <5>2. Held(g, <<c, first + L + 1 - i>>) = s
              BY <5>6, <4>1, <3>2 DEF j
        <5>3. <<c, first + L + 1 - i>> \in Holders(g)
              BY <5>1, <1>2, <1>5, <1>18, SMTT(30)
        <5>4. QED
              BY <5>2, <5>3
      <4>4. QED
            BY <4>1, <4>2, <4>3, <1>2, <1>5
    <3>4. CASE \E i : h = <<c, i>>
          BY <3>2, <3>4, <1>2, <1>5, <1>17, <1>18, <1>22
    <3>5. CASE \E d \in Class : \E i : d # c /\ h = <<d, i>>
          BY <3>2, <3>5, <1>19, <1>23
    <3>6. QED
          BY <3>3, <3>4, <3>5, <3>2, <1>20
  <2>3. CASE k >= N
    <3>1. reused = L
          BY <2>1, <2>3, <1>3, <1>5
    <3>2. /\ first + L + 1 + (k - N) \in first + 1 .. first + n
          /\ first + L + 1 + (k - N) > first + L
          /\ N + ((first + L + 1 + (k - N)) - first) - L - 1 = k
          BY <2>1, <2>3, <3>1, <1>2, <1>3, <1>5
    <3>3. Held(g, <<c, first + L + 1 + (k - N)>>) = s
          BY <3>2, <2>1, <1>25
    <3>4. <<c, first + L + 1 + (k - N)>> \in Holders(g)
          BY <3>2, <1>2, <1>5, <1>18
    <3>5. QED
          BY <3>3, <3>4
  <2>4. QED
        BY <2>1, <2>2, <2>3, <1>3
<1>32. OneHolder(g)
       BY <1>29, <1>30, <1>31 DEF OneHolder
<1>33. \A d \in Class : Len(g.stack[d]) = Len(f.stack[d])
       BY <1>10, <1>12 DEF size
<1>34. QED
       BY <1>5, <1>7, <1>12, <1>13, <1>14, <1>32, <1>33 DEF FrameOK, g, first

\* A temporary that is not spilled is put on a stack.
LEMMA AppendKeepsFrame ==
    ASSUME NEW f, FrameOK(f), NEW c \in Class
    PROVE  LET g == [f EXCEPT !.stack[c] = Append(@, NoSpill)]
           IN  /\ FrameOK(g) /\ g.base = f.base /\ g.old = f.old /\ g.max = f.max
               /\ g.firstNoSpill = f.firstNoSpill
               /\ Len(g.stack[c]) = Len(f.stack[c]) + 1
               /\ \A d \in Class : d # c => Len(g.stack[d]) = Len(f.stack[d])
<1> DEFINE size  == Len(f.stack[c])
           stack == Append(f.stack[c], NoSpill)
           g     == [f EXCEPT !.stack[c] = Append(@, NoSpill)]
<1>1. f \in FrameRecords /\ TopIsAligned(f) /\ OldestSpilled(f) /\ OneHolder(f)
      BY DEF FrameOK
<1>2. /\ f.stack \in [Class -> Seq(Nat \cup {NoSpill})]
      /\ f.stack[c] \in Seq(Nat \cup {NoSpill}) /\ size \in Nat
      /\ f.firstNoSpill \in [Class -> Nat] /\ f.firstNoSpill[c] \in Nat
      BY <1>1, FrameTypes
<1>3. /\ stack \in Seq(Nat \cup {NoSpill}) /\ Len(stack) = size + 1
      /\ \A i \in 1 .. size : stack[i] = f.stack[c][i]
      /\ stack[size + 1] = NoSpill
  <2>1. NoSpill \in Nat \cup {NoSpill}
        OBVIOUS
  <2>2. QED
        BY <1>2, <2>1, AppendProperties
<1>4. /\ g.base = f.base /\ g.old = f.old /\ g.max = f.max /\ g.top = f.top /\ g.free = f.free
      /\ g.firstNoSpill = f.firstNoSpill
      /\ g.stack = [f.stack EXCEPT ![c] = stack]
      /\ g \in FrameRecords
      BY <1>1, <1>2, <1>3 DEF FrameRecords
<1> HIDE DEF g, stack, size
<1>5. g.stack[c] = stack /\ \A d \in Class : d # c => g.stack[d] = f.stack[d]
      BY <1>2, <1>4
<1>6. Bottom(g) = Bottom(f) /\ Count(g) = Count(f) /\ TopIsAligned(g)
      BY <1>1, <1>4 DEF Bottom, Count, TopIsAligned
<1>7. f.firstNoSpill[c] <= size
      BY <1>1 DEF OldestSpilled, size
<1>8. ASSUME NEW i \in 1 .. size + 1 PROVE stack[i] = NoSpill <=> i > f.firstNoSpill[c]
  <2>1. CASE i \in 1 .. size
        BY <2>1, <1>1, <1>3 DEF OldestSpilled, size
  <2>2. CASE i = size + 1
        BY <2>2, <1>2, <1>3, <1>7
  <2>3. QED
        BY <2>1, <2>2, <1>2
<1>9. ASSUME NEW d \in Class
      PROVE  /\ g.firstNoSpill[d] <= Len(g.stack[d])
             /\ \A i \in 1 .. Len(g.stack[d]) : g.stack[d][i] = NoSpill <=> i > g.firstNoSpill[d]
  <2>1. CASE d = c
        BY <2>1, <1>2, <1>3, <1>4, <1>5, <1>7, <1>8
  <2>2. CASE d # c
        BY <2>2, <1>1, <1>4, <1>5 DEF OldestSpilled
  <2>3. QED
        BY <2>1, <2>2
<1>10. Holders(g) = Holders(f)
       BY <1>4 DEF Holders
<1>11. ASSUME NEW h \in Holders(f) PROVE Held(g, h) = Held(f, h)
  <2>1. CASE h[1] = "free"
        BY <2>1, <1>4 DEF Held
  <2>2. CASE h[1] = c
    <3>1. h[2] \in 1 .. f.firstNoSpill[c] /\ h[1] # "free"
          BY <2>2 DEF Holders, Class
    <3>2. h[2] \in 1 .. size
          BY <3>1, <1>2, <1>7
    <3>3. QED
          BY <3>1, <3>2, <2>2, <1>3, <1>5 DEF Held
  <2>3. CASE h[1] # "free" /\ h[1] # c
        BY <2>3, <1>5 DEF Holders, Held
  <2>4. QED
        BY <2>1, <2>2, <2>3
<1>12. OneHolder(g)
  <2>1. Region(g) = Region(f)
        BY <1>6 DEF Region
  <2>2. QED
        BY <2>1, <1>1, <1>10, <1>11 DEF OneHolder
<1>13. Len(g.stack[c]) = size + 1 /\ \A d \in Class : d # c => Len(g.stack[d]) = Len(f.stack[d])
       BY <1>3, <1>5
<1>14. OldestSpilled(g)
       BY <1>9 DEF OldestSpilled
<1>15. QED
       BY <1>4, <1>6, <1>12, <1>13, <1>14 DEF FrameOK, g, size

\* A temporary is pushed; then the oldest are spilled, or it is.
LEMMA PushKeepsFrame ==
    ASSUME NEW f, FrameOK(f), NEW c \in Class, NEW spill \in BOOLEAN, NoSpillLimit[c] \in Nat \ {0}
    PROVE  LET g == PushTemp(f, c, spill)
           IN  /\ FrameOK(g) /\ g.base = f.base /\ g.old = f.old /\ f.max <= g.max
               /\ Len(g.stack[c]) = Len(f.stack[c]) + 1
               /\ Len(g.stack[c]) - g.firstNoSpill[c] <= NoSpillLimit[c]
               /\ \A d \in Class : d # c => /\ Len(g.stack[d]) = Len(f.stack[d])
                                            /\ g.firstNoSpill[d] = f.firstNoSpill[d]
<1> DEFINE p     == [f EXCEPT !.stack[c] = Append(@, NoSpill)]
           size  == Len(p.stack[c])
           bound == IF spill THEN size ELSE Larger(size - NoSpillLimit[c], 0)
           g     == SpillUpTo(p, c, bound)
<1>1. /\ FrameOK(p) /\ p.base = f.base /\ p.old = f.old /\ p.max = f.max
      /\ p.firstNoSpill = f.firstNoSpill
      /\ size = Len(f.stack[c]) + 1
      /\ \A d \in Class : d # c => Len(p.stack[d]) = Len(f.stack[d])
      BY AppendKeepsFrame
<1>2. PushTemp(f, c, spill) = g
      BY DEF PushTemp
<1> HIDE DEF p
<1>3. size \in Nat /\ p.firstNoSpill[c] \in Nat /\ f.max \in Nat
  <2>1. p \in FrameRecords
        BY <1>1 DEF FrameOK
  <2>2. size \in Nat /\ p.firstNoSpill[c] \in Nat
        BY <2>1, FrameTypes
  <2>3. f.max \in Nat
        BY DEF FrameOK, FrameRecords
  <2>4. QED
        BY <2>2, <2>3
<1> HIDE DEF size
<1>4. bound \in 0 .. size /\ size - Larger(p.firstNoSpill[c], bound) <= NoSpillLimit[c]
      BY <1>3 DEF Larger
<1> HIDE DEF bound
<1>5. /\ FrameOK(g) /\ g.base = p.base /\ g.old = p.old /\ p.max <= g.max
      /\ \A d \in Class : Len(g.stack[d]) = Len(p.stack[d])
      /\ g.firstNoSpill[c] = Larger(p.firstNoSpill[c], bound)
      /\ \A d \in Class : d # c => g.firstNoSpill[d] = p.firstNoSpill[d]
      BY <1>1, <1>4, SpillKeepsFrame DEF size
<1> HIDE DEF g
<1>6. Len(g.stack[c]) = size
      BY <1>5 DEF size
<1>7. QED
      BY <1>1, <1>2, <1>4, <1>5, <1>6

\* The newest temporary goes away; its slot, if it has one, becomes free.
LEMMA PopKeepsFrame ==
    ASSUME NEW f, FrameOK(f), NEW c \in Class, Len(f.stack[c]) > 0
    PROVE  LET g == PopTemp(f, c)
           IN  /\ FrameOK(g) /\ g.base = f.base /\ g.old = f.old /\ g.max = f.max
               /\ Len(g.stack[c]) = Len(f.stack[c]) - 1
               /\ g.firstNoSpill[c] = Smaller(f.firstNoSpill[c], Len(f.stack[c]) - 1)
               /\ \A d \in Class : d # c => /\ Len(g.stack[d]) = Len(f.stack[d])
                                            /\ g.firstNoSpill[d] = f.firstNoSpill[d]
<1> DEFINE size  == Len(f.stack[c]) - 1
           first == f.firstNoSpill[c]
           last  == Smaller(first, size)
           slot  == PeekTemp(f, c)
           L     == Len(f.free)
           stack == SubSeq(f.stack[c], 1, size)
           free  == IF slot = NoSpill THEN f.free ELSE Append(f.free, slot)
           g     == PopTemp(f, c)
<1>1. f \in FrameRecords /\ TopIsAligned(f) /\ OldestSpilled(f) /\ OneHolder(f)
      BY DEF FrameOK
<1>2. /\ f.stack \in [Class -> Seq(Nat \cup {NoSpill})]
      /\ f.stack[c] \in Seq(Nat \cup {NoSpill}) /\ size \in Nat /\ Len(f.stack[c]) = size + 1
      /\ f.firstNoSpill \in [Class -> Nat] /\ first \in Nat
      /\ f.free \in Seq(Nat) /\ L \in Nat
  <2>1. Len(f.stack[c]) \in Nat
        BY <1>1, FrameTypes
  <2>2. QED
        BY <2>1, <1>1, FrameTypes
<1>3. /\ stack \in Seq(Nat \cup {NoSpill}) /\ Len(stack) = size
      /\ \A i \in 1 .. size : stack[i] = f.stack[c][i]
  <2>1. size \in 0 .. Len(f.stack[c])
        BY <1>2
  <2>2. QED
        BY <2>1, <1>2, PrefixProperties
<1>4. slot = f.stack[c][size + 1] /\ slot \in Nat \cup {NoSpill}
  <2>1. slot = f.stack[c][size + 1]
        BY <1>2 DEF PeekTemp
  <2>2. size + 1 \in 1 .. Len(f.stack[c])
        BY <1>2
  <2>3. QED
        BY <2>1, <2>2, <1>2, ElementOfSeq
<1>5. /\ slot = NoSpill => first <= size /\ last = first /\ free = f.free
      /\ slot # NoSpill => /\ first = size + 1 /\ last = size
                           /\ slot \in Nat /\ free = Append(f.free, slot)
  <2>1. first <= size + 1 /\ (slot = NoSpill <=> size + 1 > first)
    <3>1. size + 1 \in 1 .. Len(f.stack[c])
          BY <1>2
    <3>2. QED
          BY <3>1, <1>1, <1>2, <1>4 DEF OldestSpilled
  <2>2. QED
        BY <2>1, <1>2, <1>4 DEF Smaller
<1>6. free \in Seq(Nat) /\ last \in Nat /\ last <= size
  <2>1. CASE slot = NoSpill
        BY <2>1, <1>2, <1>5
  <2>2. CASE slot # NoSpill
        BY <2>2, <1>2, <1>5, AppendProperties
  <2>3. QED
        BY <2>1, <2>2
<1>7. /\ g.base = f.base /\ g.old = f.old /\ g.max = f.max /\ g.top = f.top /\ g.free = free
      /\ g.firstNoSpill = [f.firstNoSpill EXCEPT ![c] = last]
      /\ g.stack = [f.stack EXCEPT ![c] = stack]
      /\ g \in FrameRecords
      BY <1>1, <1>2, <1>3, <1>6 DEF FrameRecords, PopTemp
<1> HIDE DEF g, stack, slot, free, last
<1>8. /\ g.stack[c] = stack /\ g.firstNoSpill[c] = last
      /\ \A d \in Class : d # c => g.stack[d] = f.stack[d] /\ g.firstNoSpill[d] = f.firstNoSpill[d]
      BY <1>2, <1>7
<1>9. Bottom(g) = Bottom(f) /\ Count(g) = Count(f) /\ TopIsAligned(g)
      BY <1>1, <1>7 DEF Bottom, Count, TopIsAligned
<1>10. OldestSpilled(g)
  <2>1. ASSUME NEW i \in 1 .. size PROVE stack[i] = NoSpill <=> i > last
    <3>1. i \in 1 .. Len(f.stack[c])
          BY <1>2
    <3>2. f.stack[c][i] = NoSpill <=> i > first
          BY <3>1, <1>1 DEF OldestSpilled
    <3>3. QED
          BY <3>2, <1>2, <1>3, <1>5
  <2>2. ASSUME NEW d \in Class
        PROVE  /\ g.firstNoSpill[d] <= Len(g.stack[d])
               /\ \A i \in 1 .. Len(g.stack[d]) : g.stack[d][i] = NoSpill <=> i > g.firstNoSpill[d]
    <3>1. CASE d = c
      <4>1. Len(g.stack[d]) = size /\ g.stack[d] = stack /\ g.firstNoSpill[d] = last
            BY ONLY <3>1, <1>3, <1>8, Zenon
      <4>2. QED
            BY ONLY <4>1, <2>1, <1>6
    <3>2. CASE d # c
      <4>1. g.stack[d] = f.stack[d] /\ g.firstNoSpill[d] = f.firstNoSpill[d]
            BY <3>2, <1>8
      <4>2. QED
            BY <4>1, <1>1 DEF OldestSpilled
    <3>3. QED
          BY ONLY <3>1, <3>2
  <2>3. QED
        BY ONLY <2>2 DEF OldestSpilled
\* With no slot to free, those who have one stay the same.
<1>11. CASE slot = NoSpill
  <2>1. Holders(g) = Holders(f)
    <3>1. g.free = f.free /\ \A d \in Class : g.firstNoSpill[d] = f.firstNoSpill[d]
          BY <1>5, <1>7, <1>8, <1>11
    <3>2. QED
          BY <3>1 DEF Holders
  <2>2. ASSUME NEW h \in Holders(f) PROVE Held(g, h) = Held(f, h)
    <3>1. CASE h[1] = "free"
          BY <3>1, <1>5, <1>7, <1>11 DEF Held
    <3>2. CASE h[1] = c
      <4>1. h[2] \in 1 .. first /\ h[1] # "free"
            BY <3>2 DEF Holders, Class
      <4>2. h[2] \in 1 .. size
            BY <4>1, <1>2, <1>5, <1>11
      <4>3. QED
            BY <4>1, <4>2, <3>2, <1>3, <1>8 DEF Held
    <3>3. CASE h[1] # "free" /\ h[1] # c
          BY <3>3, <1>8 DEF Holders, Held
    <3>4. QED
          BY <3>1, <3>2, <3>3
  <2>3. Region(g) = Region(f)
        BY <1>9 DEF Region
  <2>4. OneHolder(g)
        BY <2>1, <2>2, <2>3, <1>1 DEF OneHolder
  <2>5. QED
        BY <2>4, <1>2, <1>3, <1>7, <1>8, <1>9, <1>10 DEF FrameOK, g, last, size, first
\* Otherwise the last place of the free list takes over what c had.
<1>12. CASE slot # NoSpill
  <2>1. /\ Len(free) = L + 1 /\ free[L + 1] = slot
        /\ \A i \in 1 .. L : free[i] = f.free[i]
        /\ first = size + 1 /\ last = size
    <3>1. slot \in Nat /\ free = Append(f.free, slot) /\ first = size + 1 /\ last = size
          BY <1>5, <1>12
    <3>2. /\ Len(Append(f.free, slot)) = Len(f.free) + 1
          /\ Append(f.free, slot)[Len(f.free) + 1] = slot
          /\ \A i \in 1 .. Len(f.free) : Append(f.free, slot)[i] = f.free[i]
          BY <1>2, <3>1, AppendProperties
    <3>3. QED
          BY <3>1, <3>2
  <2> HIDE DEF L, size, first
  <2>2. /\ \A i : <<"free", i>> \in Holders(f) <=> i \in 1 .. L
        /\ \A i : <<"free", i>> \in Holders(g) <=> i \in 1 .. L + 1
        BY <2>1, <1>2, <1>7 DEF Holders, Class, L
  <2>3. /\ \A i : <<c, i>> \in Holders(f) <=> i \in 1 .. size + 1
        /\ \A i : <<c, i>> \in Holders(g) <=> i \in 1 .. size
        BY <2>1, <1>2, <1>8 DEF Holders, Class, first
  <2>4. \A d \in Class : d # c => \A i : <<d, i>> \in Holders(g) <=> <<d, i>> \in Holders(f)
        BY <1>8 DEF Holders, Class
  <2>5. ASSUME NEW h, h \in Holders(f) \/ h \in Holders(g)
        PROVE  \/ \E i : h = <<"free", i>>
               \/ \E i : h = <<c, i>>
               \/ \E d \in Class : \E i : d # c /\ h = <<d, i>>
        BY <2>5 DEF Holders
  <2>6. /\ \A i \in 1 .. L : Held(g, <<"free", i>>) = Held(f, <<"free", i>>)
        /\ Held(g, <<"free", L + 1>>) = slot
        BY <2>1, <1>7 DEF Held
  <2>7. /\ \A i \in 1 .. size : Held(g, <<c, i>>) = Held(f, <<c, i>>)
        /\ Held(f, <<c, size + 1>>) = slot
        BY <1>3, <1>4, <1>8 DEF Held, Class
  <2>8. \A d \in Class : d # c => \A i : Held(g, <<d, i>>) = Held(f, <<d, i>>)
        BY <1>8 DEF Held, Class
  <2> DEFINE Before(h) == IF h = <<"free", L + 1>> THEN <<c, size + 1>> ELSE h
             After(h)  == IF h = <<c, size + 1>> THEN <<"free", L + 1>> ELSE h
  <2>9. <<c, size + 1>> \notin Holders(g) /\ <<"free", L + 1>> \notin Holders(f)
        BY <2>2, <2>3, <1>2
  <2>10. c # "free"
         BY DEF Class
  <2>11. ASSUME NEW h \in Holders(g)
         PROVE  Before(h) \in Holders(f) /\ Held(g, h) = Held(f, Before(h))
    <3>1. CASE \E i : h = <<"free", i>>
      <4>1. PICK i \in 1 .. L + 1 : h = <<"free", i>>
            BY <3>1, <2>2
      <4>2. CASE i = L + 1
        <5>1. size + 1 \in 1 .. size + 1
              BY <1>2
        <5>2. QED
              BY <4>1, <4>2, <5>1, <2>3, <2>6, <2>7
      <4>3. CASE i # L + 1
        <5>1. i \in 1 .. L /\ h # <<"free", L + 1>>
              BY <4>1, <4>3, <1>2
        <5>2. QED
              BY <4>1, <5>1, <2>2, <2>6
      <4>4. QED
            BY <4>2, <4>3
    <3>2. CASE \E i : h = <<c, i>>
      <4>1. PICK i \in 1 .. size : h = <<c, i>>
            BY <3>2, <2>3
      <4>2. i \in 1 .. size + 1
            BY <1>2
      <4>3. QED
            BY <4>1, <4>2, <2>3, <2>7, <2>10
    <3>3. CASE \E d \in Class : \E i : d # c /\ h = <<d, i>>
      <4>1. PICK d \in Class : d # c /\ \E i : h = <<d, i>>
            BY <3>3
      <4>2. d # "free"
            BY DEF Class
      <4>3. QED
            BY <4>1, <4>2, <2>4, <2>8
    <3>4. QED
          BY <3>1, <3>2, <3>3, <2>5
  <2>12. ASSUME NEW h \in Holders(f)
         PROVE  After(h) \in Holders(g) /\ Before(After(h)) = h
    <3>1. CASE h = <<c, size + 1>>
      <4>1. L + 1 \in 1 .. L + 1
            BY <1>2
      <4>2. QED
            BY <3>1, <4>1, <2>2
    <3>2. CASE h # <<c, size + 1>>
      <4>1. h \in Holders(g)
        <5>1. CASE \E i : h = <<"free", i>>
          <6>1. PICK i \in 1 .. L : h = <<"free", i>>
                BY <5>1, <2>2
          <6>2. i \in 1 .. L + 1
                BY <1>2
          <6>3. QED
                BY <6>1, <6>2, <2>2
        <5>2. CASE \E i : h = <<c, i>>
          <6>1. PICK i \in 1 .. size + 1 : h = <<c, i>>
                BY <5>2, <2>3
          <6>2. i \in 1 .. size
                BY <6>1, <3>2, <1>2
          <6>3. QED
                BY <6>1, <6>2, <2>3
        <5>3. CASE \E d \in Class : \E i : d # c /\ h = <<d, i>>
              BY <5>3, <2>4
        <5>4. QED
              BY <5>1, <5>2, <5>3, <2>5
      <4>2. QED
            BY <4>1, <3>2, <2>9
    <3>3. QED
          BY <3>1, <3>2
  <2>13. ASSUME NEW e \in Holders(g), NEW h \in Holders(g), Before(e) = Before(h)
         PROVE  e = h
         BY <2>9, <2>13
  <2> HIDE DEF Before, After
  <2>14. Region(g) = Region(f)
         BY <1>9 DEF Region
  <2>15. OneHolder(g)
    <3>1. ASSUME NEW h \in Holders(g) PROVE Held(g, h) \in Region(g)
          BY <2>11, <2>14, <1>1 DEF OneHolder
    <3>2. ASSUME NEW e \in Holders(g), NEW h \in Holders(g), Held(g, e) = Held(g, h) PROVE e = h
      <4>1. Held(f, Before(e)) = Held(f, Before(h)) /\ Before(e) \in Holders(f) /\ Before(h) \in Holders(f)
            BY <3>2, <2>11
      <4>2. Before(e) = Before(h)
            BY <4>1, <1>1 DEF OneHolder
      <4>3. QED
            BY <4>2, <2>13
    <3>3. ASSUME NEW s \in Region(g) PROVE \E h \in Holders(g) : Held(g, h) = s
      <4>1. PICK h \in Holders(f) : Held(f, h) = s
            BY <2>14, <1>1 DEF OneHolder
      <4>2. After(h) \in Holders(g) /\ Held(g, After(h)) = s
            BY <4>1, <2>11, <2>12
      <4>3. QED
            BY <4>2
    <3>4. QED
          BY <3>1, <3>2, <3>3 DEF OneHolder
  <2>16. QED
         BY <2>15, <1>2, <1>3, <1>7, <1>8, <1>9, <1>10 DEF FrameOK, g, last, size, first
<1>13. QED
       BY <1>11, <1>12

\* A temporary is pushed and popped.
LEMMA ReserveKeepsFrame ==
    ASSUME NEW f, FrameOK(f), NEW c \in Class, NoSpillLimit[c] \in Nat \ {0},
           Len(f.stack[c]) - f.firstNoSpill[c] <= NoSpillLimit[c]
    PROVE  LET g == ReserveTemp(f, c)
           IN  /\ FrameOK(g) /\ g.base = f.base /\ g.old = f.old /\ f.max <= g.max
               /\ Len(g.stack[c]) = Len(f.stack[c])
               /\ Len(g.stack[c]) - g.firstNoSpill[c] <= NoSpillLimit[c]
               /\ \A d \in Class : d # c => /\ Len(g.stack[d]) = Len(f.stack[d])
                                            /\ g.firstNoSpill[d] = f.firstNoSpill[d]
<1> DEFINE p == PushTemp(f, c, FALSE)
           g == PopTemp(p, c)
<1>1. /\ FrameOK(p) /\ p.base = f.base /\ p.old = f.old /\ f.max <= p.max
      /\ Len(p.stack[c]) = Len(f.stack[c]) + 1
      /\ Len(p.stack[c]) - p.firstNoSpill[c] <= NoSpillLimit[c]
      /\ \A d \in Class : d # c => /\ Len(p.stack[d]) = Len(f.stack[d])
                                   /\ p.firstNoSpill[d] = f.firstNoSpill[d]
      BY FALSE \in BOOLEAN, PushKeepsFrame
<1> HIDE DEF p
<1>2. Len(f.stack[c]) \in Nat /\ p.firstNoSpill[c] \in Nat
      BY <1>1, FrameTypes DEF FrameOK
<1>3. Len(p.stack[c]) > 0
      BY <1>1, <1>2
<1>4. /\ FrameOK(g) /\ g.base = p.base /\ g.old = p.old /\ g.max = p.max
      /\ Len(g.stack[c]) = Len(p.stack[c]) - 1
      /\ g.firstNoSpill[c] = Smaller(p.firstNoSpill[c], Len(p.stack[c]) - 1)
      /\ \A d \in Class : d # c => /\ Len(g.stack[d]) = Len(p.stack[d])
                                   /\ g.firstNoSpill[d] = p.firstNoSpill[d]
      BY <1>1, <1>3, PopKeepsFrame
<1> HIDE DEF g
<1>5. Len(g.stack[c]) = Len(f.stack[c]) /\ Len(g.stack[c]) - g.firstNoSpill[c] <= NoSpillLimit[c]
      BY <1>1, <1>2, <1>4 DEF Smaller
<1>6. ReserveTemp(f, c) = g
      BY DEF ReserveTemp, g, p
<1>7. QED
      BY <1>1, <1>4, <1>5, <1>6

\* All temporaries of both classes are spilled.
LEMMA ForceSpillKeepsFrame ==
    ASSUME NEW f, FrameOK(f)
    PROVE  LET g == ForceSpillAll(f)
           IN  /\ FrameOK(g) /\ g.base = f.base /\ g.old = f.old /\ f.max <= g.max
               /\ \A c \in Class : /\ Len(g.stack[c]) = Len(f.stack[c])
                                   /\ g.firstNoSpill[c] = Len(g.stack[c])
<1> DEFINE p == SpillUpTo(f, "integral", Len(f.stack["integral"]))
           g == SpillUpTo(p, "float", Len(p.stack["float"]))
<1>1. "integral" \in Class /\ "float" \in Class /\ \A c \in Class : c = "integral" \/ c = "float"
      BY DEF Class
<1>2. Len(f.stack["integral"]) \in Nat /\ f.firstNoSpill["integral"] \in Nat
      BY <1>1, FrameTypes DEF FrameOK
<1>3. Len(f.stack["integral"]) \in 0 .. Len(f.stack["integral"])
      BY <1>2
<1>4. /\ FrameOK(p) /\ p.base = f.base /\ p.old = f.old /\ f.max <= p.max
      /\ \A d \in Class : Len(p.stack[d]) = Len(f.stack[d])
      /\ p.firstNoSpill["integral"] = Larger(f.firstNoSpill["integral"], Len(f.stack["integral"]))
      BY <1>1, <1>3, SpillKeepsFrame
<1> HIDE DEF p
<1>5. Len(p.stack["float"]) \in Nat /\ p.firstNoSpill["float"] \in Nat
      BY <1>1, <1>4, FrameTypes DEF FrameOK
<1>6. Len(p.stack["float"]) \in 0 .. Len(p.stack["float"])
      BY <1>5
<1>7. /\ FrameOK(g) /\ g.base = p.base /\ g.old = p.old /\ p.max <= g.max
      /\ \A d \in Class : Len(g.stack[d]) = Len(p.stack[d])
      /\ g.firstNoSpill["float"] = Larger(p.firstNoSpill["float"], Len(p.stack["float"]))
      /\ \A d \in Class : d # "float" => g.firstNoSpill[d] = p.firstNoSpill[d]
      BY <1>1, <1>4, <1>6, SpillKeepsFrame
<1> HIDE DEF g
<1>8. /\ f.firstNoSpill["integral"] <= Len(f.stack["integral"])
      /\ p.firstNoSpill["float"] <= Len(p.stack["float"])
      BY <1>1, <1>4 DEF FrameOK, OldestSpilled
<1>9. /\ p.firstNoSpill["integral"] = Len(f.stack["integral"])
      /\ g.firstNoSpill["float"] = Len(p.stack["float"])
      BY <1>2, <1>4, <1>5, <1>7, <1>8 DEF Larger
<1>10. \A c \in Class : Len(g.stack[c]) = Len(f.stack[c]) /\ g.firstNoSpill[c] = Len(g.stack[c])
  <2>1. g.firstNoSpill["integral"] = p.firstNoSpill["integral"]
        BY <1>1, <1>7
  <2>2. QED
        BY <2>1, <1>1, <1>4, <1>7, <1>9
<1>11. f.max \in Nat /\ p.max \in Nat /\ g.max \in Nat
       BY <1>4, <1>7 DEF FrameOK, FrameRecords
<1>12. ForceSpillAll(f) = g
       BY DEF ForceSpillAll, g, p
<1>13. QED
       BY <1>4, <1>7, <1>10, <1>11, <1>12

\* A frame without temporaries whose top is the aligned base.
LEMMA EmptyFrameIsOK ==
    ASSUME NEW g \in FrameRecords, g.free = << >>, g.top = UpAlign(g.base, 8), g.top <= g.max,
           \A c \in Class : Len(g.stack[c]) = 0 /\ g.firstNoSpill[c] = 0
    PROVE  FrameOK(g)
<1>1. Bottom(g) = g.top /\ g.top \in Nat
      BY DEF Bottom, FrameRecords
<1>2. Count(g) = 0
      BY <1>1 DEF Count
<1>3. TopIsAligned(g)
      BY <1>1, <1>2 DEF TopIsAligned
<1>4. OldestSpilled(g)
      BY DEF OldestSpilled
<1>5. Holders(g) = {} /\ Region(g) = {}
      BY <1>2 DEF Holders, Region
<1>6. QED
      BY <1>3, <1>4, <1>5 DEF FrameOK, OneHolder

\* A variable is laid out behind all others.
LEMMA PushLocalKeepsFrame ==
    ASSUME NEW f, FrameOK(f), NEW layout \in (Nat \ {0}) \X {1, 2, 4, 8},
           \A c \in Class : Len(f.stack[c]) = 0
    PROVE  LET g == PushLocalVar(f, layout)
           IN  /\ FrameOK(g) /\ g.stack = f.stack /\ g.firstNoSpill = f.firstNoSpill
               /\ LocalVarOffset(f, layout) \in Nat /\ f.base <= LocalVarOffset(f, layout)
               /\ g.base = LocalVarOffset(f, layout) + layout[1]
               /\ g.old = Append(f.old, f.base)
<1> DEFINE at   == LocalVarOffset(f, layout)
           base == at + layout[1]
           top  == UpAlign(base, 8)
           g    == PushLocalVar(f, layout)
<1>1. /\ f \in FrameRecords /\ f.base \in Nat /\ f.max \in Nat /\ f.old \in Seq(Nat)
      /\ layout[1] \in Nat /\ layout[2] \in {1, 2, 4, 8}
      BY DEF FrameOK, FrameRecords
<1>2. at \in Nat /\ f.base <= at
      BY <1>1, AlignmentRoundsUp DEF LocalVarOffset
<1> HIDE DEF at
<1>3. base \in Nat
      BY <1>1, <1>2
<1> HIDE DEF base
<1>4. top \in Nat /\ Larger(f.max, top) \in Nat /\ top <= Larger(f.max, top)
  <2>1. top \in Nat
        BY <1>3, AlignmentRoundsUp
  <2>2. QED
        BY <2>1, <1>1 DEF Larger
<1> HIDE DEF top
<1>5. Append(f.old, f.base) \in Seq(Nat) /\ << >> \in Seq(Nat)
      BY <1>1, AppendProperties, EmptySeq
<1>6. g = [f EXCEPT !.old = Append(@, f.base), !.base = base, !.top = top,
                    !.max = Larger(@, top), !.free = << >>]
      BY DEF PushLocalVar, at, base, top
<1> HIDE DEF g
<1>7. /\ g \in FrameRecords /\ g.free = << >> /\ g.top = top /\ g.base = base
      /\ g.max = Larger(f.max, top) /\ g.old = Append(f.old, f.base)
      /\ g.stack = f.stack /\ g.firstNoSpill = f.firstNoSpill
      BY <1>1, <1>3, <1>4, <1>5, <1>6 DEF FrameRecords
<1>8. \A c \in Class : Len(g.stack[c]) = 0 /\ g.firstNoSpill[c] = 0
  <2>1. ASSUME NEW c \in Class PROVE f.firstNoSpill[c] = 0
    <3>1. f.firstNoSpill[c] \in Nat /\ f.firstNoSpill[c] <= Len(f.stack[c])
          BY <1>1, FrameTypes DEF FrameOK, OldestSpilled
    <3>2. QED
          BY <3>1
  <2>2. QED
        BY <2>1, <1>7
<1>9. FrameOK(g)
      BY <1>4, <1>7, <1>8, EmptyFrameIsOK DEF top
<1>10. QED
       BY <1>2, <1>7, <1>9 DEF g, at, base

\* The newest variable goes away, and the base that was before it comes back.
LEMMA PopLocalKeepsFrame ==
    ASSUME NEW f, FrameOK(f), Len(f.old) > 0, f.old[Len(f.old)] <= f.base,
           \A c \in Class : Len(f.stack[c]) = 0
    PROVE  LET g == PopLocalVar(f)
           IN  /\ FrameOK(g) /\ g.stack = f.stack /\ g.firstNoSpill = f.firstNoSpill
               /\ g.base = f.old[Len(f.old)] /\ g.max = f.max
               /\ Len(g.old) = Len(f.old) - 1 /\ \A i \in 1 .. Len(f.old) - 1 : g.old[i] = f.old[i]
<1> DEFINE n    == Len(f.old)
           base == f.old[n]
           old  == SubSeq(f.old, 1, n - 1)
           g    == PopLocalVar(f)
<1>1. /\ f \in FrameRecords /\ f.base \in Nat /\ f.max \in Nat /\ f.old \in Seq(Nat) /\ n \in Nat
      BY DEF FrameOK, FrameRecords
<1>2. base \in Nat
  <2>1. n \in 1 .. Len(f.old)
        BY <1>1
  <2>2. QED
        BY <2>1, <1>1, ElementOfSeq
<1>3. old \in Seq(Nat) /\ Len(old) = n - 1 /\ \A i \in 1 .. n - 1 : old[i] = f.old[i]
  <2>1. n - 1 \in 0 .. Len(f.old)
        BY <1>1
  <2>2. QED
        BY <2>1, <1>1, PrefixProperties
<1>4. UpAlign(base, 8) \in Nat /\ UpAlign(base, 8) <= f.max
  <2>1. base <= f.base
        OBVIOUS
  <2> HIDE DEF base
  <2>2. UpAlign(base, 8) \in Nat /\ UpAlign(base, 8) <= UpAlign(f.base, 8) /\ UpAlign(f.base, 8) \in Nat
    <3> DEFINE b == f.base
    <3>1. b \in Nat /\ base <= b
          BY <2>1, <1>1
    <3> HIDE DEF b
    <3>2. UpAlign(base, 8) <= UpAlign(b, 8)
          BY <3>1, <1>2, SlotAlignment
    <3>3. QED
          BY <3>1, <3>2, <1>2, AlignmentRoundsUp DEF b
  <2>3. Count(f) \in Nat /\ f.top = UpAlign(f.base, 8) + 8 * Count(f) /\ f.top <= f.max
        BY DEF FrameOK, TopIsAligned, Bottom
  <2>4. QED
        BY <2>2, <2>3, <1>1
<1>5. /\ g \in FrameRecords /\ g.free = << >> /\ g.top = UpAlign(base, 8) /\ g.base = base
      /\ g.max = f.max /\ g.old = old
      /\ g.stack = f.stack /\ g.firstNoSpill = f.firstNoSpill
  <2>1. << >> \in Seq(Nat)
        BY EmptySeq
  <2>2. QED
        BY <2>1, <1>1, <1>2, <1>3, <1>4 DEF FrameRecords, PopLocalVar
<1> HIDE DEF g, base, old
<1>6. \A c \in Class : Len(g.stack[c]) = 0 /\ g.firstNoSpill[c] = 0
  <2>1. ASSUME NEW c \in Class PROVE f.firstNoSpill[c] = 0
    <3>1. f.firstNoSpill[c] \in Nat /\ f.firstNoSpill[c] <= Len(f.stack[c])
          BY <1>1, FrameTypes DEF FrameOK, OldestSpilled
    <3>2. QED
          BY <3>1
  <2>2. QED
        BY <2>1, <1>5
<1>7. FrameOK(g)
      BY <1>4, <1>5, <1>6, EmptyFrameIsOK
<1>8. QED
      BY <1>3, <1>5, <1>7 DEF g, base

-----------------------------------------------------------------------------
(* Every step keeps the invariant                                          *)

Pending(s, c) == {i \in DOMAIN s : s[i] = c}

\* A stack with one more has one more of that class.
LEMMA PendingAfterPush ==
    ASSUME NEW s \in Seq(Class), NEW c \in Class, NEW d \in Class
    PROVE  /\ Append(s, c) \in Seq(Class)
           /\ Cardinality(Pending(Append(s, c), d)) = Cardinality(Pending(s, d)) + (IF d = c THEN 1 ELSE 0)
<1> DEFINE n == Len(s)
           t == Append(s, c)
<1>1. n \in Nat /\ DOMAIN s = 1 .. n
      BY LenProperties
<1>2. t \in Seq(Class) /\ Len(t) = n + 1 /\ t[n + 1] = c /\ \A i \in 1 .. n : t[i] = s[i]
      BY AppendProperties
<1>3. DOMAIN t = 1 .. n + 1
      BY <1>2, LenProperties
<1> HIDE DEF n, t
<1>4. IsFiniteSet(Pending(s, d)) /\ Cardinality(Pending(s, d)) \in Nat
  <2>1. IsFiniteSet(1 .. n)
        BY <1>1, FS_Interval
  <2>2. Pending(s, d) \in SUBSET (1 .. n)
        BY <1>1 DEF Pending
  <2>3. QED
        BY <2>1, <2>2, FS_Subset, FS_CardinalityType
<1>5. CASE d = c
  <2>1. Pending(t, d) = Pending(s, d) \cup {n + 1}
    <3>1. \A i : i \in 1 .. n + 1 <=> i \in 1 .. n \/ i = n + 1
          BY <1>1
    <3>2. n + 1 \in Pending(t, d)
          BY <3>1, <1>2, <1>3, <1>5 DEF Pending
    <3>3. ASSUME NEW i \in 1 .. n PROVE i \in Pending(t, d) <=> i \in Pending(s, d)
          BY <3>1, <3>3, <1>1, <1>2, <1>3 DEF Pending
    <3>4. Pending(t, d) \subseteq 1 .. n + 1 /\ Pending(s, d) \subseteq 1 .. n
          BY <1>1, <1>3 DEF Pending
    <3>5. QED
          BY ONLY <3>1, <3>2, <3>3, <3>4
  <2>2. n + 1 \notin Pending(s, d)
        BY <1>1 DEF Pending
  <2>3. QED
        BY <2>1, <2>2, <1>2, <1>4, <1>5, FS_AddElement, ZenonT(30) DEF t
<1>6. CASE d # c
  <2>1. Pending(t, d) = Pending(s, d)
        BY <1>1, <1>2, <1>3, <1>6 DEF Pending
  <2>2. QED
        BY <2>1, <1>2, <1>4, <1>6 DEF t
<1>7. QED
      BY <1>5, <1>6

\* A stack with one less has one less of that class.
LEMMA PendingAfterPop ==
    ASSUME NEW s \in Seq(Class), s # << >>, NEW d \in Class
    PROVE  /\ s[Len(s)] \in Class /\ SubSeq(s, 1, Len(s) - 1) \in Seq(Class)
           /\ Cardinality(Pending(SubSeq(s, 1, Len(s) - 1), d)) =
                  Cardinality(Pending(s, d)) - (IF d = s[Len(s)] THEN 1 ELSE 0)
           /\ Cardinality(Pending(s, s[Len(s)])) > 0
<1> DEFINE n == Len(s)
           t == SubSeq(s, 1, n - 1)
<1>1. n \in Nat /\ n > 0 /\ DOMAIN s = 1 .. n
      BY LenProperties, EmptySeq
<1>2. t \in Seq(Class) /\ Len(t) = n - 1 /\ \A i \in 1 .. n - 1 : t[i] = s[i]
  <2>1. n - 1 \in 0 .. Len(s)
        BY <1>1
  <2>2. QED
        BY <2>1, PrefixProperties
<1>3. DOMAIN t = 1 .. n - 1 /\ s[n] \in Class
  <2>1. n \in 1 .. Len(s)
        BY <1>1
  <2>2. QED
        BY <2>1, <1>2, LenProperties, ElementOfSeq
<1> HIDE DEF n, t
<1>4. \A c \in Class : IsFiniteSet(Pending(s, c)) /\ Cardinality(Pending(s, c)) \in Nat
  <2>1. IsFiniteSet(1 .. n)
        BY <1>1, FS_Interval
  <2>2. \A c \in Class : Pending(s, c) \in SUBSET (1 .. n)
        BY <1>1 DEF Pending
  <2>3. QED
        BY <2>1, <2>2, FS_Subset, FS_CardinalityType
<1>5. n \in Pending(s, s[n])
      BY <1>1 DEF Pending
<1>6. Cardinality(Pending(s, s[n])) > 0
  <2>1. Pending(s, s[n]) # {}
        BY <1>5
  <2>2. Cardinality(Pending(s, s[n])) # 0
        BY <2>1, <1>3, <1>4, FS_EmptySet
  <2>3. QED
        BY <2>2, <1>3, <1>4
<1>7. CASE d = s[n]
  <2>1. Pending(t, d) = Pending(s, d) \ {n}
        BY <1>1, <1>2, <1>3, <1>7 DEF Pending
  <2>2. QED
        BY <2>1, <1>2, <1>3, <1>4, <1>5, <1>6, <1>7, FS_RemoveElement DEF t, n
<1>8. CASE d # s[n]
  <2>1. Pending(t, d) = Pending(s, d)
        BY <1>1, <1>2, <1>3, <1>8 DEF Pending
  <2>2. QED
        BY <2>1, <1>2, <1>3, <1>4, <1>6, <1>8 DEF t, n
<1>9. QED
      BY <1>7, <1>8

\* With nothing pending, the stacks are empty.
LEMMA NothingPending ==
    ASSUME StacksAgree, tempStack = << >>, NEW c \in Class
    PROVE  Len(frame.stack[c]) = 0
<1>1. Pending(tempStack, c) = {}
      BY DEF Pending
<1>2. Cardinality(Pending(tempStack, c)) = 0
      BY <1>1, FS_EmptySet
<1>3. QED
      BY <1>2 DEF StacksAgree, Pending

\* The locals do not depend on what is pending.
LEMMA LocalsStay ==
    ASSUME LocalsFollow, frame'.base = frame.base, frame'.old = frame.old, UNCHANGED locals
    PROVE  LocalsFollow'
  BY DEF LocalsFollow

\* At the beginning the frame is empty.
LEMMA InitFrame == ConstantsOK /\ Init => FrameIInv
<1> SUFFICES ASSUME ConstantsOK, Init PROVE FrameIInv
    OBVIOUS
<1>1. StartOffset \in Nat /\ UpAlign(StartOffset, 8) = StartOffset
  <2>1. StartOffset \in Nat /\ StartOffset % 8 = 0
        BY DEF ConstantsOK
  <2>2. QED
        BY <2>1, Z3 DEF UpAlign
<1>2. << >> \in Seq(Nat) /\ << >> \in Seq(Nat \cup {NoSpill}) /\ << >> \in Seq(Class) /\ << >> \in Seq(Nat \X Nat)
      /\ Len(<< >>) = 0
      BY EmptySeq
<1>3. /\ frame \in FrameRecords /\ frame.free = << >> /\ frame.base = StartOffset
      /\ frame.top = StartOffset /\ frame.max = StartOffset /\ frame.old = << >>
      /\ \A c \in Class : frame.stack[c] = << >> /\ frame.firstNoSpill[c] = 0
      BY <1>1, <1>2 DEF Init, EmptyFrame, FrameRecords
<1>4. FrameOK(frame)
      BY <1>1, <1>2, <1>3, EmptyFrameIsOK
<1>5. StacksAgree
  <2>1. ASSUME NEW c \in Class PROVE Cardinality({i \in DOMAIN tempStack : tempStack[i] = c}) = 0
    <3>1. {i \in DOMAIN tempStack : tempStack[i] = c} = {}
          BY DEF Init
    <3>2. QED
          BY <3>1, FS_EmptySet
  <2>2. MaxTemps \in Nat /\ \A c \in Class : NoSpillLimit[c] \in Nat
        BY DEF ConstantsOK
  <2>3. QED
        BY <2>1, <2>2, <1>2, <1>3 DEF Init, StacksAgree, NumNoSpill
<1>6. LocalsFollow
      BY <1>1, <1>2, <1>3 DEF Init, LocalsFollow
<1>7. QED
      BY <1>4, <1>5, <1>6 DEF FrameIInv

LEMMA PushTempStepFrame ==
    ASSUME ConstantsOK, FrameIInv, NEW c \in Class, NEW spill \in BOOLEAN, PushTempStep(c, spill)
    PROVE  FrameIInv'
<1>1. /\ FrameOK(frame) /\ StacksAgree /\ LocalsFollow
      /\ NoSpillLimit[c] \in Nat \ {0} /\ tempStack \in Seq(Class)
      BY DEF FrameIInv, ConstantsOK, StacksAgree
<1>2. /\ Len(frame.stack[c]) < MaxTemps /\ frame' = PushTemp(frame, c, spill)
      /\ tempStack' = Append(tempStack, c) /\ UNCHANGED locals
      BY DEF PushTempStep
<1>3. /\ FrameOK(frame') /\ frame'.base = frame.base /\ frame'.old = frame.old
      /\ Len(frame'.stack[c]) = Len(frame.stack[c]) + 1
      /\ Len(frame'.stack[c]) - frame'.firstNoSpill[c] <= NoSpillLimit[c]
      /\ \A d \in Class : d # c => /\ Len(frame'.stack[d]) = Len(frame.stack[d])
                                   /\ frame'.firstNoSpill[d] = frame.firstNoSpill[d]
      BY <1>1, <1>2, PushKeepsFrame
<1>4. ASSUME NEW d \in Class
      PROVE  /\ Cardinality({i \in DOMAIN tempStack' : tempStack'[i] = d}) = Len(frame'.stack[d])
             /\ Len(frame'.stack[d]) <= MaxTemps
             /\ NumNoSpill(frame', d) <= NoSpillLimit[d]
  <2> DEFINE more   == IF d = c THEN 1 ELSE 0
             len    == Len(frame.stack[d])
             newLen == Len(frame'.stack[d])
             count  == Cardinality(Pending(tempStack, d))
             newCount == Cardinality({i \in DOMAIN tempStack' : tempStack'[i] = d})
             kept   == NumNoSpill(frame', d)
  <2>1. newCount = count + more /\ (more = 0 \/ (more = 1 /\ d = c))
        BY <1>1, <1>2, PendingAfterPush DEF Pending
  <2>2. len \in Nat /\ MaxTemps \in Nat /\ len <= MaxTemps /\ count = len
        BY <1>1, FrameTypes DEF FrameOK, ConstantsOK, StacksAgree, Pending
  <2>3. newLen = len + more
    <3>1. CASE d = c
          BY <3>1, <1>3
    <3>2. CASE d # c
      <4>1. newLen = len /\ more = 0
            BY <3>2, <1>3
      <4> HIDE DEF newLen, len, more
      <4>2. QED
            BY <4>1, <2>2
    <3>3. QED
          BY <3>1, <3>2
  <2>4. kept <= NoSpillLimit[d]
    <3>1. CASE d = c
          BY <3>1, <1>3 DEF NumNoSpill
    <3>2. CASE d # c
          BY <3>2, <1>1, <1>3 DEF NumNoSpill, StacksAgree
    <3>3. QED
          BY <3>1, <3>2
  <2>5. d = c => len < MaxTemps
        BY <1>2
  <2> HIDE DEF more, len, newLen, count, newCount, kept
  <2>6. newCount = newLen /\ newLen <= MaxTemps
        BY <2>1, <2>2, <2>3, <2>5
  <2>7. QED
        BY <2>4, <2>6 DEF newCount, newLen, kept
<1>5. tempStack' \in Seq(Class)
      BY <1>1, <1>2, AppendProperties
<1>6. StacksAgree'
      BY <1>4, <1>5 DEF StacksAgree, NumNoSpill
<1>7. LocalsFollow'
      BY <1>1, <1>2, <1>3, LocalsStay
<1>8. QED
      BY <1>3, <1>6, <1>7 DEF FrameIInv

LEMMA PopTempStepFrame ==
    ASSUME ConstantsOK, FrameIInv, PopTempStep
    PROVE  FrameIInv'
<1> DEFINE c == tempStack[Len(tempStack)]
<1>1. FrameOK(frame) /\ StacksAgree /\ LocalsFollow /\ tempStack \in Seq(Class) /\ tempStack # << >>
      BY DEF FrameIInv, StacksAgree, PopTempStep
<1>2. /\ c \in Class
      /\ frame' = PopTemp(frame, c)
      /\ tempStack' = SubSeq(tempStack, 1, Len(tempStack) - 1) /\ UNCHANGED locals
      /\ tempStack' \in Seq(Class)
      /\ \A d \in Class : Cardinality(Pending(tempStack', d)) =
                              Cardinality(Pending(tempStack, d)) - (IF d = c THEN 1 ELSE 0)
      /\ Cardinality(Pending(tempStack, c)) > 0
      BY <1>1, PendingAfterPop DEF PopTempStep
<1> HIDE DEF c
<1>3. Len(frame.stack[c]) > 0 /\ Len(frame.stack[c]) \in Nat /\ frame.firstNoSpill[c] \in Nat
      BY <1>1, <1>2, FrameTypes DEF StacksAgree, Pending, FrameOK
<1>4. /\ FrameOK(frame') /\ frame'.base = frame.base /\ frame'.old = frame.old
      /\ Len(frame'.stack[c]) = Len(frame.stack[c]) - 1
      /\ frame'.firstNoSpill[c] = Smaller(frame.firstNoSpill[c], Len(frame.stack[c]) - 1)
      /\ \A d \in Class : d # c => /\ Len(frame'.stack[d]) = Len(frame.stack[d])
                                   /\ frame'.firstNoSpill[d] = frame.firstNoSpill[d]
      BY <1>1, <1>2, <1>3, PopKeepsFrame
<1>5. ASSUME NEW d \in Class
      PROVE  /\ Cardinality({i \in DOMAIN tempStack' : tempStack'[i] = d}) = Len(frame'.stack[d])
             /\ Len(frame'.stack[d]) <= MaxTemps
             /\ NumNoSpill(frame', d) <= NoSpillLimit[d]
  <2> DEFINE less   == IF d = c THEN 1 ELSE 0
             len    == Len(frame.stack[d])
             newLen == Len(frame'.stack[d])
             count  == Cardinality(Pending(tempStack, d))
             newCount == Cardinality({i \in DOMAIN tempStack' : tempStack'[i] = d})
             kept   == NumNoSpill(frame', d)
             limit  == NoSpillLimit[d]
             first  == frame.firstNoSpill[d]
             newFirst == frame'.firstNoSpill[d]
  <2>1. newCount = count - less /\ less \in {0, 1}
        BY <1>2 DEF Pending
  <2>2. len \in Nat /\ MaxTemps \in Nat /\ limit \in Nat \ {0} /\ first \in Nat
        /\ len <= MaxTemps /\ count = len /\ len - first <= limit
        BY <1>1, FrameTypes DEF FrameOK, ConstantsOK, StacksAgree, Pending, NumNoSpill
  <2>3. kept = newLen - newFirst
        BY DEF NumNoSpill
  <2>4. /\ d = c => less = 1 /\ len > 0 /\ newLen = len - 1 /\ newFirst = Smaller(first, len - 1)
        /\ d # c => less = 0 /\ newLen = len /\ newFirst = first
        BY <1>3, <1>4
  <2> HIDE DEF less, len, newLen, count, newCount, kept, limit, first, newFirst
  <2>5. newCount = newLen /\ newLen <= MaxTemps /\ kept <= limit
        BY <2>1, <2>2, <2>3, <2>4 DEF Smaller
  <2>6. QED
        BY <2>5 DEF newCount, newLen, kept, limit
<1>6. StacksAgree'
      BY <1>2, <1>5 DEF StacksAgree, NumNoSpill
<1>7. LocalsFollow'
      BY <1>1, <1>2, <1>4, LocalsStay
<1>8. QED
      BY <1>4, <1>6, <1>7 DEF FrameIInv

\* A step that leaves the lengths and what is pending as they are.
LEMMA StacksStay ==
    ASSUME StacksAgree, UNCHANGED tempStack,
           \A c \in Class : /\ Len(frame'.stack[c]) = Len(frame.stack[c])
                            /\ Len(frame'.stack[c]) - frame'.firstNoSpill[c] <= NoSpillLimit[c]
    PROVE  StacksAgree'
  BY DEF StacksAgree, NumNoSpill

LEMMA ReserveTempStepFrame ==
    ASSUME ConstantsOK, FrameIInv, NEW c \in Class, ReserveTempStep(c)
    PROVE  FrameIInv'
<1>1. /\ FrameOK(frame) /\ StacksAgree /\ LocalsFollow
      /\ NoSpillLimit[c] \in Nat \ {0}
      /\ Len(frame.stack[c]) - frame.firstNoSpill[c] <= NoSpillLimit[c]
      BY DEF FrameIInv, ConstantsOK, StacksAgree, NumNoSpill
<1>2. frame' = ReserveTemp(frame, c) /\ UNCHANGED tempStack /\ UNCHANGED locals
      BY DEF ReserveTempStep
<1>3. /\ FrameOK(frame') /\ frame'.base = frame.base /\ frame'.old = frame.old
      /\ Len(frame'.stack[c]) = Len(frame.stack[c])
      /\ Len(frame'.stack[c]) - frame'.firstNoSpill[c] <= NoSpillLimit[c]
      /\ \A d \in Class : d # c => /\ Len(frame'.stack[d]) = Len(frame.stack[d])
                                   /\ frame'.firstNoSpill[d] = frame.firstNoSpill[d]
      BY <1>1, <1>2, ReserveKeepsFrame
<1>4. \A d \in Class : /\ Len(frame'.stack[d]) = Len(frame.stack[d])
                       /\ Len(frame'.stack[d]) - frame'.firstNoSpill[d] <= NoSpillLimit[d]
      BY <1>1, <1>3 DEF StacksAgree, NumNoSpill
<1>5. StacksAgree' /\ LocalsFollow'
      BY <1>1, <1>2, <1>3, <1>4, StacksStay, LocalsStay
<1>6. QED
      BY <1>3, <1>5 DEF FrameIInv

LEMMA ForceSpillAllStepFrame ==
    ASSUME ConstantsOK, FrameIInv, ForceSpillAllStep
    PROVE  FrameIInv'
<1>1. FrameOK(frame) /\ StacksAgree /\ LocalsFollow /\ \A c \in Class : NoSpillLimit[c] \in Nat
      BY DEF FrameIInv, ConstantsOK
<1>2. frame' = ForceSpillAll(frame) /\ UNCHANGED tempStack /\ UNCHANGED locals
      BY DEF ForceSpillAllStep
<1>3. /\ FrameOK(frame') /\ frame'.base = frame.base /\ frame'.old = frame.old
      /\ \A c \in Class : /\ Len(frame'.stack[c]) = Len(frame.stack[c])
                          /\ frame'.firstNoSpill[c] = Len(frame'.stack[c])
      BY <1>1, <1>2, ForceSpillKeepsFrame
<1>4. ASSUME NEW c \in Class PROVE Len(frame'.stack[c]) - frame'.firstNoSpill[c] <= NoSpillLimit[c]
  <2> DEFINE len == Len(frame'.stack[c])
  <2>1. len \in Nat /\ frame'.firstNoSpill[c] = len
        BY <1>3, FrameTypes DEF FrameOK
  <2> HIDE DEF len
  <2>2. len - len <= NoSpillLimit[c]
        BY <2>1, <1>1
  <2>3. QED
        BY <2>1, <2>2 DEF len
<1>5. StacksAgree' /\ LocalsFollow'
      BY <1>1, <1>2, <1>3, <1>4, StacksStay, LocalsStay
<1>6. QED
      BY <1>3, <1>5 DEF FrameIInv

LEMMA PushLocalVarStepFrame ==
    ASSUME ConstantsOK, FrameIInv, NEW layout \in VarLayouts, PushLocalVarStep(layout)
    PROVE  FrameIInv'
<1> DEFINE at == LocalVarOffset(frame, layout)
           n  == Len(locals)
<1>1. /\ FrameOK(frame) /\ StacksAgree /\ LocalsFollow /\ tempStack = << >>
      /\ layout \in (Nat \ {0}) \X {1, 2, 4, 8} /\ StartOffset \in Nat
      /\ \A c \in Class : Len(frame.stack[c]) = 0
      BY NothingPending DEF FrameIInv, ConstantsOK, PushLocalVarStep
<1>2. /\ frame' = PushLocalVar(frame, layout) /\ UNCHANGED tempStack
      /\ locals' = Append(locals, << at, layout[1] >>)
      BY DEF PushLocalVarStep
<1>3. /\ FrameOK(frame') /\ frame'.stack = frame.stack /\ frame'.firstNoSpill = frame.firstNoSpill
      /\ at \in Nat /\ frame.base <= at /\ frame'.base = at + layout[1]
      /\ frame'.old = Append(frame.old, frame.base)
      BY <1>1, <1>2, PushLocalKeepsFrame
<1>4. StacksAgree'
      BY <1>1, <1>2, <1>3 DEF StacksAgree, NumNoSpill
<1> HIDE DEF at
<1>5. /\ locals \in Seq(Nat \X Nat) /\ n \in Nat /\ frame.old \in Seq(Nat) /\ Len(frame.old) = n
      /\ frame.base \in Nat /\ StartOffset <= frame.base /\ layout[1] \in Nat
      BY <1>1, LenProperties DEF LocalsFollow, FrameOK, FrameRecords
<1>6. /\ locals' \in Seq(Nat \X Nat) /\ Len(locals') = n + 1 /\ locals'[n + 1] = << at, layout[1] >>
      /\ \A i \in 1 .. n : locals'[i] = locals[i]
  <2>1. << at, layout[1] >> \in Nat \X Nat
        BY <1>3, <1>5
  <2>2. QED
        BY <2>1, <1>2, <1>5, AppendProperties
<1>7. /\ Len(frame'.old) = n + 1 /\ frame'.old[n + 1] = frame.base
      /\ \A i \in 1 .. n : frame'.old[i] = frame.old[i]
  <2>1. /\ Len(frame'.old) = Len(frame.old) + 1
        /\ Append(frame.old, frame.base)[Len(frame.old) + 1] = frame.base
        /\ \A i \in 1 .. Len(frame.old) : Append(frame.old, frame.base)[i] = frame.old[i]
        BY <1>3, <1>5, AppendProperties
  <2>2. QED
        BY <2>1, <1>3, <1>5
<1>8. \A i \in 1 .. n : /\ locals[i] \in Nat \X Nat /\ frame.old[i] \in Nat
                        /\ StartOffset <= frame.old[i] /\ frame.old[i] <= locals[i][1]
                        /\ locals[i][1] + locals[i][2] <= frame.base
                        /\ \A j \in i + 1 .. n : locals[i][1] + locals[i][2] <= frame.old[j]
      BY <1>1, <1>5, ElementOfSeq DEF LocalsFollow
<1> HIDE DEF n
<1>9. ASSUME NEW i \in 1 .. n + 1
      PROVE  /\ StartOffset <= frame'.old[i] /\ frame'.old[i] <= locals'[i][1]
             /\ locals'[i][1] + locals'[i][2] <= frame'.base
             /\ \A j \in i + 1 .. n + 1 : locals'[i][1] + locals'[i][2] <= frame'.old[j]
  <2>1. CASE i = n + 1
    <3>1. locals'[i][1] = at /\ locals'[i][2] = layout[1] /\ frame'.old[i] = frame.base
          BY <2>1, <1>6, <1>7
    <3>2. QED
          BY <2>1, <3>1, <1>1, <1>3, <1>5
  <2>2. CASE i \in 1 .. n
    <3>1. /\ locals'[i] = locals[i] /\ frame'.old[i] = frame.old[i] /\ locals[i] \in Nat \X Nat
          /\ StartOffset <= frame.old[i] /\ frame.old[i] <= locals[i][1]
          /\ locals[i][1] + locals[i][2] <= frame.base
          BY <2>2, <1>6, <1>7, <1>8
    <3>2. locals[i][1] + locals[i][2] <= frame'.base
      <4> DEFINE start == locals[i][1]
                 bytes == locals[i][2]
      <4>1. start \in Nat /\ bytes \in Nat /\ start + bytes <= frame.base
            BY <3>1
      <4> HIDE DEF start, bytes
      <4>2. start + bytes <= frame'.base
            BY <4>1, <1>3, <1>5
      <4>3. QED
            BY <4>2 DEF start, bytes
    <3>3. ASSUME NEW j \in i + 1 .. n + 1 PROVE locals[i][1] + locals[i][2] <= frame'.old[j]
      <4>1. CASE j = n + 1
            BY <4>1, <3>1, <1>7
      <4>2. CASE j # n + 1
        <5>1. j \in i + 1 .. n /\ j \in 1 .. n
              BY <2>2, <3>3, <4>2, <1>5
        <5>2. QED
              BY <5>1, <2>2, <1>7, <1>8
      <4>3. QED
            BY <4>1, <4>2
    <3>4. QED
          BY <3>1, <3>2, <3>3
  <2>3. QED
        BY <2>1, <2>2, <1>5
<1>10. StartOffset <= frame'.base
       BY <1>1, <1>3, <1>5
<1>11. LocalsFollow'
       BY <1>6, <1>7, <1>9, <1>10 DEF LocalsFollow
<1>12. QED
       BY <1>3, <1>4, <1>11 DEF FrameIInv

LEMMA PopLocalVarStepFrame ==
    ASSUME ConstantsOK, FrameIInv, PopLocalVarStep
    PROVE  FrameIInv'
<1> DEFINE n == Len(locals)
<1>1. /\ FrameOK(frame) /\ StacksAgree /\ LocalsFollow /\ tempStack = << >> /\ locals # << >>
      /\ StartOffset \in Nat
      /\ \A c \in Class : Len(frame.stack[c]) = 0
      BY NothingPending DEF FrameIInv, ConstantsOK, PopLocalVarStep
<1>2. /\ frame' = PopLocalVar(frame) /\ UNCHANGED tempStack
      /\ locals' = SubSeq(locals, 1, Len(locals) - 1)
      BY DEF PopLocalVarStep
<1>3. /\ locals \in Seq(Nat \X Nat) /\ n \in Nat /\ n > 0 /\ frame.old \in Seq(Nat) /\ Len(frame.old) = n
      /\ frame.base \in Nat
  <2>1. /\ locals \in Seq(Nat \X Nat) /\ frame.old \in Seq(Nat) /\ Len(frame.old) = n
        /\ frame.base \in Nat
        BY <1>1 DEF LocalsFollow, FrameOK, FrameRecords
  <2>2. n \in Nat /\ n > 0
        BY <2>1, <1>1, LenProperties, EmptySeq
  <2>3. QED
        BY <2>1, <2>2
<1>4. \A i \in 1 .. n : /\ locals[i] \in Nat \X Nat /\ frame.old[i] \in Nat
                        /\ StartOffset <= frame.old[i] /\ frame.old[i] <= locals[i][1]
                        /\ locals[i][1] + locals[i][2] <= frame.base
                        /\ \A j \in i + 1 .. n : locals[i][1] + locals[i][2] <= frame.old[j]
      BY <1>1, <1>3, ElementOfSeq DEF LocalsFollow
<1>5. frame.old[n] \in Nat /\ frame.old[n] <= frame.base /\ StartOffset <= frame.old[n]
  <2>1. n \in 1 .. n
        BY <1>3
  <2>2. /\ locals[n][1] \in Nat /\ locals[n][2] \in Nat /\ frame.old[n] \in Nat
        /\ StartOffset <= frame.old[n] /\ frame.old[n] <= locals[n][1]
        /\ locals[n][1] + locals[n][2] <= frame.base
        BY <2>1, <1>4
  <2>3. QED
        BY <2>2, <1>1, <1>3
<1>6. /\ FrameOK(frame') /\ frame'.stack = frame.stack /\ frame'.firstNoSpill = frame.firstNoSpill
      /\ frame'.base = frame.old[n] /\ Len(frame'.old) = n - 1
      /\ \A i \in 1 .. n - 1 : frame'.old[i] = frame.old[i]
      BY <1>1, <1>2, <1>3, <1>5, PopLocalKeepsFrame
<1>7. StacksAgree'
      BY <1>1, <1>2, <1>6 DEF StacksAgree, NumNoSpill
<1>8. /\ locals' \in Seq(Nat \X Nat) /\ Len(locals') = n - 1
      /\ \A i \in 1 .. n - 1 : locals'[i] = locals[i]
  <2>1. n - 1 \in 0 .. Len(locals)
        BY <1>3
  <2>2. QED
        BY <2>1, <1>2, <1>3, PrefixProperties
<1> HIDE DEF n
<1>9. ASSUME NEW i \in 1 .. n - 1
      PROVE  /\ StartOffset <= frame'.old[i] /\ frame'.old[i] <= locals'[i][1]
             /\ locals'[i][1] + locals'[i][2] <= frame'.base
             /\ \A j \in i + 1 .. n - 1 : locals'[i][1] + locals'[i][2] <= frame'.old[j]
  <2>1. i \in 1 .. n /\ n \in i + 1 .. n
        BY <1>3
  <2>2. \A j \in i + 1 .. n - 1 : j \in 1 .. n - 1 /\ j \in i + 1 .. n
        BY <1>3
  <2>3. QED
        BY <2>1, <2>2, <1>4, <1>6, <1>8
<1>10. LocalsFollow'
       BY <1>5, <1>6, <1>8, <1>9 DEF LocalsFollow
<1>11. QED
       BY <1>6, <1>7, <1>10 DEF FrameIInv

LEMMA StepFrame == ConstantsOK /\ FrameIInv /\ [Next]_vars => FrameIInv'
<1> SUFFICES ASSUME ConstantsOK, FrameIInv, [Next]_vars PROVE FrameIInv'
    OBVIOUS
<1>1. CASE UNCHANGED vars
      BY <1>1 DEF vars, FrameIInv, StacksAgree, LocalsFollow, NumNoSpill
<1>2. CASE Next
      BY <1>2, PushTempStepFrame, PopTempStepFrame, ReserveTempStepFrame, ForceSpillAllStepFrame,
         PushLocalVarStepFrame, PopLocalVarStepFrame DEF Next
<1>3. QED
      BY <1>1, <1>2

-----------------------------------------------------------------------------
(* What follows from the invariant                                         *)

\* A sequence is one of what it holds.
LEMMA SequenceOfItsElements ==
    ASSUME NEW S, NEW T, NEW s \in Seq(S), \A i \in 1 .. Len(s) : s[i] \in T
    PROVE  s \in Seq(T)
<1>1. Len(s) \in Nat /\ s \in [1 .. Len(s) -> S]
      BY LenProperties
<1>2. s \in [1 .. Len(s) -> T]
      BY <1>1
<1>3. QED
      BY <1>1, <1>2, FunctionIsSequence

\* Where the slots are.
LEMMA SlotsAreAboveLocals ==
    ASSUME NEW f, FrameOK(f)
    PROVE  /\ f.base \in Nat /\ f.base <= Bottom(f) /\ Bottom(f) \in Nat
           /\ Bottom(f) <= f.top /\ f.top <= f.max /\ f.max \in Nat /\ f.top \in Nat
           /\ \A s \in Region(f) : s \in Nat /\ Bottom(f) <= s /\ s + 8 <= f.max
<1>1. f.base \in Nat /\ f.max \in Nat /\ f.top \in Nat
      BY DEF FrameOK, FrameRecords
<1>2. Bottom(f) \in Nat /\ f.base <= Bottom(f)
      BY <1>1, AlignmentRoundsUp DEF Bottom
<1>3. Count(f) \in Nat /\ f.top = Bottom(f) + 8 * Count(f) /\ f.top <= f.max
      BY DEF FrameOK, TopIsAligned
<1>4. ASSUME NEW s \in Region(f) PROVE s \in Nat /\ Bottom(f) <= s /\ s + 8 <= f.max
  <2>1. PICK k \in 0 .. Count(f) - 1 : s = Bottom(f) + 8 * k
        BY DEF Region
  <2>2. QED
        BY <2>1, <1>1, <1>2, <1>3
<1>5. QED
      BY <1>1, <1>2, <1>3, <1>4

\* The spilled temporaries are the holders that are not in the free list.
LEMMA SpilledAreHolders ==
    ASSUME FrameIInv, MaxTemps \in Nat
    PROVE  /\ \A p : p \in Spilled <=> p \in Holders(frame) /\ p[1] \in Class
           /\ \A p \in Spilled : SlotOf(p) = Held(frame, p)
           /\ \A i : <<"free", i>> \in Holders(frame) <=> i \in DOMAIN frame.free
           /\ \A h \in Holders(frame) : h[1] \in Class \/ \E i : h = <<"free", i>>
<1>1. /\ frame \in FrameRecords /\ OldestSpilled(frame)
      /\ \A c \in Class : Len(frame.stack[c]) <= MaxTemps
      BY DEF FrameIInv, FrameOK, StacksAgree
<1>2. ASSUME NEW c \in Class, NEW i
      PROVE  <<c, i>> \in Spilled <=> <<c, i>> \in Holders(frame)
  <2> DEFINE len   == Len(frame.stack[c])
             first == frame.firstNoSpill[c]
  <2>1. /\ len \in Nat /\ first \in Nat /\ first <= len /\ len <= MaxTemps
        /\ \A j \in 1 .. len : frame.stack[c][j] = NoSpill <=> j > first
        BY <1>1, FrameTypes DEF OldestSpilled
  <2>2. <<c, i>> \in Spilled <=> i \in 1 .. MaxTemps /\ i <= len /\ frame.stack[c][i] # NoSpill
        BY DEF Spilled
  <2>3. <<c, i>> \in Holders(frame) <=> i \in 1 .. first
        BY <2>1 DEF Holders, Class
  <2> HIDE DEF len, first
  <2>4. i \in 1 .. MaxTemps /\ i <= len /\ frame.stack[c][i] # NoSpill <=> i \in 1 .. first
        BY <2>1
  <2>5. QED
        BY <2>2, <2>3, <2>4
<1>3. \A p \in Spilled : \E c \in Class : \E i : p = <<c, i>>
      BY DEF Spilled
<1>4. \A h \in Holders(frame) : (\E c \in Class : \E i : h = <<c, i>>) \/ \E i : h = <<"free", i>>
      BY DEF Holders
<1>5. \A h \in Holders(frame) : h[1] \in Class => \E c \in Class : \E i : h = <<c, i>>
      BY <1>4
<1>6. \A p \in Spilled : SlotOf(p) = Held(frame, p)
      BY <1>3 DEF SlotOf, Held, Class
<1>7. \A i : <<"free", i>> \in Holders(frame) <=> i \in DOMAIN frame.free
  <2>1. DOMAIN frame.free = 1 .. Len(frame.free) /\ Len(frame.free) \in Nat
        BY <1>1, LenProperties DEF FrameRecords
  <2>2. QED
        BY <2>1 DEF Holders, Class
<1>8. ASSUME NEW p PROVE p \in Spilled <=> p \in Holders(frame) /\ p[1] \in Class
  <2>1. CASE p \in Spilled
        BY <2>1, <1>2, <1>3
  <2>2. CASE p \in Holders(frame) /\ p[1] \in Class
        BY <2>2, <1>2, <1>5
  <2>3. QED
        BY <2>1, <2>2
<1>9. QED
      BY <1>4, <1>6, <1>7, <1>8

\* No slot is handed out twice and none is lost.
LEMMA FrameSlots == ConstantsOK /\ FrameIInv => SlotsExclusive
<1> SUFFICES ASSUME ConstantsOK, FrameIInv PROVE SlotsExclusive
    OBVIOUS
<1> DEFINE bottom == UpAlign(frame.base, 8)
           taken  == {SlotOf(p) : p \in Spilled}
           free   == {frame.free[i] : i \in DOMAIN frame.free}
           L      == Len(frame.free)
<1>1. FrameOK(frame) /\ OneHolder(frame) /\ MaxTemps \in Nat
      BY DEF FrameIInv, FrameOK, ConstantsOK
<1>2. /\ \A p : p \in Spilled <=> p \in Holders(frame) /\ p[1] \in Class
      /\ \A p \in Spilled : SlotOf(p) = Held(frame, p)
      /\ \A i : <<"free", i>> \in Holders(frame) <=> i \in DOMAIN frame.free
      /\ \A h \in Holders(frame) : h[1] \in Class \/ \E i : h = <<"free", i>>
      BY <1>1, SpilledAreHolders
<1>3. DOMAIN frame.free = 1 .. L /\ L \in Nat
      BY <1>1, LenProperties DEF FrameOK, FrameRecords
<1>4. \A i : Held(frame, <<"free", i>>) = frame.free[i]
      BY DEF Held
<1>5. Cardinality(taken) = Cardinality(Spilled)
  <2> DEFINE slot == [p \in Spilled |-> SlotOf(p)]
  <2>1. IsFiniteSet(Class) /\ IsFiniteSet(1 .. MaxTemps)
    <3>1. IsFiniteSet({} \cup {"integral"})
          BY FS_EmptySet, FS_AddElement
    <3>2. IsFiniteSet(({} \cup {"integral"}) \cup {"float"})
          BY <3>1, FS_AddElement
    <3>3. Class = ({} \cup {"integral"}) \cup {"float"}
          BY DEF Class
    <3>4. IsFiniteSet(1 .. MaxTemps)
          BY <1>1, FS_Interval
    <3>5. QED
          BY <3>2, <3>3, <3>4
  <2>2. IsFiniteSet(Spilled)
    <3>1. IsFiniteSet(Class \X (1 .. MaxTemps))
          BY <2>1, FS_Product
    <3>2. Spilled \in SUBSET (Class \X (1 .. MaxTemps))
          BY DEF Spilled
    <3>3. QED
          BY <3>1, <3>2, FS_Subset
  <2>3. \A p, q \in Spilled : SlotOf(p) = SlotOf(q) => p = q
        BY <1>1, <1>2 DEF OneHolder
  <2>4. slot \in Bijection(Spilled, taken)
        BY <2>3 DEF Bijection, Injection, Surjection, IsInjective
  <2>5. ExistsBijection(Spilled, taken)
        BY <2>4 DEF ExistsBijection
  <2> HIDE DEF taken
  <2>6. QED
        BY <2>2, <2>5, FS_Bijection
<1>6. Cardinality(free) = L
  <2> DEFINE slot == [i \in 1 .. L |-> frame.free[i]]
  <2>1. \A i, j \in 1 .. L : frame.free[i] = frame.free[j] => i = j
    <3>1. SUFFICES ASSUME NEW i \in 1 .. L, NEW j \in 1 .. L, frame.free[i] = frame.free[j] PROVE i = j
          OBVIOUS
    <3>2. <<"free", i>> \in Holders(frame) /\ <<"free", j>> \in Holders(frame)
          BY <1>2, <1>3
    <3>3. <<"free", i>> = <<"free", j>>
          BY <3>1, <3>2, <1>1, <1>4 DEF OneHolder
    <3>4. QED
          BY <3>3
  <2>2. slot \in Bijection(1 .. L, free)
        BY <2>1, <1>3 DEF Bijection, Injection, Surjection, IsInjective
  <2>3. ExistsBijection(1 .. L, free)
        BY <2>2 DEF ExistsBijection
  <2>4. IsFiniteSet(1 .. L) /\ Cardinality(1 .. L) = L
        BY <1>3, FS_Interval
  <2> HIDE DEF free
  <2>5. QED
        BY <2>3, <2>4, FS_Bijection
<1>7. taken \cap free = {}
  <2>1. ASSUME NEW p \in Spilled, NEW i \in DOMAIN frame.free, SlotOf(p) = frame.free[i] PROVE FALSE
    <3>3. p \in Holders(frame) /\ <<"free", i>> \in Holders(frame)
          BY <2>1, <1>2
    <3>4. Held(frame, p) = Held(frame, <<"free", i>>)
          BY <2>1, <1>2, <1>4
    <3>1. p = <<"free", i>>
          BY ONLY <3>3, <3>4, <1>1 DEF OneHolder
    <3>2. p[1] \in Class
          BY <1>2
    <3>5. QED
          BY <3>1, <3>2 DEF Class
  <2>2. QED
        BY <2>1
<1>8. taken \cup free = Region(frame)
  <2>1. ASSUME NEW s \in taken \cup free PROVE s \in Region(frame)
    <3>1. CASE s \in taken
          BY <3>1, <1>1, <1>2 DEF OneHolder
    <3>2. CASE s \in free
      <4>1. PICK i \in DOMAIN frame.free : s = frame.free[i]
            BY <3>2
      <4>2. <<"free", i>> \in Holders(frame)
            BY <1>2
      <4>3. QED
            BY <4>1, <4>2, <1>1, <1>4 DEF OneHolder
    <3>3. QED
          BY <3>1, <3>2
  <2>2. ASSUME NEW s \in Region(frame) PROVE s \in taken \cup free
    <3>1. PICK h \in Holders(frame) : Held(frame, h) = s
          BY <1>1 DEF OneHolder
    <3>2. CASE h[1] \in Class
          BY <3>1, <3>2, <1>2
    <3>3. CASE \E i : h = <<"free", i>>
          BY <3>1, <3>3, <1>2, <1>4
    <3>4. QED
          BY <3>2, <3>3, <1>2
  <2>3. QED
        BY <2>1, <2>2
<1>9. Region(frame) = {bottom + 8 * k : k \in 0 .. (frame.top - bottom) \div 8 - 1}
      BY DEF Region, Bottom, Count
<1>10. QED
       BY <1>5, <1>6, <1>7, <1>8, <1>9 DEF SlotsExclusive

\* Locals keep their bytes, and the frame covers everything.
LEMMA FrameBytes == ConstantsOK /\ FrameIInv => LocalsIntact /\ FrameCovers
<1> SUFFICES ASSUME ConstantsOK, FrameIInv PROVE LocalsIntact /\ FrameCovers
    OBVIOUS
<1>1. FrameOK(frame) /\ OneHolder(frame) /\ MaxTemps \in Nat /\ LocalsFollow /\ StartOffset \in Nat
      BY DEF FrameIInv, FrameOK, ConstantsOK
<1>2. /\ frame.base \in Nat /\ frame.base <= Bottom(frame) /\ Bottom(frame) \in Nat
      /\ Bottom(frame) <= frame.top /\ frame.top <= frame.max /\ frame.max \in Nat /\ frame.top \in Nat
      /\ \A s \in Region(frame) : s \in Nat /\ Bottom(frame) <= s /\ s + 8 <= frame.max
      BY <1>1, SlotsAreAboveLocals
<1>3. \A p \in Spilled : SlotOf(p) \in Region(frame)
      BY <1>1, SpilledAreHolders DEF OneHolder
<1>4. \A p \in Spilled : SlotOf(p) \in Nat /\ frame.base <= SlotOf(p) /\ SlotOf(p) + 8 <= frame.max
      BY <1>2, <1>3
<1>5. DOMAIN locals = 1 .. Len(locals) /\ Len(locals) \in Nat
      BY <1>1, LenProperties DEF LocalsFollow
<1>6. \A i \in 1 .. Len(locals) :
        /\ locals[i][1] \in Nat /\ locals[i][2] \in Nat /\ frame.old[i] \in Nat
        /\ StartOffset <= frame.old[i] /\ frame.old[i] <= locals[i][1]
        /\ locals[i][1] + locals[i][2] <= frame.base
        /\ \A j \in i + 1 .. Len(locals) : locals[i][1] + locals[i][2] <= frame.old[j]
  <2>1. locals \in Seq(Nat \X Nat) /\ frame.old \in Seq(Nat) /\ Len(frame.old) = Len(locals)
        BY <1>1 DEF LocalsFollow, FrameOK, FrameRecords
  <2>2. \A i \in 1 .. Len(locals) : locals[i] \in Nat \X Nat /\ frame.old[i] \in Nat
        BY <2>1, ElementOfSeq
  <2>3. QED
        BY <2>2, <1>1 DEF LocalsFollow
<1>7. ASSUME NEW i \in DOMAIN locals
      PROVE  /\ \A j \in (i + 1) .. Len(locals) :
                    Bytes(locals[i][1], locals[i][2]) \cap Bytes(locals[j][1], locals[j][2]) = {}
             /\ \A p \in Spilled : Bytes(locals[i][1], locals[i][2]) \cap Bytes(SlotOf(p), 8) = {}
             /\ Bytes(locals[i][1], locals[i][2]) \subseteq Bytes(StartOffset, frame.base - StartOffset)
  <2> DEFINE from == locals[i][1]
             n    == locals[i][2]
  <2>1. /\ from \in Nat /\ n \in Nat /\ StartOffset <= from /\ from + n <= frame.base
        /\ \A j \in i + 1 .. Len(locals) : from + n <= frame.old[j]
        /\ i \in Nat
    <3>1. i \in 1 .. Len(locals) /\ i \in Nat
          BY <1>5
    <3>2. frame.old[i] \in Nat /\ StartOffset <= frame.old[i] /\ frame.old[i] <= from /\ from \in Nat
          BY <3>1, <1>6
    <3>3. StartOffset <= from
          BY <3>2, <1>1
    <3>4. QED
          BY <3>1, <3>2, <3>3, <1>6
  <2> HIDE DEF from, n
  <2>2. ASSUME NEW j \in (i + 1) .. Len(locals) PROVE Bytes(from, n) \cap Bytes(locals[j][1], locals[j][2]) = {}
    <3>1. j \in 1 .. Len(locals)
          BY <2>1, <1>5
    <3>2. /\ frame.old[j] \in Nat /\ locals[j][1] \in Nat /\ locals[j][2] \in Nat
          /\ from + n <= frame.old[j] /\ frame.old[j] <= locals[j][1]
          BY <3>1, <2>1, <1>6
    <3>3. QED
          BY <3>2, <2>1 DEF Bytes
  <2>3. ASSUME NEW p \in Spilled PROVE Bytes(from, n) \cap Bytes(SlotOf(p), 8) = {}
    <3>1. SlotOf(p) \in Nat /\ frame.base <= SlotOf(p)
          BY <1>4
    <3>2. QED
          BY <3>1, <2>1, <1>2 DEF Bytes
  <2>4. Bytes(from, n) \subseteq Bytes(StartOffset, frame.base - StartOffset)
        BY <2>1, <1>1, <1>2 DEF Bytes
  <2>5. QED
        BY <2>2, <2>3, <2>4 DEF from, n
<1>8. LocalsIntact
      BY <1>7 DEF LocalsIntact
<1>9. ASSUME NEW i \in DOMAIN locals PROVE locals[i][1] + locals[i][2] <= frame.max
  <2>1. /\ locals[i][1] \in Nat /\ locals[i][2] \in Nat
        /\ locals[i][1] + locals[i][2] <= frame.base
        BY <1>5, <1>6
  <2>2. QED
        BY <2>1, <1>2
<1>10. FrameCovers
       BY <1>4, <1>9 DEF FrameCovers
<1>11. QED
       BY <1>8, <1>10

\* The newest temporaries are in registers.
LEMMA FrameRegisters == ConstantsOK /\ FrameIInv => NewestInRegisters
<1> SUFFICES ASSUME ConstantsOK, FrameIInv, NEW c \in Class
             PROVE  /\ NumNoSpill(frame, c) <= NoSpillLimit[c]
                    /\ \A i \in DOMAIN frame.stack[c] :
                        frame.stack[c][i] = NoSpill <=> i > frame.firstNoSpill[c]
    BY DEF NewestInRegisters
<1>1. frame \in FrameRecords /\ OldestSpilled(frame) /\ StacksAgree
      BY DEF FrameIInv, FrameOK
<1>2. DOMAIN frame.stack[c] = 1 .. Len(frame.stack[c])
      BY <1>1, FrameTypes, LenProperties
<1>3. QED
      BY <1>1, <1>2 DEF OldestSpilled, StacksAgree

LEMMA FrameIsTyped == ConstantsOK /\ FrameIInv => TypeOK
<1> SUFFICES ASSUME ConstantsOK, FrameIInv PROVE TypeOK
    OBVIOUS
<1>1. FrameOK(frame) /\ OneHolder(frame) /\ LocalsFollow /\ StacksAgree /\ StartOffset \in Nat /\ MaxTemps \in Nat
      /\ OldestSpilled(frame) /\ frame \in FrameRecords
      BY DEF FrameIInv, FrameOK, ConstantsOK
<1>2. /\ frame.base \in Nat /\ frame.base <= Bottom(frame) /\ Bottom(frame) \in Nat
      /\ Bottom(frame) <= frame.top /\ frame.top <= frame.max /\ frame.max \in Nat /\ frame.top \in Nat
      /\ \A s \in Region(frame) : s \in Nat /\ Bottom(frame) <= s /\ s + 8 <= frame.max
      BY <1>1, SlotsAreAboveLocals
<1>3. frame.base \in Offsets /\ frame.top \in Offsets /\ \A s \in Region(frame) : s \in Offsets
  <2>1. frame.base \in Offsets /\ frame.top \in Offsets
        BY <1>2 DEF Offsets
  <2>2. ASSUME NEW s \in Region(frame) PROVE s \in Offsets
    <3>1. s \in Nat /\ s + 8 <= frame.max
          BY <1>2
    <3>2. QED
          BY <3>1, <1>2 DEF Offsets
  <2>3. QED
        BY <2>1, <2>2
<1>4. frame.free \in Seq(Offsets)
  <2>1. frame.free \in Seq(Nat)
        BY <1>1 DEF FrameRecords
  <2>2. ASSUME NEW i \in 1 .. Len(frame.free) PROVE frame.free[i] \in Offsets
    <3>1. <<"free", i>> \in Holders(frame) /\ Held(frame, <<"free", i>>) = frame.free[i]
          BY <2>1 DEF Holders, Held
    <3>2. QED
          BY <3>1, <1>1, <1>3 DEF OneHolder
  <2>3. QED
        BY <2>1, <2>2, SequenceOfItsElements
<1>5. ASSUME NEW c \in Class
      PROVE  /\ frame.stack[c] \in Seq(Offsets \cup {NoSpill})
             /\ frame.firstNoSpill[c] \in 0 .. Len(frame.stack[c])
  <2>1. /\ frame.stack[c] \in Seq(Nat \cup {NoSpill}) /\ Len(frame.stack[c]) \in Nat
        /\ frame.firstNoSpill[c] \in Nat /\ frame.firstNoSpill[c] <= Len(frame.stack[c])
        BY <1>1, FrameTypes DEF OldestSpilled
  <2>2. ASSUME NEW i \in 1 .. Len(frame.stack[c]) PROVE frame.stack[c][i] \in Offsets \cup {NoSpill}
    <3>1. CASE i > frame.firstNoSpill[c]
          BY <3>1, <1>1 DEF OldestSpilled
    <3>2. CASE i <= frame.firstNoSpill[c]
      <4>1. <<c, i>> \in Holders(frame) /\ Held(frame, <<c, i>>) = frame.stack[c][i]
            BY <3>2, <2>1 DEF Holders, Held, Class
      <4>2. QED
            BY <4>1, <1>1, <1>3 DEF OneHolder
    <3>3. QED
          BY <3>1, <3>2, <2>1
  <2>3. frame.stack[c] \in Seq(Offsets \cup {NoSpill})
        BY <2>1, <2>2, SequenceOfItsElements
  <2>4. QED
        BY <2>1, <2>3
<1>6. /\ locals \in Seq(Nat \X Nat) /\ frame.old \in Seq(Nat) /\ Len(frame.old) = Len(locals)
      /\ \A i \in 1 .. Len(locals) : locals[i] \in Nat \X Nat /\ frame.old[i] \in Nat
  <2>1. locals \in Seq(Nat \X Nat) /\ frame.old \in Seq(Nat) /\ Len(frame.old) = Len(locals)
        BY <1>1 DEF LocalsFollow, FrameRecords
  <2>2. QED
        BY <2>1, ElementOfSeq
<1>7. ASSUME NEW i \in 1 .. Len(locals) PROVE frame.old[i] \in Offsets /\ locals[i] \in Offsets \X Nat
  <2>1. /\ locals[i] \in Nat \X Nat /\ frame.old[i] \in Nat
        /\ frame.old[i] <= locals[i][1] /\ locals[i][1] + locals[i][2] <= frame.base
        BY <1>1, <1>6 DEF LocalsFollow
  <2>2. locals[i] = << locals[i][1], locals[i][2] >> /\ locals[i][1] \in Nat /\ locals[i][2] \in Nat
        BY <2>1
  <2>3. frame.old[i] \in Offsets /\ locals[i][1] \in Offsets
        BY <2>1, <2>2, <1>2 DEF Offsets
  <2>4. QED
        BY <2>2, <2>3
<1>8. frame.old \in Seq(Offsets) /\ locals \in Seq(Offsets \X Nat)
      BY <1>6, <1>7, SequenceOfItsElements
<1>9. tempStack \in Seq(Class)
      BY <1>1 DEF StacksAgree
<1>10. QED
       BY <1>2, <1>3, <1>4, <1>5, <1>8, <1>9 DEF TypeOK

\* The frame is sound, with any registers, layouts and nesting.
THEOREM FrameIsSound ==
    ASSUME ConstantsOK
    PROVE  Spec => [](TypeOK /\ SlotsExclusive /\ LocalsIntact /\ FrameCovers /\ NewestInRegisters)
<1>1. Init => FrameIInv
      BY InitFrame
<1>2. FrameIInv /\ [Next]_vars => FrameIInv'
      BY StepFrame
<1>3. FrameIInv => TypeOK /\ SlotsExclusive /\ LocalsIntact /\ FrameCovers /\ NewestInRegisters
      BY FrameIsTyped, FrameSlots, FrameBytes, FrameRegisters
<1>4. QED
      BY <1>1, <1>2, <1>3, PTL DEF Spec
===============================================================================
