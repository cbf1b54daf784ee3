----------------------------- MODULE CallsProofs -----------------------------
(***************************************************************************)
(* Calls and exceptions of both interpreters, for any number of functions, *)
(* objects and exceptions and any bound on the stacks.                     *)
(*                                                                         *)
(* FastInterp mode: an exception is outstanding exactly while generated    *)
(* code is on its way out, and C++ code runs meanwhile only in destructors *)
(* that call nothing back.  From that follow the assertions of the source  *)
(* and, step by step, the promises of C++ about calls and exceptions.      *)
(*                                                                         *)
(* Debug interpreter: every activation has saved the frame base and the    *)
(* scope stack of the one below, whose scopes are those on the C++ stack.  *)
(* From that follows that a context survives what it calls, as long as     *)
(* exceptions are thrown by the outermost activation only.                 *)
(***************************************************************************)
EXTENDS MCCalls, SequenceTheorems, FiniteSetTheorems, TLAPS

-----------------------------------------------------------------------------
(* Stacks *)

\* The top of a stack and what is under it.
LEMMA Popped ==
    ASSUME NEW S, NEW s \in Seq(S), s # << >>
    PROVE  /\ Len(s) \in Nat \ {0} /\ Last(s) = s[Len(s)] /\ Last(s) \in S
           /\ Front(s) \in Seq(S) /\ Len(Front(s)) = Len(s) - 1
           /\ \A i \in 1 .. Len(s) - 1 : Front(s)[i] = s[i]
<1>1. Len(s) \in Nat \ {0} /\ \A i \in 1 .. Len(s) : s[i] \in S
  OBVIOUS
<1>2. \A i \in 1 .. Len(s) - 1 : s[i] \in S
  BY <1>1
<1>3. /\ Front(s) \in Seq(S) /\ Len(Front(s)) = Len(s) - 1
      /\ \A i \in 1 .. Len(s) - 1 : Front(s)[i] = s[i]
  <2> DEFINE n == Len(s) - 1
  <2>1. n \in Int /\ 1 \in Int /\ \A i \in 1 .. n : s[i] \in S
    BY <1>1, <1>2
  <2>2. /\ SubSeq(s, 1, n) \in Seq(S)
        /\ Len(SubSeq(s, 1, n)) = IF 1 <= n THEN n - 1 + 1 ELSE 0
        /\ \A i \in 1 .. n - 1 + 1 : SubSeq(s, 1, n)[i] = s[1 + i - 1]
    BY ONLY <2>1, SubSeqProperties
  <2>3. n \in Nat /\ n - 1 + 1 = n
    BY <1>1
  <2>4. Len(SubSeq(s, 1, n)) = n
    BY <2>2, <2>3
  <2>5. ASSUME NEW i \in 1 .. n PROVE SubSeq(s, 1, n)[i] = s[i]
    <3>1. i \in 1 .. n - 1 + 1 /\ 1 + i - 1 = i
      BY <2>3
    <3>2. QED
      BY <2>2, <3>1
  <2>6. QED
    BY <2>2, <2>4, <2>5 DEF Front
<1>4. QED
  BY <1>1, <1>3 DEF Last

\* A frame put on top.
LEMMA Pushed ==
    ASSUME NEW S, NEW s \in Seq(S), NEW e \in S
    PROVE  /\ Append(s, e) \in Seq(S) /\ Append(s, e) # << >>
           /\ Len(Append(s, e)) = Len(s) + 1 /\ Len(s) \in Nat
           /\ Append(s, e)[Len(s) + 1] = e /\ Last(Append(s, e)) = e
           /\ \A i \in 1 .. Len(s) : Append(s, e)[i] = s[i]
BY DEF Last

\* The frame on top replaced.
LEMMA Replaced ==
    ASSUME NEW S, NEW s \in Seq(S), s # << >>, NEW e \in S
    PROVE  /\ Append(Front(s), e) \in Seq(S) /\ Append(Front(s), e) # << >>
           /\ Len(Append(Front(s), e)) = Len(s) /\ Len(s) \in Nat \ {0}
           /\ Append(Front(s), e)[Len(s)] = e /\ Last(Append(Front(s), e)) = e
           /\ \A i \in 1 .. Len(s) - 1 : Append(Front(s), e)[i] = s[i]
<1>1. /\ Front(s) \in Seq(S) /\ Len(Front(s)) = Len(s) - 1
      /\ Len(s) \in Nat \ {0}
      /\ \A i \in 1 .. Len(s) - 1 : Front(s)[i] = s[i]
  BY Popped
<1>2. QED
  BY <1>1, Pushed

-----------------------------------------------------------------------------
(* FastInterp mode: which frames there may be on which                     *)

IsDestructor(f) == f.k = "cpp" /\ f.kind = "dtor"

\* A function of C++ is called by a generated one; a constructor has room for
\* its object and a destructor has one to destroy.
CppOver(f, under) ==
    /\ f.kind # "host" /\ under.k = "generated"
    /\ f.kind = "ctor" => under.objects < MaxObjects
    /\ f.kind = "dtor" => f.noexcept /\ under.objects > 0

\* Destructors call nothing back, so that one is on top or has returned; what
\* is being left by an exception is on top or right under a destructor.
WellFormed(s) ==
    /\ s \in Seq(Fast!Frames) /\ s # << >> /\ s[1] = Fast!Host
    /\ \A i \in 2 .. Len(s) : s[i].k = "cpp" => CppOver(s[i], s[i - 1])
    /\ \A i \in 1 .. Len(s) : IsDestructor(s[i]) => i = Len(s)
    /\ \A i \in 1 .. Len(s) :
          s[i].k = "generated" /\ s[i].cleanup =>
              \/ i = Len(s)
              \/ i = Len(s) - 1 /\ IsDestructor(s[Len(s)])

\* What frames are made of.
LEMMA FrameFields ==
    ASSUME NEW f \in Fast!Frames
    PROVE  /\ f.k \in {"generated", "cpp"} /\ f.noexcept \in BOOLEAN
           /\ f.k = "generated" =>
                /\ f.objects \in 0 .. MaxObjects /\ f.cleanup \in BOOLEAN
                /\ ~IsDestructor(f)
                /\ [f EXCEPT !.cleanup = TRUE] \in Fast!Frames
                /\ [f EXCEPT !.cleanup = TRUE] =
                     [k |-> "generated", noexcept |-> f.noexcept,
                      objects |-> f.objects, cleanup |-> TRUE]
                /\ \A n \in 0 .. MaxObjects :
                     /\ [f EXCEPT !.objects = n] \in Fast!Frames
                     /\ [f EXCEPT !.objects = n] =
                          [k |-> "generated", noexcept |-> f.noexcept,
                           objects |-> n, cleanup |-> f.cleanup]
           /\ f.k = "cpp" =>
                /\ f.kind \in {"host", "plain", "ctor", "dtor"}
                /\ f.catches \in BOOLEAN
<1>1. CASE f \in [k : {"generated"}, noexcept : BOOLEAN,
                  objects : 0 .. MaxObjects, cleanup : BOOLEAN]
  <2>1. /\ f.k = "generated" /\ f.noexcept \in BOOLEAN
        /\ f.objects \in 0 .. MaxObjects /\ f.cleanup \in BOOLEAN
    BY <1>1
  <2>2. /\ [f EXCEPT !.cleanup = TRUE] \in Fast!Frames
        /\ [f EXCEPT !.cleanup = TRUE] =
             [k |-> "generated", noexcept |-> f.noexcept,
              objects |-> f.objects, cleanup |-> TRUE]
    <3>1. f = [k |-> "generated", noexcept |-> f.noexcept,
               objects |-> f.objects, cleanup |-> f.cleanup]
      BY <1>1
    <3>2. \A b \in BOOLEAN :
             [f EXCEPT !.cleanup = b] =
               [k |-> "generated", noexcept |-> f.noexcept,
                objects |-> f.objects, cleanup |-> b]
      BY <3>1
    <3>3. [k |-> "generated", noexcept |-> f.noexcept,
           objects |-> f.objects, cleanup |-> TRUE] \in Fast!Frames
      BY <2>1 DEF Fast!Frames
    <3>4. QED
      BY <3>2, <3>3
  <2>3. ASSUME NEW n \in 0 .. MaxObjects
        PROVE  /\ [f EXCEPT !.objects = n] \in Fast!Frames
               /\ [f EXCEPT !.objects = n] =
                    [k |-> "generated", noexcept |-> f.noexcept,
                     objects |-> n, cleanup |-> f.cleanup]
    BY <1>1 DEF Fast!Frames
  <2>4. QED
    BY <2>1, <2>2, <2>3 DEF IsDestructor
<1>2. CASE f \in [k : {"cpp"}, noexcept : BOOLEAN, catches : BOOLEAN,
                  kind : {"host", "plain", "ctor", "dtor"}]
  BY <1>2
<1>3. QED
  BY <1>1, <1>2 DEF Fast!Frames

\* New frames are frames.
LEMMA NewFrame ==
    ASSUME NEW noexcept \in BOOLEAN
    PROVE  /\ Fast!Generated(noexcept) \in Fast!Frames
           /\ \A catches \in BOOLEAN, kind \in {"host", "plain", "ctor", "dtor"} :
                  Fast!Cpp(noexcept, catches, kind) \in Fast!Frames
           /\ Fast!Host \in Fast!Frames
BY FastConstants DEF Fast!ConstantsOK, Fast!Generated, Fast!Cpp, Fast!Host, Fast!Frames

\* A call keeps the stack well-formed.
LEMMA CallKeepsForm ==
    ASSUME NEW s, WellFormed(s), NEW f \in Fast!Frames,
           ~IsDestructor(Last(s)),
           f.k = "cpp" => CppOver(f, Last(s)),
           f.k = "generated" => ~f.cleanup,
           Last(s).k = "generated" /\ Last(s).cleanup => IsDestructor(f)
    PROVE  WellFormed(Append(s, f))
<1> DEFINE n == Len(s)
           t == Append(s, f)
<1>1. s \in Seq(Fast!Frames) /\ s # << >>
  BY DEF WellFormed
<1>2. /\ t \in Seq(Fast!Frames) /\ t # << >> /\ Len(t) = n + 1
      /\ t[n + 1] = f /\ \A i \in 1 .. n : t[i] = s[i]
      /\ n \in Nat \ {0} /\ Last(s) = s[n]
  <2>1. /\ t \in Seq(Fast!Frames) /\ t # << >> /\ Len(t) = n + 1
        /\ t[n + 1] = f /\ \A i \in 1 .. n : t[i] = s[i]
    BY ONLY <1>1, f \in Fast!Frames, Pushed
  <2>2. n \in Nat \ {0} /\ Last(s) = s[n]
    BY ONLY <1>1, Popped
  <2>3. QED
    BY ONLY <2>1, <2>2
<1> HIDE DEF n, t
<1>3. t[1] = Fast!Host
  BY <1>2 DEF WellFormed
<1>4. ASSUME NEW i \in 2 .. n + 1, t[i].k = "cpp"
      PROVE  CppOver(t[i], t[i - 1])
  <2>1. CASE i = n + 1
    BY <1>2, <1>4, <2>1
  <2>2. CASE i # n + 1
    <3>1. i \in 2 .. n /\ t[i] = s[i] /\ t[i - 1] = s[i - 1]
      BY <1>2, <2>2
    <3>2. QED
      BY <1>4, <3>1 DEF WellFormed, n
  <2>3. QED
    BY <2>1, <2>2
<1>5. ASSUME NEW i \in 1 .. n + 1, IsDestructor(t[i])
      PROVE  i = n + 1
  <2>1. SUFFICES ASSUME i # n + 1 PROVE FALSE
    OBVIOUS
  <2>2. i \in 1 .. n /\ t[i] = s[i]
    BY <1>2, <2>1
  <2>3. i = n
    BY <1>5, <2>2 DEF WellFormed, n
  <2>4. QED
    BY <1>2, <1>5, <2>2, <2>3
<1>6. ASSUME NEW i \in 1 .. n + 1, t[i].k = "generated" /\ t[i].cleanup
      PROVE  i = n /\ IsDestructor(t[n + 1])
  <2>1. i # n + 1
    BY <1>2, <1>6
  <2>2. i \in 1 .. n /\ t[i] = s[i]
    BY <1>2, <2>1
  <2>3. i = n
    BY <1>2, <1>6, <2>2 DEF WellFormed, n
  <2>4. QED
    BY <1>2, <1>6, <2>2, <2>3
<1>7. QED
  BY <1>2, <1>3, <1>4, <1>5, <1>6 DEF WellFormed, t

\* A return, too.
LEMMA ReturnKeepsForm ==
    ASSUME NEW s, WellFormed(s), Len(s) > 1
    PROVE  WellFormed(Front(s))
<1> DEFINE n == Len(s)
           t == Front(s)
<1>1. s \in Seq(Fast!Frames) /\ s # << >>
  BY DEF WellFormed
<1>2. /\ t \in Seq(Fast!Frames) /\ Len(t) = n - 1 /\ n \in Nat \ {0, 1}
      /\ \A i \in 1 .. n - 1 : t[i] = s[i]
  BY <1>1, Popped
<1> HIDE DEF t
<1>3. t # << >> /\ t[1] = Fast!Host
  BY <1>2 DEF WellFormed
<1>4. ASSUME NEW i \in 2 .. n - 1, t[i].k = "cpp"
      PROVE  CppOver(t[i], t[i - 1])
  <2>1. i \in 2 .. n /\ t[i] = s[i] /\ t[i - 1] = s[i - 1]
    BY <1>2, SMTT(30)
  <2>2. QED
    BY <1>4, <2>1 DEF WellFormed
<1>5. \A i \in 1 .. n - 1 : ~IsDestructor(t[i])
  BY <1>2 DEF WellFormed
<1>6. ASSUME NEW i \in 1 .. n - 1, t[i].k = "generated" /\ t[i].cleanup
      PROVE  i = n - 1
  <2>1. i \in 1 .. n /\ t[i] = s[i]
    BY <1>2
  <2>2. QED
    BY <1>2, <1>6, <2>1 DEF WellFormed
<1>7. QED
  BY <1>2, <1>3, <1>4, <1>5, <1>6 DEF WellFormed, t

\* And what generated code does to its own frame while it is on top.
LEMMA ChangeKeepsForm ==
    ASSUME NEW s, WellFormed(s), Len(s) > 1, Last(s).k = "generated",
           NEW f \in Fast!Frames, f.k = "generated"
    PROVE  WellFormed(Append(Front(s), f))
<1> DEFINE n == Len(s)
           t == Append(Front(s), f)
<1>1. s \in Seq(Fast!Frames) /\ s # << >>
  BY DEF WellFormed
<1>2. /\ t \in Seq(Fast!Frames) /\ t # << >> /\ Len(t) = n /\ n \in Nat \ {0, 1}
      /\ t[n] = f /\ \A i \in 1 .. n - 1 : t[i] = s[i]
      /\ Last(s) = s[n]
  <2>1. /\ t \in Seq(Fast!Frames) /\ t # << >> /\ Len(t) = n
        /\ t[n] = f /\ \A i \in 1 .. n - 1 : t[i] = s[i]
    BY ONLY <1>1, f \in Fast!Frames, Replaced
  <2>2. n \in Nat \ {0} /\ Last(s) = s[n]
    BY ONLY <1>1, Popped
  <2>3. n > 1
    OBVIOUS
  <2>4. QED
    BY ONLY <2>1, <2>2, <2>3
<1> HIDE DEF t
<1>3. t[1] = Fast!Host
  BY <1>2 DEF WellFormed
<1>4. ASSUME NEW i \in 2 .. n, t[i].k = "cpp"
      PROVE  CppOver(t[i], t[i - 1])
  <2>1. i # n
    BY <1>2, <1>4
  <2>2. t[i] = s[i] /\ t[i - 1] = s[i - 1]
    BY <1>2, <2>1
  <2>3. QED
    BY <1>4, <2>2 DEF WellFormed
<1>5. \A i \in 1 .. n : ~IsDestructor(t[i])
  <2>1. ASSUME NEW i \in 1 .. n - 1 PROVE ~IsDestructor(s[i])
    BY <1>2 DEF WellFormed
  <2>2. ~IsDestructor(t[n])
    BY <1>2 DEF IsDestructor
  <2>3. QED
    BY <1>2, <2>1, <2>2
<1>6. ASSUME NEW i \in 1 .. n, t[i].k = "generated" /\ t[i].cleanup
      PROVE  i = n
  <2>1. SUFFICES ASSUME i # n PROVE FALSE
    OBVIOUS
  <2>2. i \in 1 .. n - 1 /\ t[i] = s[i]
    BY <1>2, <2>1
  <2>3. IsDestructor(s[n])
    BY <1>2, <1>6, <2>2 DEF WellFormed
  <2>4. QED
    BY <1>2, <2>3 DEF IsDestructor
<1>7. QED
  BY <1>2, <1>3, <1>4, <1>5, <1>6 DEF WellFormed, t

-----------------------------------------------------------------------------
(* FastInterp mode: the inductive invariant                                *)

FastTop == activations[Len(activations)]
OnWayOut(f) == f.k = "generated" /\ f.cleanup

\* An exception is on its way between generated functions: the callee has just
\* returned it, or the function on top, or the one that the destructor on top
\* was called by, is destroying its objects.
Leaving ==
    \/ result # << >> /\ result[1].exn
    \/ OnWayOut(FastTop)
    \/ IsDestructor(FastTop) /\ OnWayOut(activations[Len(activations) - 1])

FastInv ==
    /\ Fast!TypeOK /\ WellFormed(activations)
    /\ ended # "assertion"
    /\ outstanding # NoExn <=> Leaving
    /\ result # << >> => ~IsDestructor(FastTop)
    /\ result # << >> /\ result[1].exn => ~result[1].noexcept /\ ~OnWayOut(FastTop)

\* What the invariant says of the frame on top.
LEMMA OnTop ==
    ASSUME FastInv
    PROVE  /\ activations \in Seq(Fast!Frames) /\ activations # << >>
           /\ Len(activations) \in Nat \ {0}
           /\ Last(activations) = FastTop /\ FastTop \in Fast!Frames
           /\ FastTop.k = "generated" => Len(activations) > 1
           /\ FastTop.k = "cpp" /\ FastTop.kind # "host" =>
                /\ Len(activations) > 1
                /\ CppOver(FastTop, activations[Len(activations) - 1])
<1> DEFINE n == Len(activations)
<1>1. activations \in Seq(Fast!Frames) /\ activations # << >>
  BY DEF FastInv, WellFormed
<1>2. /\ n \in Nat \ {0} /\ Last(activations) = FastTop
      /\ FastTop \in Fast!Frames
  BY ONLY <1>1, Popped DEF FastTop
<1>3. activations[1].k = "cpp" /\ activations[1].kind = "host"
  BY DEF FastInv, WellFormed, Fast!Host, Fast!Cpp
<1>4. FastTop.k = "generated" \/ FastTop.kind # "host" => n > 1
  BY <1>2, <1>3 DEF FastTop
<1>5. FastTop.k = "cpp" /\ n > 1 => CppOver(FastTop, activations[n - 1])
  BY <1>2 DEF FastInv, WellFormed, FastTop
<1>6. QED
  BY <1>1, <1>2, <1>4, <1>5

\* The results of functions.
LEMMA ResultFields ==
    ASSUME NEW noexcept \in BOOLEAN, NEW exn \in BOOLEAN
    PROVE  /\ Fast!Result(noexcept, exn) # << >>
           /\ Fast!Result(noexcept, exn)[1].noexcept = noexcept
           /\ Fast!Result(noexcept, exn)[1].exn = exn
           /\ Fast!Result(noexcept, exn) \in {Fast!Result(a, b) : a, b \in BOOLEAN}
BY DEF Fast!Result

\* The operators of the instance are those of this module.
LEMMA FastOperators ==
    /\ \A s : Fast!Last(s) = Last(s) /\ Fast!Front(s) = Front(s)
    /\ FastInv => Fast!Top = FastTop
<1>1. \A s : Fast!Last(s) = Last(s) /\ Fast!Front(s) = Front(s)
  BY DEF Fast!Last, Last, Fast!Front, Front
<1>2. FastInv => Fast!Top = FastTop
  BY <1>1, OnTop DEF Fast!Top
<1>3. QED
  BY <1>1, <1>2

\* Calls of any kind.
LEMMA CallKeepsFastInv ==
    ASSUME FastInv, NEW f \in Fast!Frames,
           result = << >>, thrown = NoExn, ~IsDestructor(FastTop),
           f.k = "cpp" => CppOver(f, FastTop),
           f.k = "generated" => ~f.cleanup,
           OnWayOut(FastTop) => IsDestructor(f),
           activations' = Append(activations, f),
           UNCHANGED <<outstanding, thrown, result, ended>>
    PROVE  FastInv'
<1> DEFINE n == Len(activations)
<1>1. /\ activations \in Seq(Fast!Frames) /\ activations # << >>
      /\ n \in Nat \ {0} /\ Last(activations) = FastTop
  BY OnTop
<1>2. WellFormed(activations')
  BY <1>1, CallKeepsForm DEF FastInv, OnWayOut
<1>3. /\ Len(activations') = n + 1 /\ activations'[n + 1] = f
      /\ activations'[n] = FastTop
  BY <1>1 DEF FastTop
<1>4. /\ FastTop' = f
      /\ activations'[Len(activations') - 1] = FastTop
  BY <1>1, <1>3 DEF FastTop
<1>5. Fast!TypeOK'
  BY <1>2 DEF FastInv, Fast!TypeOK, WellFormed
<1>6. Leaving' <=> Leaving
  BY <1>4 DEF Leaving, OnWayOut, IsDestructor
<1>7. QED
  BY <1>2, <1>5, <1>6 DEF FastInv

\* Returns of any function but a destructor, and from C++ only to one's caller
\* as it was.
LEMMA ReturnKeepsFastInv ==
    ASSUME FastInv, NEW noexcept \in BOOLEAN, NEW exn \in BOOLEAN,
           exn => ~noexcept, Len(activations) > 1, ~IsDestructor(FastTop),
           activations' = Front(activations),
           result' = Fast!Result(noexcept, exn), thrown' = NoExn, UNCHANGED ended,
           outstanding' \in Exn \cup {NoExn}, outstanding' # NoExn <=> exn
    PROVE  FastInv'
<1> DEFINE n == Len(activations)
<1>1. /\ activations \in Seq(Fast!Frames) /\ activations # << >>
      /\ n \in Nat \ {0, 1} /\ FastTop = activations[n]
  BY OnTop DEF FastTop
<1>2. WellFormed(activations')
  BY ReturnKeepsForm DEF FastInv
<1>3. /\ Len(activations') = n - 1
      /\ activations'[n - 1] = activations[n - 1]
  <2>1. /\ Len(Front(activations)) = n - 1
        /\ \A i \in 1 .. n - 1 : Front(activations)[i] = activations[i]
    BY ONLY <1>1, Popped
  <2>2. n - 1 \in 1 .. n - 1
    BY <1>1
  <2>3. QED
    BY <2>1, <2>2
<1>4. FastTop' = activations[n - 1]
  BY <1>3 DEF FastTop
<1>5. ~IsDestructor(activations[n - 1]) /\ ~OnWayOut(activations[n - 1])
  <2>1. n - 1 \in 1 .. n /\ n - 1 # n
    BY <1>1
  <2>2. QED
    BY <1>1, <2>1 DEF FastInv, WellFormed, OnWayOut
<1>6. /\ result' # << >> /\ result'[1].noexcept = noexcept /\ result'[1].exn = exn
      /\ result' \in {Fast!Result(a, b) : a, b \in BOOLEAN}
  <2> DEFINE r == Fast!Result(noexcept, exn)
  <2>1. /\ r # << >> /\ r[1].noexcept = noexcept /\ r[1].exn = exn
        /\ r \in {Fast!Result(a, b) : a, b \in BOOLEAN}
    BY ONLY noexcept \in BOOLEAN, exn \in BOOLEAN, ResultFields
  <2>2. result' = r
    OBVIOUS
  <2> HIDE DEF r
  <2>3. QED
    BY <2>1, <2>2
<1>7. Fast!TypeOK'
  BY <1>2, <1>6 DEF FastInv, Fast!TypeOK, WellFormed
<1>8. Leaving' <=> exn
  BY <1>4, <1>5, <1>6 DEF Leaving
<1>9. QED
  BY <1>2, <1>4, <1>5, <1>6, <1>7, <1>8 DEF FastInv

\* Steps of the function on top that change its own frame at most.
LEMMA TopKeepsFastInv ==
    ASSUME FastInv, FastTop.k = "generated", NEW cleanup \in BOOLEAN,
           \/ ~cleanup /\ UNCHANGED activations /\ ~OnWayOut(FastTop)
           \/ cleanup /\ activations' =
                Append(Front(activations), [FastTop EXCEPT !.cleanup = TRUE]),
           thrown' = NoExn, result' = << >>, UNCHANGED ended,
           outstanding' \in Exn \cup {NoExn}, outstanding' # NoExn <=> cleanup
    PROVE  FastInv'
<1> DEFINE n == Len(activations)
           f == [FastTop EXCEPT !.cleanup = TRUE]
<1>1. /\ activations \in Seq(Fast!Frames) /\ activations # << >>
      /\ n \in Nat \ {0, 1} /\ Last(activations) = FastTop /\ FastTop = activations[n]
  BY OnTop DEF FastTop
<1>2. f \in Fast!Frames /\ f.k = "generated" /\ f.cleanup
  <2>1. FastTop \in Fast!Frames
    BY OnTop
  <2>2. /\ f \in Fast!Frames
        /\ f = [k |-> "generated", noexcept |-> FastTop.noexcept,
                objects |-> FastTop.objects, cleanup |-> TRUE]
    BY <2>1, FrameFields
  <2>3. QED
    BY <2>2
<1> HIDE DEF f
<1>3. WellFormed(activations') /\ Len(activations') = n
  <2>1. CASE UNCHANGED activations
    BY <2>1 DEF FastInv, WellFormed
  <2>2. CASE activations' = Append(Front(activations), f)
    <3>1. Len(activations') = n
      BY ONLY <1>1, <1>2, <2>2, Replaced
    <3>2. QED
      BY <1>1, <1>2, <2>2, <3>1, ChangeKeepsForm DEF FastInv
  <2>3. QED
    BY <2>1, <2>2 DEF f
<1>4. FastTop' = IF cleanup THEN f ELSE FastTop
  <2>1. CASE UNCHANGED activations /\ ~cleanup
    BY <2>1 DEF FastTop
  <2>2. CASE activations' = Append(Front(activations), f) /\ cleanup
    <3>1. activations'[n] = f
      BY ONLY <1>1, <1>2, <2>2, Replaced
    <3>2. QED
      BY <1>3, <2>2, <3>1 DEF FastTop
  <2>3. QED
    BY <2>1, <2>2 DEF f
<1>5. FastTop'.k = "generated" /\ (OnWayOut(FastTop') <=> cleanup)
  BY <1>2, <1>4 DEF OnWayOut
<1>6. Fast!TypeOK'
  BY <1>3 DEF FastInv, Fast!TypeOK, WellFormed
<1>7. Leaving' <=> cleanup
  BY <1>5 DEF Leaving, IsDestructor
<1>8. QED
  BY <1>3, <1>6, <1>7 DEF FastInv

\* A C++ function returns: its caller's frame keeps all but the objects.
LEMMA CppReturnChanges ==
    ASSUME FastInv, Fast!CppReturns
    PROVE  /\ FastTop.k = "cpp" /\ FastTop.kind # "host"
           /\ result = << >> /\ thrown = NoExn /\ UNCHANGED <<outstanding, thrown, ended>>
           /\ Len(activations) > 1 /\ CppOver(FastTop, activations[Len(activations) - 1])
           /\ activations[Len(activations) - 1] \in Fast!Frames
           /\ Fast!ObjectsAfter \in 0 .. MaxObjects
           /\ WellFormed(activations') /\ Len(activations') = Len(activations) - 1
           /\ \A i \in 1 .. Len(activations) - 2 : activations'[i] = activations[i]
           /\ FastTop' \in Fast!Frames
           /\ FastTop' = [activations[Len(activations) - 1] EXCEPT !.objects = Fast!ObjectsAfter]
           /\ FastTop'.k = "generated"
           /\ FastTop'.cleanup = activations[Len(activations) - 1].cleanup
           /\ result' # << >> /\ ~result'[1].exn
           /\ result' \in {Fast!Result(a, b) : a, b \in BOOLEAN}
<1> DEFINE n == Len(activations)
           c == activations[n - 1]
           rest == Front(activations)
           objects == Fast!ObjectsAfter
           f == [c EXCEPT !.objects = objects]
<1>1. Fast!Top = FastTop
  BY FastOperators
<1>2. FastTop.k = "cpp" /\ FastTop.kind # "host" /\ result = << >> /\ thrown = NoExn
  BY <1>1 DEF Fast!CppReturns, Fast!Running
<1>3. UNCHANGED outstanding /\ UNCHANGED thrown /\ UNCHANGED ended
  BY DEF Fast!CppReturns
<1>4. result' = Fast!Result(FastTop.noexcept, FALSE)
  BY <1>1 DEF Fast!CppReturns
<1>5. activations' = Append(Front(rest), f)
  BY FastOperators DEF Fast!CppReturns, Fast!Caller
<1>6. /\ activations \in Seq(Fast!Frames) /\ activations # << >>
      /\ FastTop = activations[n] /\ FastTop \in Fast!Frames
  BY OnTop DEF FastTop
<1>7. n \in Nat \ {0, 1}
  BY <1>2, <1>6, OnTop
<1>8. n - 1 \in 1 .. n - 1 /\ n - 1 \in 1 .. n /\ n - 1 # n /\ n - 1 # 0
  <2> HIDE DEF n
  <2>1. QED
    BY <1>7
<1>9. CppOver(FastTop, c)
  BY <1>2, OnTop
<1>10. /\ rest \in Seq(Fast!Frames) /\ rest # << >> /\ Len(rest) = n - 1
       /\ rest[n - 1] = c /\ Last(rest) = c /\ c \in Fast!Frames
  <2>1. /\ rest \in Seq(Fast!Frames) /\ Len(rest) = n - 1
        /\ \A i \in 1 .. n - 1 : rest[i] = activations[i]
    BY ONLY <1>6, Popped
  <2>2. rest # << >> /\ rest[n - 1] = c
    BY <1>8, <2>1
  <2>3. Last(rest) = rest[n - 1] /\ Last(rest) \in Fast!Frames
    BY ONLY <2>1, <2>2, Popped
  <2>4. QED
    BY <2>1, <2>2, <2>3
<1>11. c.k = "generated" /\ c.objects \in 0 .. MaxObjects /\ c.cleanup \in BOOLEAN
  <2>1. c.k = "generated"
    BY <1>9 DEF CppOver
  <2>2. QED
    BY <1>10, <2>1, FrameFields
<1>12. objects \in 0 .. MaxObjects
  BY <1>1, <1>9, <1>11, FastConstants
     DEF CppOver, Fast!ObjectsAfter, Fast!Caller, Fast!ConstantsOK
<1> HIDE DEF objects
<1>13. f \in Fast!Frames /\ f.k = "generated" /\ f.cleanup = c.cleanup
  <2>1. /\ f \in Fast!Frames
        /\ f = [k |-> "generated", noexcept |-> c.noexcept,
                objects |-> objects, cleanup |-> c.cleanup]
    BY <1>10, <1>11, <1>12, FrameFields
  <2>2. QED
    BY <2>1
<1> HIDE DEF f
<1>14. WellFormed(rest)
  <2>1. Len(activations) > 1
    BY <1>2, OnTop
  <2>2. QED
    BY <2>1, ReturnKeepsForm DEF FastInv
<1> HIDE DEF rest
<1>15. Len(rest) > 1
  <2>1. SUFFICES ASSUME n - 1 = 1 PROVE FALSE
    BY <1>7, <1>10
  <2>2. c = Fast!Host
    BY <1>10, <1>14, <2>1 DEF WellFormed
  <2>3. QED
    BY <1>11, <2>2 DEF Fast!Host, Fast!Cpp
<1>16. WellFormed(activations')
  BY <1>5, <1>10, <1>11, <1>13, <1>14, <1>15, ChangeKeepsForm
<1>17. FastTop' = f
  <2>1. /\ Len(Append(Front(rest), f)) = Len(rest)
        /\ Append(Front(rest), f)[Len(rest)] = f
    BY ONLY <1>10, <1>13, Replaced
  <2>2. QED
    BY <1>5, <2>1 DEF FastTop
<1>18. /\ result' # << >> /\ ~result'[1].exn
       /\ result' \in {Fast!Result(a, b) : a, b \in BOOLEAN}
  <2>1. FastTop.noexcept \in BOOLEAN
    BY <1>6, FrameFields
  <2>2. PICK noexcept \in BOOLEAN, exn \in BOOLEAN :
               ~exn /\ result' = Fast!Result(noexcept, exn)
    BY <1>4, <2>1, Zenon
  <2> DEFINE r == Fast!Result(noexcept, exn)
  <2>3. /\ r # << >> /\ r[1].noexcept = noexcept /\ r[1].exn = exn
        /\ r \in {Fast!Result(a, b) : a, b \in BOOLEAN}
    BY ONLY noexcept \in BOOLEAN, exn \in BOOLEAN, ResultFields
  <2> HIDE DEF r
  <2>4. QED
    BY <2>2, <2>3 DEF r
<1>19. \A i \in 1 .. n - 2 : activations'[i] = activations[i]
  <2>1. \A i \in 1 .. Len(rest) - 1 : Append(Front(rest), f)[i] = rest[i]
    BY ONLY <1>10, <1>13, Replaced
  <2>2. \A i \in 1 .. n - 1 : rest[i] = activations[i]
    BY ONLY <1>6, Popped DEF rest
  <2>3. \A i \in 1 .. n - 2 : i \in 1 .. (n - 1) - 1 /\ i \in 1 .. n - 1
    <3> HIDE DEF n
    <3>1. QED
      BY <1>7
  <2>4. QED
    BY <1>5, <1>10, <2>1, <2>2, <2>3
<1>20. Len(activations') = n - 1
  <2>1. Len(Append(Front(rest), f)) = Len(rest)
    BY ONLY <1>10, <1>13, Replaced
  <2>2. QED
    BY <1>5, <1>10, <2>1
<1>21. Len(activations) > 1
  BY <1>2, OnTop
<1>22. QED
  BY <1>2, <1>3, <1>9, <1>10, <1>12, <1>13, <1>16, <1>17, <1>18, <1>19, <1>20, <1>21
     DEF objects, f

LEMMA CppReturnKeepsFastInv ==
    ASSUME FastInv, Fast!CppReturns
    PROVE  FastInv'
<1> DEFINE c == activations[Len(activations) - 1]
<1>1. /\ FastTop.k = "cpp" /\ result = << >> /\ thrown = NoExn
      /\ UNCHANGED outstanding /\ UNCHANGED thrown /\ UNCHANGED ended
      /\ WellFormed(activations') /\ FastTop'.k = "generated"
      /\ FastTop'.cleanup = c.cleanup
      /\ result' # << >> /\ ~result'[1].exn
      /\ result' \in {Fast!Result(a, b) : a, b \in BOOLEAN}
  BY CppReturnChanges
<1>2. c.k = "generated" /\ (OnWayOut(c) => IsDestructor(FastTop))
  <2>1. c.k = "generated"
    BY CppReturnChanges DEF CppOver
  <2>2. Len(activations) \in Nat \ {0} /\ Len(activations) > 1
    BY CppReturnChanges, OnTop
  <2> DEFINE n == Len(activations)
  <2>3. n - 1 \in 1 .. n /\ n - 1 # n
    <3>1. n \in Nat /\ n > 1
      BY <2>2
    <3> HIDE DEF n
    <3>2. QED
      BY <3>1
  <2>4. OnWayOut(c) => IsDestructor(activations[n])
    BY <2>3 DEF FastInv, WellFormed, OnWayOut
  <2>5. QED
    BY <2>1, <2>4 DEF FastTop
<1>3. Fast!TypeOK'
  BY <1>1 DEF FastInv, Fast!TypeOK, WellFormed
<1>4. Leaving' <=> OnWayOut(c)
  BY <1>1, <1>2 DEF Leaving, OnWayOut, IsDestructor
<1>5. Leaving <=> OnWayOut(c)
  BY <1>1, <1>2 DEF Leaving, OnWayOut
<1>6. QED
  BY <1>1, <1>3, <1>4, <1>5 DEF FastInv, IsDestructor

\* No exception is outstanding where C++ code runs that may call generated
\* code or that gets the value of a function, nor where generated code throws
\* or a C++ exception enters it.
LEMMA NothingOutstanding ==
    ASSUME FastInv
    PROVE  /\ FastTop.k = "cpp" /\ ~IsDestructor(FastTop)
                /\ (result = << >> \/ ~result[1].exn) => outstanding = NoExn
           /\ FastTop.k = "generated" /\ ~FastTop.cleanup /\ result = << >>
                => outstanding = NoExn
<1>1. CASE FastTop.k = "cpp" /\ ~IsDestructor(FastTop)
              /\ (result = << >> \/ ~result[1].exn)
  BY <1>1 DEF FastInv, Leaving, OnWayOut
<1>2. CASE FastTop.k = "generated" /\ ~FastTop.cleanup /\ result = << >>
  BY <1>2 DEF FastInv, Leaving, OnWayOut, IsDestructor
<1>3. QED
  BY <1>1, <1>2

\* Calls, by C++ and by generated code.
LEMMA CallsKeepFastInv ==
    ASSUME FastInv,
           NEW noexcept \in BOOLEAN, NEW catches \in BOOLEAN, NEW kind \in {"plain", "ctor"},
           \/ Fast!CallFastInterp(noexcept) \/ Fast!CallGenerated(noexcept)
           \/ Fast!CallCpp(noexcept, catches, kind) \/ Fast!CallDestructor(catches)
    PROVE  FastInv'
<1>1. Fast!Top = FastTop /\ FastTop \in Fast!Frames
  BY FastOperators, OnTop
<1>2. /\ Fast!Generated(noexcept) \in Fast!Frames
      /\ Fast!Generated(noexcept).k = "generated" /\ ~Fast!Generated(noexcept).cleanup
  <2>1. Fast!Generated(noexcept) \in Fast!Frames
    BY NewFrame
  <2>2. QED
    BY <2>1 DEF Fast!Generated
<1>3. ASSUME NEW f \in Fast!Frames, f.k = "generated", ~f.cleanup,
             activations' = Append(activations, f), ~OnWayOut(FastTop), ~IsDestructor(FastTop),
             result = << >>, thrown = NoExn, UNCHANGED <<outstanding, thrown, result, ended>>
      PROVE  FastInv'
  BY <1>3, CallKeepsFastInv
<1>4. CASE Fast!CallFastInterp(noexcept)
  <2>1. /\ FastTop.k = "cpp" /\ FastTop.kind # "dtor" /\ result = << >> /\ thrown = NoExn
        /\ UNCHANGED outstanding /\ UNCHANGED thrown /\ UNCHANGED result
    BY <1>1, <1>4 DEF Fast!CallFastInterp, Fast!Running
  <2>2. outstanding = NoExn
    BY <2>1, NothingOutstanding DEF IsDestructor
  <2>3. /\ activations' = Append(activations, Fast!Generated(noexcept))
        /\ UNCHANGED ended
    BY <1>4, <2>2 DEF Fast!CallFastInterp
  <2>4. QED
    BY <1>2, <1>3, <2>1, <2>3 DEF OnWayOut, IsDestructor
<1>5. CASE Fast!CallGenerated(noexcept)
  <2>1. /\ FastTop.k = "generated" /\ ~FastTop.cleanup /\ result = << >> /\ thrown = NoExn
        /\ activations' = Append(activations, Fast!Generated(noexcept))
        /\ UNCHANGED <<outstanding, thrown, result, ended>>
    BY <1>1, <1>5 DEF Fast!CallGenerated, Fast!Running
  <2>2. QED
    BY <1>2, <1>3, <2>1 DEF OnWayOut, IsDestructor
<1>6. CASE Fast!CallCpp(noexcept, catches, kind)
  <2> DEFINE f == Fast!Cpp(noexcept, catches, kind)
  <2>1. /\ FastTop.k = "generated" /\ ~FastTop.cleanup /\ result = << >> /\ thrown = NoExn
        /\ kind = "ctor" => FastTop.objects < MaxObjects
        /\ activations' = Append(activations, f)
        /\ UNCHANGED <<outstanding, thrown, result, ended>>
    BY <1>1, <1>6 DEF Fast!CallCpp, Fast!Running
  <2>2. f \in Fast!Frames /\ f.k = "cpp" /\ f.kind = kind
    <3>1. f \in Fast!Frames
      BY NewFrame
    <3>2. QED
      BY <3>1 DEF Fast!Cpp
  <2>3. CppOver(f, FastTop)
    BY <2>1, <2>2 DEF CppOver
  <2> HIDE DEF f
  <2>4. QED
    BY <2>1, <2>2, <2>3, CallKeepsFastInv DEF OnWayOut, IsDestructor
<1>7. CASE Fast!CallDestructor(catches)
  <2> DEFINE f == Fast!Cpp(TRUE, catches, "dtor")
  <2>1. /\ FastTop.k = "generated" /\ FastTop.objects > 0 /\ result = << >> /\ thrown = NoExn
        /\ activations' = Append(activations, f)
        /\ UNCHANGED <<outstanding, thrown, result, ended>>
    BY <1>1, <1>7 DEF Fast!CallDestructor, Fast!Running
  <2>2. f \in Fast!Frames /\ f.k = "cpp" /\ f.kind = "dtor" /\ f.noexcept
    <3>1. f \in Fast!Frames
      BY DEF Fast!Cpp, Fast!Frames
    <3>2. QED
      BY <3>1 DEF Fast!Cpp
  <2>3. CppOver(f, FastTop)
    BY <2>1, <2>2 DEF CppOver
  <2> HIDE DEF f
  <2>4. QED
    BY <2>1, <2>2, <2>3, CallKeepsFastInv DEF OnWayOut, IsDestructor
<1>8. QED
  BY <1>4, <1>5, <1>6, <1>7

\* An exception leaves a C++ function: not the host, which catches.
LEMMA LeftByException ==
    ASSUME FastInv, thrown # NoExn, ~FastTop.catches
    PROVE  /\ FastTop.k = "cpp" /\ FastTop.kind # "host" /\ result = << >>
           /\ Len(activations) > 1
           /\ ~FastTop.noexcept => ~IsDestructor(FastTop)
<1>1. FastTop.k = "cpp" /\ result = << >>
  BY FastOperators DEF FastInv, Fast!TypeOK
<1>2. FastTop # Fast!Host
  BY DEF Fast!Host, Fast!Cpp
<1>3. Len(activations) \in Nat \ {0} /\ activations \in Seq(Fast!Frames)
  BY OnTop
<1>4. Len(activations) # 1
  BY <1>2 DEF FastInv, WellFormed, FastTop
<1>5. Len(activations) \in 2 .. Len(activations)
  <2> DEFINE n == Len(activations)
  <2>1. n \in Nat \ {0} /\ n # 1
    BY <1>3, <1>4
  <2> HIDE DEF n
  <2>2. n \in 2 .. n
    BY <2>1
  <2>3. QED
    BY <2>2 DEF n
<1>6. CppOver(FastTop, activations[Len(activations) - 1])
  BY <1>1, <1>5 DEF FastInv, WellFormed, FastTop
<1>7. QED
  BY <1>1, <1>3, <1>5, <1>6 DEF CppOver, IsDestructor

\* What C++ code does with exceptions and with what generated code returned.
LEMMA CppKeepsFastInv ==
    ASSUME FastInv,
           \/ \E e \in Exn : Fast!CppThrows(e)
           \/ Fast!FastInterpReturns \/ Fast!CppCatches
           \/ Fast!HelperCatches \/ Fast!CppTerminates
    PROVE  FastInv'
<1>1. Fast!Top = FastTop /\ FastTop \in Fast!Frames
  BY FastOperators, OnTop
<1>2. activations \in Seq(Fast!Frames) /\ activations # << >> /\ Last(activations) = FastTop
  BY OnTop
<1>3. ASSUME UNCHANGED activations, FastTop.k = "cpp", result' = << >>,
             thrown' \in Exn \cup {NoExn}, outstanding' \in Exn \cup {NoExn},
             ended' \in {"no", "terminate"}, outstanding' # NoExn <=> Leaving'
      PROVE  FastInv'
  <2>1. FastTop' = FastTop /\ Fast!Top' = FastTop
    BY <1>1, <1>3 DEF FastTop, Fast!Top
  <2>2. Fast!TypeOK'
    BY <1>3, <2>1 DEF FastInv, Fast!TypeOK
  <2>3. WellFormed(activations')
    BY <1>3 DEF FastInv
  <2>4. QED
    BY <1>3, <2>2, <2>3 DEF FastInv
<1>4. ASSUME UNCHANGED activations, FastTop.k = "cpp", result' = << >>
      PROVE  Leaving' <=> IsDestructor(FastTop) /\ OnWayOut(activations[Len(activations) - 1])
  <2>1. FastTop' = FastTop
    BY <1>4 DEF FastTop
  <2>2. QED
    BY <1>4, <2>1 DEF Leaving, OnWayOut
<1>5. ASSUME FastTop.k = "cpp", result = << >>
      PROVE  /\ Leaving <=> IsDestructor(FastTop) /\ OnWayOut(activations[Len(activations) - 1])
  BY <1>5 DEF Leaving, OnWayOut
<1>6. ASSUME NEW e \in Exn, Fast!CppThrows(e)
      PROVE  FastInv'
  <2>1. /\ FastTop.k = "cpp" /\ result = << >> /\ thrown' = e
        /\ UNCHANGED activations /\ UNCHANGED outstanding /\ UNCHANGED result /\ UNCHANGED ended
    BY <1>1, <1>6 DEF Fast!CppThrows, Fast!Running
  <2>2. ended = "no"
    BY <1>6 DEF Fast!CppThrows, Fast!Running
  <2>3. outstanding \in Exn \cup {NoExn} /\ (outstanding # NoExn <=> Leaving)
    BY DEF FastInv, Fast!TypeOK
  <2>4. QED
    BY <1>3, <1>4, <1>5, <2>1, <2>2, <2>3
<1>7. CASE Fast!FastInterpReturns
  <2>1. /\ FastTop.k = "cpp" /\ result # << >> /\ ended = "no"
    BY <1>1, <1>7 DEF Fast!FastInterpReturns
  <2>2. ~IsDestructor(FastTop) /\ thrown = NoExn
    BY <2>1 DEF FastInv, Fast!TypeOK
  <2>3. CASE Fast!Rethrow
    <3>1. /\ thrown' = outstanding /\ outstanding' = NoExn /\ result' = << >>
          /\ UNCHANGED activations /\ UNCHANGED ended
      BY <2>3 DEF Fast!Rethrow
    <3>2. outstanding \in Exn \cup {NoExn}
      BY DEF FastInv, Fast!TypeOK
    <3>3. QED
      BY <1>3, <1>4, <2>1, <2>2, <3>1, <3>2
  <2>4. CASE Fast!ReturnValue
    <3>1. /\ ~result[1].exn /\ result' = << >>
          /\ UNCHANGED activations /\ UNCHANGED outstanding /\ UNCHANGED thrown
      BY <2>4 DEF Fast!ReturnValue
    <3>2. outstanding = NoExn
      BY <2>1, <2>2, <3>1, NothingOutstanding
    <3>3. ended' = "no"
      BY <2>4, <3>2 DEF Fast!ReturnValue
    <3>4. QED
      BY <1>3, <1>4, <2>1, <2>2, <3>1, <3>2, <3>3
  <2>5. QED
    BY <1>7, <2>3, <2>4 DEF Fast!FastInterpReturns
<1>8. ASSUME thrown # NoExn
      PROVE  FastTop.k = "cpp" /\ result = << >>
  BY <1>1, <1>8 DEF FastInv, Fast!TypeOK
<1>9. outstanding \in Exn \cup {NoExn} /\ (outstanding # NoExn <=> Leaving)
  BY DEF FastInv, Fast!TypeOK
<1>10. CASE Fast!CppCatches
  <2>1. /\ thrown # NoExn /\ thrown' = NoExn /\ ended = "no"
        /\ UNCHANGED activations /\ UNCHANGED outstanding /\ UNCHANGED result /\ UNCHANGED ended
    BY <1>10 DEF Fast!CppCatches
  <2>2. QED
    BY <1>3, <1>4, <1>5, <1>8, <1>9, <2>1
<1>11. CASE Fast!CppTerminates
  <2>1. /\ thrown # NoExn /\ ended' = "terminate" /\ thrown \in Exn \cup {NoExn}
        /\ UNCHANGED activations /\ UNCHANGED outstanding /\ UNCHANGED result /\ UNCHANGED thrown
    BY <1>11 DEF Fast!CppTerminates, FastInv, Fast!TypeOK
  <2>2. QED
    BY <1>3, <1>4, <1>5, <1>8, <1>9, <2>1
<1>12. CASE Fast!HelperCatches
  <2>1. /\ FastTop.k = "cpp" /\ ~FastTop.noexcept /\ ~FastTop.catches /\ result = << >>
        /\ thrown \in Exn /\ thrown # NoExn
    BY <1>1, <1>8, <1>12 DEF Fast!HelperCatches, FastInv, Fast!TypeOK
  <2>2. Len(activations) > 1
    BY <2>1, LeftByException
  <2>3. ~IsDestructor(FastTop)
    BY <2>1, LeftByException
  <2>4. outstanding = NoExn
    BY <2>1, <2>3, NothingOutstanding
  <2>5. /\ outstanding' = thrown /\ thrown' = NoExn
        /\ activations' = Front(activations) /\ result' = Fast!Result(FALSE, TRUE)
        /\ UNCHANGED ended
    BY <1>12, <2>4, FastOperators DEF Fast!HelperCatches
  <2>6. QED
    BY <2>1, <2>2, <2>3, <2>5, ReturnKeepsFastInv
<1>13. QED
  BY <1>6, <1>7, <1>10, <1>11, <1>12

\* What generated code does on its own.
LEMMA GeneratedKeepsFastInv ==
    ASSUME FastInv,
           \/ Fast!CheckException \/ \E e \in Exn : Fast!Throw(e)
           \/ Fast!Return \/ Fast!Propagate \/ Fast!Terminate
    PROVE  FastInv'
<1>1. /\ Fast!Top = FastTop /\ FastTop \in Fast!Frames
      /\ \A s : Fast!Front(s) = Front(s)
  BY FastOperators, OnTop
<1>2. outstanding \in Exn \cup {NoExn} /\ (outstanding # NoExn <=> Leaving)
  BY DEF FastInv, Fast!TypeOK
<1>3. FastTop.k = "generated" => FastTop.cleanup \in BOOLEAN /\ FastTop.noexcept \in BOOLEAN
  BY <1>1, FrameFields
<1>4. CASE Fast!CheckException
  <2>1. /\ FastTop.k = "generated" /\ result # << >> /\ result' = << >>
        /\ UNCHANGED outstanding /\ UNCHANGED thrown /\ UNCHANGED ended
    BY <1>1, <1>4 DEF Fast!CheckException
  <2>2. thrown = NoExn
    BY <2>1 DEF FastInv, Fast!TypeOK
  <2>3. CASE result[1].exn
    <3>1. /\ ~result[1].noexcept /\ Leaving
      BY <2>1, <2>3 DEF FastInv, Leaving
    <3>2. activations' = Append(Front(activations), [FastTop EXCEPT !.cleanup = TRUE])
      BY <1>1, <1>4, <2>3, <3>1 DEF Fast!CheckException, Fast!SetTop
    <3>3. QED
      BY <1>2, <2>1, <2>2, <3>1, <3>2, TopKeepsFastInv
  <2>4. CASE ~result[1].exn
    <3>1. UNCHANGED activations
      BY <1>4, <2>4 DEF Fast!CheckException
    <3>2. Leaving <=> FastTop.cleanup
      BY <2>1, <2>4 DEF Leaving, OnWayOut, IsDestructor
    <3>3. FastTop' = FastTop /\ Fast!Top' = Fast!Top
      BY <3>1 DEF FastTop, Fast!Top
    <3>4. Leaving' <=> Leaving
      BY <2>1, <3>2, <3>3 DEF Leaving, OnWayOut, IsDestructor
    <3>5. Fast!TypeOK'
      BY <2>1, <2>2, <3>1, <3>3 DEF FastInv, Fast!TypeOK
    <3>6. QED
      BY <2>1, <3>1, <3>4, <3>5 DEF FastInv
  <2>5. QED
    BY <2>3, <2>4
<1>5. ASSUME NEW e \in Exn, Fast!Throw(e)
      PROVE  FastInv'
  <2>1. /\ FastTop.k = "generated" /\ ~FastTop.cleanup /\ result = << >> /\ thrown = NoExn
        /\ UNCHANGED thrown /\ UNCHANGED result
    BY <1>1, <1>5 DEF Fast!Throw, Fast!Running
  <2>2. outstanding = NoExn
    BY <2>1, NothingOutstanding
  <2>3. /\ activations' = Append(Front(activations), [FastTop EXCEPT !.cleanup = TRUE])
        /\ outstanding' = e /\ UNCHANGED ended
    BY <1>1, <1>5, <2>2 DEF Fast!Throw, Fast!SetTop
  <2>4. e # NoExn
    BY FastConstants DEF Fast!ConstantsOK
  <2>5. QED
    BY <2>1, <2>3, <2>4, TopKeepsFastInv
<1>6. CASE Fast!Return
  <2>1. /\ FastTop.k = "generated" /\ ~FastTop.cleanup /\ result = << >> /\ thrown = NoExn
        /\ activations' = Front(activations) /\ result' = Fast!Result(FastTop.noexcept, FALSE)
        /\ UNCHANGED outstanding /\ UNCHANGED thrown /\ UNCHANGED ended
    BY <1>1, <1>6 DEF Fast!Return, Fast!Running
  <2>2. outstanding = NoExn /\ Len(activations) > 1 /\ ~IsDestructor(FastTop)
    BY <2>1, NothingOutstanding, OnTop DEF IsDestructor
  <2>3. PICK noexcept \in BOOLEAN, exn \in BOOLEAN :
               ~exn /\ result' = Fast!Result(noexcept, exn)
    BY <1>3, <2>1, Zenon
  <2>4. QED
    BY <1>2, <2>1, <2>2, <2>3, ReturnKeepsFastInv
<1>7. CASE Fast!Propagate
  <2>1. /\ FastTop.k = "generated" /\ FastTop.cleanup /\ result = << >> /\ thrown = NoExn
        /\ activations' = Front(activations) /\ result' = Fast!Result(FALSE, TRUE)
        /\ UNCHANGED outstanding /\ UNCHANGED thrown /\ UNCHANGED ended
    BY <1>1, <1>7 DEF Fast!Propagate, Fast!Cleanup, Fast!Running
  <2>2. outstanding # NoExn /\ Len(activations) > 1 /\ ~IsDestructor(FastTop)
    BY <1>2, <2>1, OnTop DEF IsDestructor, Leaving, OnWayOut
  <2>3. QED
    BY <1>2, <2>1, <2>2, ReturnKeepsFastInv
<1>8. CASE Fast!Terminate
  <2>1. /\ ended' = "terminate" /\ UNCHANGED activations /\ UNCHANGED outstanding
        /\ UNCHANGED thrown /\ UNCHANGED result
    BY <1>8 DEF Fast!Terminate
  <2>2. FastTop' = FastTop /\ Fast!Top' = Fast!Top /\ Leaving' = Leaving
    BY <2>1 DEF FastTop, Fast!Top, Leaving
  <2>3. Fast!TypeOK'
    BY <2>1, <2>2 DEF FastInv, Fast!TypeOK
  <2>4. QED
    BY <2>1, <2>2, <2>3 DEF FastInv
<1>9. QED
  BY <1>4, <1>5, <1>6, <1>7, <1>8

LEMMA FastInitInv ==
    ASSUME Fast!Init PROVE FastInv
<1>1. activations = <<Fast!Host>> /\ outstanding = NoExn /\ thrown = NoExn
      /\ result = << >> /\ ended = "no"
  BY DEF Fast!Init
<1>2. Fast!Host \in Fast!Frames
  BY NewFrame
<1>3. /\ activations \in Seq(Fast!Frames) /\ activations # << >>
      /\ Len(activations) = 1 /\ activations[1] = Fast!Host
  BY <1>1, <1>2
<1>4. /\ Fast!Host.k = "cpp" /\ ~IsDestructor(Fast!Host) /\ ~OnWayOut(Fast!Host)
  BY DEF Fast!Host, Fast!Cpp, IsDestructor, OnWayOut
<1>5. FastTop = Fast!Host
  BY <1>3 DEF FastTop
<1>6. WellFormed(activations)
  BY <1>3, <1>4 DEF WellFormed
<1>7. Fast!TypeOK
  BY <1>1, <1>3 DEF Fast!TypeOK
<1>8. QED
  BY <1>1, <1>4, <1>5, <1>6, <1>7 DEF FastInv, Leaving

LEMMA FastStepInv ==
    ASSUME FastInv, [SuiteNext]_<<part, vars, fastVars>> PROVE FastInv'
<1>1. CASE UNCHANGED fastVars
  <2>1. /\ UNCHANGED activations /\ UNCHANGED outstanding /\ UNCHANGED thrown
        /\ UNCHANGED result /\ UNCHANGED ended
    BY <1>1 DEF fastVars
  <2>2. FastTop' = FastTop /\ Fast!Top' = Fast!Top /\ Leaving' = Leaving
    BY <2>1 DEF FastTop, Fast!Top, Leaving
  <2>3. Fast!TypeOK'
    BY <2>1, <2>2 DEF FastInv, Fast!TypeOK
  <2>4. QED
    BY <2>1, <2>2, <2>3 DEF FastInv
<1>2. CASE Fast!Next
  <2>1. CASE \E noexcept \in BOOLEAN :
                \/ Fast!CallFastInterp(noexcept) \/ Fast!CallGenerated(noexcept)
                \/ \E catches \in BOOLEAN, kind \in {"plain", "ctor"} :
                      Fast!CallCpp(noexcept, catches, kind)
    BY <2>1, CallsKeepFastInv
  <2>2. CASE \E catches \in BOOLEAN : Fast!CallDestructor(catches)
    BY <2>2, CallsKeepFastInv
  <2>3. CASE Fast!CppReturns
    BY <2>3, CppReturnKeepsFastInv
  <2>4. CASE Fast!Halted
    BY <1>1, <2>4 DEF Fast!Halted, Fast!vars, fastVars
  <2>5. QED
    BY <1>2, <2>1, <2>2, <2>3, <2>4, CppKeepsFastInv, GeneratedKeepsFastInv DEF Fast!Next
<1>3. QED
  BY <1>1, <1>2 DEF SuiteNext, DebugStep, FastStep

\* Which activations there are on which, and when an exception is outstanding
\* (FICalls.tla; pochivm_function_pointer.h, ast_type_helper.h,
\* exception_helper.h): the invariant behind what follows.
THEOREM FastInvariance == SuiteSpec => []FastInv
<1>1. SuiteInit => FastInv
  BY FastInitInv DEF SuiteInit
<1>2. FastInv /\ [SuiteNext]_<<part, vars, fastVars>> => FastInv'
  BY FastStepInv
<1>3. QED
  BY <1>1, <1>2, PTL DEF SuiteSpec

\* The assertions on the outstanding exception hold, for any functions, objects
\* and exceptions and stacks of any depth, as long as no destructor calls a
\* generated function (pochivm_function_pointer.h:91, ast_type_helper.h:1204,
\* exception_helper.h:108).
THEOREM OutstandingExceptionIsHandled == SuiteSpec => []AssertionsHold
<1>1. FastInv => AssertionsHold
  BY DEF FastInv, AssertionsHold, Fast!AssertionsHold
<1>2. QED
  BY <1>1, FastInvariance, PTL

-----------------------------------------------------------------------------
(* FastInterp mode: what C++ promises                                      *)

\* The frames as the specification of C++ sees them: what is shown of a frame
\* that an exception leaves, the exception that leaves the frame on top, and
\* that of a frame under it.
View == [i \in DOMAIN activations |-> Fast!Seen(i)]
AsSeen(f, e) ==
    [noexcept |-> f.noexcept, exn |-> e, catches |-> f.k = "cpp" /\ f.catches,
     objects |-> IF f.k = "generated" THEN f.objects ELSE 0,
     kind |-> IF f.k = "generated" THEN "plain" ELSE f.kind]
UnderExn(f) == IF OnWayOut(f) THEN outstanding ELSE NoExn
TopExn == IF thrown # NoExn THEN thrown
          ELSE IF result # << >> /\ result[1].exn THEN outstanding ELSE UnderExn(FastTop)

\* The set of which the view is a sequence.
Shown == {Fast!Seen(i) : i \in DOMAIN activations}

ViewFacts ==
    /\ View \in Seq(Shown) /\ View # << >>
    /\ Len(activations) \in Nat \ {0} /\ Len(View) = Len(activations)
    /\ View[Len(activations)] = AsSeen(FastTop, TopExn)
    /\ \A i \in 1 .. Len(activations) - 1 :
          View[i] = AsSeen(activations[i], UnderExn(activations[i]))

LEMMA ViewHolds == FastInv => ViewFacts
<1> SUFFICES ASSUME FastInv PROVE ViewFacts
  OBVIOUS
<1> DEFINE n == Len(activations)
<1>1. /\ activations \in Seq(Fast!Frames) /\ activations # << >> /\ n \in Nat \ {0}
      /\ DOMAIN activations = 1 .. n
  BY OnTop
<1>2. View \in [1 .. n -> Shown]
  BY <1>1 DEF View, Shown
<1>3. View \in Seq(Shown) /\ Len(View) = n /\ View # << >>
  BY <1>1, <1>2
<1>4. ASSUME NEW i \in 1 .. n
      PROVE  View[i] = AsSeen(activations[i], Fast!ExnOf(i))
  BY <1>1, <1>4 DEF View, Fast!Seen, AsSeen
<1>5. Fast!ExnOf(n) = TopExn
  BY <1>1 DEF Fast!ExnOf, TopExn, UnderExn, OnWayOut, FastTop
<1>6. ASSUME NEW i \in 1 .. n - 1
      PROVE  Fast!ExnOf(i) = UnderExn(activations[i])
  <2>1. i # n
    <3> HIDE DEF n
    <3>1. QED
      BY <1>1, <1>6
  <2>2. QED
    BY <2>1 DEF Fast!ExnOf, UnderExn, OnWayOut
<1>7. View[n] = AsSeen(FastTop, TopExn)
  BY <1>1, <1>4, <1>5 DEF FastTop
<1>8. QED
  BY <1>1, <1>3, <1>4, <1>6, <1>7 DEF ViewFacts

LEMMA ViewHoldsNext == FastInv' => ViewFacts'
<1>1. FastInv => ViewFacts
  BY ViewHolds
<1>2. QED
  BY <1>1, PTL

\* What is shown of a frame, and what changes of it show.
LEMMA ShownFields ==
    ASSUME NEW f \in Fast!Frames, NEW e
    PROVE  /\ AsSeen(f, e).exn = e /\ AsSeen(f, e).noexcept = f.noexcept
           /\ f.k = "cpp" =>
                /\ AsSeen(f, e).catches = f.catches /\ AsSeen(f, e).objects = 0
                /\ AsSeen(f, e).kind = f.kind
           /\ f.k = "generated" =>
                /\ ~AsSeen(f, e).catches /\ AsSeen(f, e).objects = f.objects
                /\ AsSeen(f, e).kind = "plain"
                /\ AsSeen([f EXCEPT !.cleanup = TRUE], e) = AsSeen(f, e)
           /\ \A x : [AsSeen(f, e) EXCEPT !.exn = x] = AsSeen(f, x)
<1>1. /\ AsSeen(f, e).exn = e /\ AsSeen(f, e).noexcept = f.noexcept
      /\ f.k = "cpp" => /\ AsSeen(f, e).catches = f.catches /\ AsSeen(f, e).objects = 0
                        /\ AsSeen(f, e).kind = f.kind
  BY FrameFields DEF AsSeen
<1>2. ASSUME f.k = "generated"
      PROVE  /\ ~AsSeen(f, e).catches /\ AsSeen(f, e).objects = f.objects
             /\ AsSeen(f, e).kind = "plain"
  BY <1>2 DEF AsSeen
<1>3. ASSUME f.k = "generated"
      PROVE  AsSeen([f EXCEPT !.cleanup = TRUE], e) = AsSeen(f, e)
  BY <1>3, FrameFields DEF AsSeen
<1>4. ASSUME NEW x PROVE [AsSeen(f, e) EXCEPT !.exn = x] = AsSeen(f, x)
  BY DEF AsSeen
<1>5. QED
  BY <1>1, <1>2, <1>3, <1>4

LEMMA ObjectsShown ==
    ASSUME NEW f \in Fast!Frames, f.k = "generated", NEW e, NEW m \in 0 .. MaxObjects
    PROVE  AsSeen([f EXCEPT !.objects = m], e) = [AsSeen(f, e) EXCEPT !.objects = m]
BY FrameFields DEF AsSeen

LEMMA SameSequence ==
    ASSUME NEW S, NEW T, NEW s \in Seq(S), NEW t \in Seq(T), Len(s) = Len(t),
           \A i \in 1 .. Len(s) : s[i] = t[i]
    PROVE  s = t
OBVIOUS

LEMMA TopShown ==
    ASSUME ViewFacts
    PROVE  Fast!Cxx!Top = AsSeen(FastTop, TopExn)
<1>1. Fast!Cxx!Top = View[Len(View)]
  BY DEF Fast!Cxx!Top, Fast!Cxx!Last, View
<1>2. QED
  BY <1>1 DEF ViewFacts

\* How a step maps to one of C++: by what it does to the view.
LEMMA MapsToStutter ==
    ASSUME View' = View, (ended' = "terminate") = (ended = "terminate")
    PROVE  UNCHANGED Fast!Cxx!vars
BY DEF Fast!Cxx!vars, View

LEMMA MapsToCall ==
    ASSUME ViewFacts, NEW f \in Fast!Cxx!NewFrames, ended = "no", ended' = "no",
           View' = Append(View, f),
           IF f.kind = "dtor" THEN AsSeen(FastTop, TopExn).objects > 0 ELSE TopExn = NoExn,
           TopExn # NoExn => ~FastTop.noexcept
    PROVE  Fast!Cxx!Next
<1>1. Fast!Cxx!Top = AsSeen(FastTop, TopExn)
  BY TopShown
<1>2. Fast!Cxx!Top.exn = TopExn /\ Fast!Cxx!Top.noexcept = FastTop.noexcept
  BY <1>1 DEF AsSeen
<1>3. Fast!Cxx!Call(f)
  BY <1>1, <1>2 DEF Fast!Cxx!Call, View
<1>4. QED
  BY <1>3 DEF Fast!Cxx!Next

LEMMA MapsToThrowOrCatch ==
    ASSUME ViewFacts, ended = "no", ended' = "no", NEW e,
           \/ e \in Exn /\ TopExn = NoExn
           \/ e = NoExn /\ TopExn # NoExn /\ AsSeen(FastTop, TopExn).catches,
           View' = [View EXCEPT ![Len(View)].exn = e]
    PROVE  Fast!Cxx!Next
<1>1. Fast!Cxx!Top = AsSeen(FastTop, TopExn)
  BY TopShown
<1>2. Fast!Cxx!Top.exn = TopExn
  BY <1>1 DEF AsSeen
<1>3. CASE e \in Exn /\ TopExn = NoExn
  <2>1. Fast!Cxx!Throw(e)
    BY <1>2, <1>3 DEF Fast!Cxx!Throw, Fast!Cxx!SetExn, View
  <2>2. QED
    BY <1>3, <2>1 DEF Fast!Cxx!Next
<1>4. CASE e = NoExn /\ TopExn # NoExn /\ AsSeen(FastTop, TopExn).catches
  <2>1. Fast!Cxx!Catch
    BY <1>1, <1>2, <1>4 DEF Fast!Cxx!Catch, Fast!Cxx!SetExn, View
  <2>2. QED
    BY <2>1 DEF Fast!Cxx!Next
<1>5. QED
  BY <1>3, <1>4

LEMMA MapsToReturn ==
    ASSUME ViewFacts, ended = "no", ended' = "no", Len(activations) > 1, NEW m,
           TopExn = NoExn, AsSeen(FastTop, TopExn).objects = 0,
           m = Fast!Cxx!ObjectsAfter(
                  View[Len(activations) - 1].objects, AsSeen(FastTop, TopExn).kind),
           View' = [Front(View) EXCEPT ![Len(activations) - 1].objects = m]
    PROVE  Fast!Cxx!Next
<1>1. Fast!Cxx!Top = AsSeen(FastTop, TopExn)
  BY TopShown
<1>2. Fast!Cxx!Top.exn = NoExn
  BY <1>1 DEF AsSeen
<1>3. /\ Fast!Cxx!Front(View) = Front(View) /\ Len(Front(View)) = Len(activations) - 1
      /\ Front(View)[Len(activations) - 1] = View[Len(activations) - 1]
      /\ Len(View) > 1
  BY Popped DEF ViewFacts, Fast!Cxx!Front, Front
<1>4. LET rest == Fast!Cxx!Front(View)
      IN  View' = [rest EXCEPT ![Len(rest)].objects =
                     Fast!Cxx!ObjectsAfter(rest[Len(rest)].objects, Fast!Cxx!Top.kind)]
  BY <1>1, <1>3
<1>5. Fast!Cxx!Top.objects = 0
  BY <1>1
<1>6. Len(View) > 1
  BY <1>3
<1>7. Fast!Cxx!Return
  BY <1>2, <1>4, <1>5, <1>6 DEF Fast!Cxx!Return, View
<1>8. QED
  BY <1>7 DEF Fast!Cxx!Next

LEMMA MapsToPropagate ==
    ASSUME ViewFacts, ended = "no", ended' = "no", Len(activations) > 1,
           TopExn # NoExn, AsSeen(FastTop, TopExn).objects = 0,
           ~FastTop.noexcept, ~AsSeen(FastTop, TopExn).catches,
           View' = [Front(View) EXCEPT ![Len(activations) - 1].exn = TopExn]
    PROVE  Fast!Cxx!Next
<1>1. Fast!Cxx!Top = AsSeen(FastTop, TopExn)
  BY TopShown
<1>2. Fast!Cxx!Top.exn = TopExn /\ Fast!Cxx!Top.noexcept = FastTop.noexcept
  BY <1>1 DEF AsSeen
<1>3. Fast!Cxx!Front(View) = Front(View) /\ Len(Front(View)) = Len(activations) - 1
  BY Popped DEF ViewFacts, Fast!Cxx!Front, Front
<1>4. Fast!Cxx!Propagate
  BY <1>1, <1>2, <1>3 DEF Fast!Cxx!Propagate, View
<1>5. QED
  BY <1>4 DEF Fast!Cxx!Next

LEMMA MapsToTerminate ==
    ASSUME ViewFacts, ended = "no", ended' = "terminate", TopExn # NoExn,
           FastTop.noexcept, ~AsSeen(FastTop, TopExn).catches, View' = View
    PROVE  Fast!Cxx!Next
<1>1. Fast!Cxx!Top = AsSeen(FastTop, TopExn)
  BY TopShown
<1>2. Fast!Cxx!Top.exn = TopExn /\ Fast!Cxx!Top.noexcept = FastTop.noexcept
  BY <1>1 DEF AsSeen
<1>3. Fast!Cxx!Terminate
  BY <1>1, <1>2 DEF Fast!Cxx!Terminate, View
<1>4. QED
  BY <1>3 DEF Fast!Cxx!Next

\* The frames under the top of the stack look as they did.
LEMMA UnderShown ==
    ASSUME FastInv, FastInv', IsDestructor(FastTop) => UNCHANGED outstanding,
           NEW i \in 1 .. Len(activations) - 1, i \in 1 .. Len(activations') - 1,
           activations'[i] = activations[i]
    PROVE  View'[i] = View[i]
<1>1. View[i] = AsSeen(activations[i], UnderExn(activations[i]))
  BY ViewHolds DEF ViewFacts
<1>2. View'[i] = AsSeen(activations'[i], UnderExn(activations[i])')
  BY ViewHoldsNext DEF ViewFacts
<1>3. OnWayOut(activations[i]) => IsDestructor(FastTop)
  <2> DEFINE n == Len(activations)
  <2>1. n \in Nat \ {0} /\ i \in 1 .. n - 1
    BY OnTop
  <2>2. i \in 1 .. n /\ i # n
    <3> HIDE DEF n
    <3>1. QED
      BY <2>1
  <2>3. QED
    BY <2>2 DEF FastInv, WellFormed, OnWayOut, FastTop
<1>4. UnderExn(activations[i])' = UnderExn(activations[i])
  BY <1>3 DEF UnderExn, OnWayOut
<1>5. QED
  BY <1>1, <1>2, <1>4

\* A call shows as one.
LEMMA CallShown ==
    ASSUME FastInv, FastInv', NEW f \in Fast!Frames, activations' = Append(activations, f),
           ~OnWayOut(f), result = << >>, thrown = NoExn,
           UNCHANGED outstanding, UNCHANGED thrown, UNCHANGED result
    PROVE  /\ View' = Append(View, AsSeen(f, NoExn))
           /\ TopExn = UnderExn(FastTop)
<1> DEFINE n == Len(activations)
           x == AsSeen(f, NoExn)
           S == Shown \cup {x}
<1>1. /\ activations \in Seq(Fast!Frames) /\ activations # << >> /\ n \in Nat \ {0}
      /\ FastTop = activations[n]
  BY OnTop DEF FastTop
<1>2. /\ Len(activations') = n + 1 /\ activations'[n + 1] = f
      /\ \A i \in 1 .. n : activations'[i] = activations[i]
  BY ONLY <1>1, f \in Fast!Frames, activations' = Append(activations, f), Pushed
<1>3. FastTop' = f
  BY <1>2 DEF FastTop
<1>4. TopExn = UnderExn(FastTop) /\ TopExn' = NoExn
  BY <1>3 DEF TopExn, UnderExn
<1>5. /\ View \in Seq(Shown) /\ Len(View) = n /\ View[n] = AsSeen(FastTop, TopExn)
  BY ViewHolds DEF ViewFacts
<1>6. /\ View' \in Seq(Shown') /\ Len(View') = n + 1 /\ View'[n + 1] = x
      /\ \A i \in 1 .. n : View'[i] = AsSeen(activations[i], UnderExn(activations[i]))
  <2>1. /\ View' \in Seq(Shown') /\ Len(View') = n + 1 /\ View'[n + 1] = x
    BY <1>2, <1>3, <1>4, ViewHoldsNext DEF ViewFacts
  <2>2. ASSUME NEW i \in 1 .. n
        PROVE  View'[i] = AsSeen(activations[i], UnderExn(activations[i]))
    <3>1. i \in 1 .. Len(activations') - 1
      BY <1>1, <1>2
    <3>2. View'[i] = AsSeen(activations'[i], UnderExn(activations[i])')
      BY <3>1, ViewHoldsNext DEF ViewFacts
    <3>3. UnderExn(activations[i])' = UnderExn(activations[i])
      BY <1>2 DEF UnderExn
    <3>4. QED
      BY <1>2, <3>2, <3>3
  <2>3. QED
    BY <2>1, <2>2
<1>7. \A i \in 1 .. n : View'[i] = View[i]
  <2>1. ASSUME NEW i \in 1 .. n - 1 PROVE View[i] = AsSeen(activations[i], UnderExn(activations[i]))
    BY ViewHolds DEF ViewFacts
  <2> HIDE DEF n
  <2>2. QED
    BY <1>1, <1>4, <1>5, <1>6, <2>1
<1>8. View \in Seq(S) /\ x \in S
  BY <1>5
<1> HIDE DEF S, x
<1>9. /\ Append(View, x) \in Seq(S) /\ Len(Append(View, x)) = n + 1
      /\ Append(View, x)[n + 1] = x /\ \A i \in 1 .. n : Append(View, x)[i] = View[i]
  BY <1>5, <1>8, Pushed
<1> HIDE DEF n
<1>10. \A i \in 1 .. n + 1 : View'[i] = Append(View, x)[i]
  BY <1>1, <1>6, <1>7, <1>9
<1>11. View' = Append(View, x)
  BY ONLY <1>6, <1>9, <1>10, SameSequence
<1>12. QED
  BY <1>4, <1>11 DEF x

\* What the function on top does, and what becomes of it, shows on top.
LEMMA ChangeShown ==
    ASSUME FastInv, FastInv', IsDestructor(FastTop) => UNCHANGED outstanding,
           Len(activations') = Len(activations),
           \A i \in 1 .. Len(activations) - 1 : activations'[i] = activations[i]
    PROVE  View' = [View EXCEPT ![Len(View)] = AsSeen(FastTop', TopExn')]
<1> DEFINE n == Len(activations)
           x == AsSeen(FastTop', TopExn')
           S == Shown \cup {x}
<1>1. /\ View \in Seq(Shown) /\ Len(View) = n /\ n \in Nat \ {0}
      /\ View' \in Seq(Shown') /\ Len(View') = n /\ View'[n] = x
  BY ViewHolds, ViewHoldsNext DEF ViewFacts
<1>2. \A i \in 1 .. n - 1 : View'[i] = View[i]
  BY UnderShown
<1> HIDE DEF n, x
<1>3. /\ [View EXCEPT ![n] = x] \in Seq(S) /\ Len([View EXCEPT ![n] = x]) = n
      /\ [View EXCEPT ![n] = x][n] = x
      /\ \A i \in 1 .. n - 1 : [View EXCEPT ![n] = x][i] = View[i]
  BY <1>1
<1>4. \A i \in 1 .. n : View'[i] = [View EXCEPT ![n] = x][i]
  BY <1>1, <1>2, <1>3
<1>5. View' = [View EXCEPT ![n] = x]
  BY ONLY <1>1, <1>3, <1>4, SameSequence
<1>6. QED
  BY <1>1, <1>5 DEF x

\* A function that has returned no longer shows; what it leaves does, in its
\* caller.
LEMMA ReturnShown ==
    ASSUME FastInv, FastInv', IsDestructor(FastTop) => UNCHANGED outstanding,
           Len(activations) > 1, Len(activations') = Len(activations) - 1,
           \A i \in 1 .. Len(activations) - 2 : activations'[i] = activations[i]
    PROVE  View' = [Front(View) EXCEPT ![Len(activations) - 1] = AsSeen(FastTop', TopExn')]
<1> DEFINE n == Len(activations)
           x == AsSeen(FastTop', TopExn')
           S == Shown \cup {x}
           rest == Front(View)
<1>1. /\ View \in Seq(Shown) /\ View # << >> /\ Len(View) = n /\ n \in Nat \ {0}
      /\ View' \in Seq(Shown') /\ Len(View') = n - 1 /\ View'[n - 1] = x
  BY ViewHolds, ViewHoldsNext DEF ViewFacts
<1>2. n > 1
  OBVIOUS
<1>3. ASSUME NEW i \in 1 .. n - 2
      PROVE  View'[i] = View[i]
  <2>1. i \in 1 .. n - 1 /\ i \in 1 .. (n - 1) - 1
    <3> HIDE DEF n
    <3>1. QED
      BY <1>1, <1>3
  <2>2. QED
    BY <2>1, UnderShown
<1>4. /\ rest \in Seq(Shown) /\ Len(rest) = n - 1
      /\ \A i \in 1 .. n - 1 : rest[i] = View[i]
  BY ONLY <1>1, Popped
<1> HIDE DEF n, x, rest
<1>5. /\ [rest EXCEPT ![n - 1] = x] \in Seq(S) /\ Len([rest EXCEPT ![n - 1] = x]) = n - 1
      /\ [rest EXCEPT ![n - 1] = x][n - 1] = x
      /\ \A i \in 1 .. n - 2 : [rest EXCEPT ![n - 1] = x][i] = View[i]
  BY <1>1, <1>2, <1>4
<1>6. \A i \in 1 .. n - 1 : View'[i] = [rest EXCEPT ![n - 1] = x][i]
  BY <1>1, <1>3, <1>5
<1>7. View' = [rest EXCEPT ![n - 1] = x]
  BY ONLY <1>1, <1>5, <1>6, SameSequence
<1>8. QED
  BY <1>7 DEF n, x, rest

\* New frames look like new frames of C++.
LEMMA NewFrameShown ==
    ASSUME NEW noexcept \in BOOLEAN, NEW catches \in BOOLEAN, NEW kind \in {"plain", "ctor"}
    PROVE  /\ AsSeen(Fast!Generated(noexcept), NoExn) \in Fast!Cxx!NewFrames
           /\ AsSeen(Fast!Generated(noexcept), NoExn).kind = "plain"
           /\ AsSeen(Fast!Cpp(noexcept, catches, kind), NoExn) \in Fast!Cxx!NewFrames
           /\ AsSeen(Fast!Cpp(noexcept, catches, kind), NoExn).kind = kind
           /\ AsSeen(Fast!Cpp(TRUE, catches, "dtor"), NoExn) \in Fast!Cxx!NewFrames
           /\ AsSeen(Fast!Cpp(TRUE, catches, "dtor"), NoExn).kind = "dtor"
<1>1. /\ AsSeen(Fast!Generated(noexcept), NoExn) \in Fast!Cxx!NewFrames
      /\ AsSeen(Fast!Generated(noexcept), NoExn).kind = "plain"
  BY DEF AsSeen, Fast!Generated, Fast!Cxx!NewFrames
<1>2. /\ AsSeen(Fast!Cpp(noexcept, catches, kind), NoExn) \in Fast!Cxx!NewFrames
      /\ AsSeen(Fast!Cpp(noexcept, catches, kind), NoExn).kind = kind
  BY DEF AsSeen, Fast!Cpp, Fast!Cxx!NewFrames
<1>3. /\ AsSeen(Fast!Cpp(TRUE, catches, "dtor"), NoExn) \in Fast!Cxx!NewFrames
      /\ AsSeen(Fast!Cpp(TRUE, catches, "dtor"), NoExn).kind = "dtor"
  BY DEF AsSeen, Fast!Cpp, Fast!Cxx!NewFrames
<1>4. QED
  BY <1>1, <1>2, <1>3

LEMMA CallsMap ==
    ASSUME FastInv, FastInv',
           NEW noexcept \in BOOLEAN, NEW catches \in BOOLEAN, NEW kind \in {"plain", "ctor"},
           \/ Fast!CallFastInterp(noexcept) \/ Fast!CallGenerated(noexcept)
           \/ Fast!CallCpp(noexcept, catches, kind) \/ Fast!CallDestructor(catches)
    PROVE  Fast!Cxx!Next
<1>1. Fast!Top = FastTop /\ FastTop \in Fast!Frames
  BY FastOperators, OnTop
<1>2. ViewFacts
  BY ViewHolds
<1>3. ASSUME NEW f \in Fast!Frames, activations' = Append(activations, f), ~OnWayOut(f),
             AsSeen(f, NoExn) \in Fast!Cxx!NewFrames,
             result = << >>, thrown = NoExn, ended = "no", UNCHANGED ended,
             UNCHANGED outstanding, UNCHANGED thrown, UNCHANGED result,
             AsSeen(f, NoExn).kind = "dtor" => FastTop.k = "generated" /\ FastTop.objects > 0,
             OnWayOut(FastTop) => ~FastTop.noexcept /\ AsSeen(f, NoExn).kind = "dtor"
      PROVE  Fast!Cxx!Next
  <2> DEFINE x == AsSeen(f, NoExn)
  <2>1. View' = Append(View, x) /\ TopExn = UnderExn(FastTop)
    BY <1>3, CallShown
  <2>2. TopExn # NoExn => OnWayOut(FastTop)
    BY <2>1 DEF UnderExn
  <2>3. x.kind = "dtor" => AsSeen(FastTop, TopExn).objects > 0
    <3>1. SUFFICES ASSUME x.kind = "dtor" PROVE AsSeen(FastTop, TopExn).objects > 0
      OBVIOUS
    <3>2. FastTop.k = "generated" /\ FastTop.objects > 0
      BY <1>3, <3>1
    <3>3. QED
      BY <3>2 DEF AsSeen
  <2> HIDE DEF x
  <2>4. QED
    BY <1>2, <1>3, <2>1, <2>2, <2>3, MapsToCall DEF x
<1>4. Fast!Generated(noexcept) \in Fast!Frames /\ ~OnWayOut(Fast!Generated(noexcept))
  <2>1. Fast!Generated(noexcept) \in Fast!Frames
    BY NewFrame
  <2>2. QED
    BY <2>1 DEF Fast!Generated, OnWayOut
<1>5. CASE Fast!CallFastInterp(noexcept)
  <2>1. /\ FastTop.k = "cpp" /\ FastTop.kind # "dtor" /\ result = << >> /\ thrown = NoExn
        /\ ended = "no" /\ UNCHANGED outstanding /\ UNCHANGED thrown /\ UNCHANGED result
    BY <1>1, <1>5 DEF Fast!CallFastInterp, Fast!Running
  <2>2. outstanding = NoExn
    BY <2>1, NothingOutstanding DEF IsDestructor
  <2>3. /\ activations' = Append(activations, Fast!Generated(noexcept))
        /\ UNCHANGED ended
    BY <1>5, <2>2 DEF Fast!CallFastInterp
  <2>4. QED
    BY <1>3, <1>4, <2>1, <2>3, NewFrameShown DEF OnWayOut
<1>6. CASE Fast!CallGenerated(noexcept)
  <2>1. /\ FastTop.k = "generated" /\ ~FastTop.cleanup /\ result = << >> /\ thrown = NoExn
        /\ activations' = Append(activations, Fast!Generated(noexcept)) /\ ended = "no"
        /\ UNCHANGED outstanding /\ UNCHANGED thrown /\ UNCHANGED result /\ UNCHANGED ended
    BY <1>1, <1>6 DEF Fast!CallGenerated, Fast!Running
  <2>2. QED
    BY <1>3, <1>4, <2>1, NewFrameShown DEF OnWayOut
<1>7. CASE Fast!CallCpp(noexcept, catches, kind)
  <2> DEFINE f == Fast!Cpp(noexcept, catches, kind)
  <2>1. /\ FastTop.k = "generated" /\ ~FastTop.cleanup /\ result = << >> /\ thrown = NoExn
        /\ activations' = Append(activations, f) /\ ended = "no"
        /\ UNCHANGED outstanding /\ UNCHANGED thrown /\ UNCHANGED result /\ UNCHANGED ended
    BY <1>1, <1>7 DEF Fast!CallCpp, Fast!Running
  <2>2. f \in Fast!Frames /\ ~OnWayOut(f)
    <3>1. f \in Fast!Frames
      BY NewFrame
    <3>2. QED
      BY <3>1 DEF Fast!Cpp, OnWayOut
  <2>3. AsSeen(f, NoExn) \in Fast!Cxx!NewFrames /\ AsSeen(f, NoExn).kind # "dtor"
    BY NewFrameShown
  <2> HIDE DEF f
  <2>4. QED
    BY <1>3, <2>1, <2>2, <2>3 DEF OnWayOut
<1>8. CASE Fast!CallDestructor(catches)
  <2> DEFINE f == Fast!Cpp(TRUE, catches, "dtor")
  <2>1. /\ FastTop.k = "generated" /\ FastTop.objects > 0 /\ result = << >> /\ thrown = NoExn
        /\ activations' = Append(activations, f) /\ ended = "no"
        /\ FastTop.cleanup => ~FastTop.noexcept
        /\ UNCHANGED outstanding /\ UNCHANGED thrown /\ UNCHANGED result /\ UNCHANGED ended
    BY <1>1, <1>8 DEF Fast!CallDestructor, Fast!Running
  <2>2. f \in Fast!Frames /\ ~OnWayOut(f)
    <3>1. f \in Fast!Frames
      BY DEF Fast!Cpp, Fast!Frames
    <3>2. QED
      BY <3>1 DEF Fast!Cpp, OnWayOut
  <2>3. AsSeen(f, NoExn) \in Fast!Cxx!NewFrames /\ AsSeen(f, NoExn).kind = "dtor"
    BY NewFrameShown
  <2> HIDE DEF f
  <2>4. QED
    BY <1>3, <2>1, <2>2, <2>3 DEF OnWayOut
<1>9. QED
  BY <1>5, <1>6, <1>7, <1>8

\* The exceptions of C++ code and the results it gets.
LEMMA CppMaps ==
    ASSUME FastInv, FastInv',
           \/ \E e \in Exn : Fast!CppThrows(e)
           \/ Fast!FastInterpReturns \/ Fast!CppCatches \/ Fast!CppTerminates
    PROVE  Fast!Cxx!Next \/ UNCHANGED Fast!Cxx!vars
<1>1. Fast!Top = FastTop /\ FastTop \in Fast!Frames /\ ViewFacts
  BY FastOperators, OnTop, ViewHolds
<1>2. thrown # NoExn => FastTop.k = "cpp" /\ result = << >>
  BY <1>1 DEF FastInv, Fast!TypeOK
<1>3. FastTop.k = "cpp" => UnderExn(FastTop) = NoExn
  BY DEF UnderExn, OnWayOut
<1>4. ASSUME UNCHANGED activations, IsDestructor(FastTop) => UNCHANGED outstanding
      PROVE  /\ View' = [View EXCEPT ![Len(View)].exn = TopExn']
             /\ TopExn' = TopExn => View' = View
  <2>1. FastTop' = FastTop
    BY <1>4 DEF FastTop
  <2>2. View' = [View EXCEPT ![Len(View)] = AsSeen(FastTop, TopExn')]
    BY <1>4, <2>1, ChangeShown
  <2>3. View[Len(View)] = AsSeen(FastTop, TopExn)
    BY <1>1 DEF ViewFacts
  <2>4. AsSeen(FastTop, TopExn') = [AsSeen(FastTop, TopExn) EXCEPT !.exn = TopExn']
    BY DEF AsSeen
  <2>5. View \in Seq(Shown)
    BY <1>1 DEF ViewFacts
  <2>6. QED
    BY <2>2, <2>3, <2>4, <2>5
<1>5. ASSUME NEW e \in Exn, Fast!CppThrows(e)
      PROVE  Fast!Cxx!Next
  <2>1. /\ FastTop.k = "cpp" /\ result = << >> /\ thrown = NoExn /\ thrown' = e
        /\ ended = "no" /\ ended' = "no"
        /\ UNCHANGED activations /\ UNCHANGED outstanding /\ UNCHANGED result
    BY <1>1, <1>5 DEF Fast!CppThrows, Fast!Running
  <2>2. TopExn = NoExn
    BY <1>3, <2>1 DEF TopExn
  <2>3. e # NoExn
    BY FastConstants DEF Fast!ConstantsOK
  <2>4. TopExn' = e
    BY <2>1, <2>3 DEF TopExn
  <2>5. QED
    BY <1>1, <1>4, <2>1, <2>2, <2>4, MapsToThrowOrCatch
<1>6. ASSUME Fast!FastInterpReturns
      PROVE  UNCHANGED Fast!Cxx!vars
  <2>1. FastTop.k = "cpp" /\ result # << >> /\ ended = "no"
    BY <1>1, <1>6 DEF Fast!FastInterpReturns
  <2>2. ~IsDestructor(FastTop) /\ thrown = NoExn
    BY <1>2, <2>1 DEF FastInv
  <2>3. UNCHANGED activations /\ result' = << >>
    BY <1>6 DEF Fast!FastInterpReturns, Fast!Rethrow, Fast!ReturnValue
  <2>4. FastTop' = FastTop
    BY <2>3 DEF FastTop
  <2>5. (UnderExn(FastTop))' = NoExn
    BY <2>1, <2>4 DEF UnderExn, OnWayOut
  <2>6. ended' \in {"no", "assertion"} /\ ended' # "assertion"
    BY <1>6, <2>1 DEF Fast!FastInterpReturns, Fast!Rethrow, Fast!ReturnValue, FastInv
  <2>7. TopExn' = TopExn
    <3>1. CASE Fast!Rethrow
      <4>1. result[1].exn /\ thrown' = outstanding
        BY <3>1 DEF Fast!Rethrow
      <4>2. TopExn = outstanding
        BY <2>1, <2>2, <4>1 DEF TopExn
      <4>3. TopExn' = outstanding
        BY <2>3, <2>5, <4>1 DEF TopExn
      <4>4. QED
        BY <4>2, <4>3
    <3>2. CASE Fast!ReturnValue
      <4>1. ~result[1].exn /\ UNCHANGED thrown
        BY <3>2 DEF Fast!ReturnValue
      <4>2. TopExn = NoExn
        BY <1>3, <2>1, <2>2, <4>1 DEF TopExn
      <4>3. TopExn' = NoExn
        BY <2>2, <2>3, <2>5, <4>1 DEF TopExn
      <4>4. QED
        BY <4>2, <4>3
    <3>3. QED
      BY <1>6, <3>1, <3>2 DEF Fast!FastInterpReturns
  <2>8. View' = View
    BY <1>4, <2>2, <2>3, <2>7
  <2>9. QED
    BY <2>1, <2>6, <2>8, MapsToStutter
<1>7. ASSUME thrown # NoExn, UNCHANGED activations, UNCHANGED outstanding, UNCHANGED result
      PROVE  /\ FastTop.k = "cpp" /\ TopExn = thrown /\ TopExn' = thrown'
             /\ AsSeen(FastTop, TopExn).catches = FastTop.catches
  <2>1. FastTop' = FastTop
    BY <1>7 DEF FastTop
  <2>2. UnderExn(FastTop)' = NoExn
    BY <1>2, <1>7, <2>1 DEF UnderExn, OnWayOut
  <2>3. TopExn = thrown /\ TopExn' = thrown'
    BY <1>2, <1>7, <2>2 DEF TopExn
  <2>4. QED
    BY <1>1, <1>2, <1>7, <2>3, ShownFields
<1>8. ASSUME Fast!CppCatches
      PROVE  Fast!Cxx!Next
  <2>1. /\ thrown # NoExn /\ thrown' = NoExn /\ FastTop.catches /\ ended = "no" /\ ended' = "no"
        /\ UNCHANGED activations /\ UNCHANGED outstanding /\ UNCHANGED result
    BY <1>1, <1>8 DEF Fast!CppCatches
  <2>2. QED
    BY <1>1, <1>4, <1>7, <2>1, MapsToThrowOrCatch
<1>9. ASSUME Fast!CppTerminates
      PROVE  Fast!Cxx!Next
  <2>1. /\ thrown # NoExn /\ ~FastTop.catches /\ FastTop.noexcept
        /\ ended = "no" /\ ended' = "terminate" /\ UNCHANGED thrown
        /\ UNCHANGED activations /\ UNCHANGED outstanding /\ UNCHANGED result
    BY <1>1, <1>9 DEF Fast!CppTerminates
  <2>2. View' = View
    BY <1>4, <1>7, <2>1
  <2>3. QED
    BY <1>1, <1>7, <2>1, <2>2, MapsToTerminate
<1>10. QED
  BY <1>5, <1>6, <1>8, <1>9

\* Returns from functions of both kinds.
LEMMA ReturnsMap ==
    ASSUME FastInv, FastInv', Fast!CppReturns \/ Fast!Return
    PROVE  Fast!Cxx!Next
<1> DEFINE n == Len(activations)
           c == activations[n - 1]
<1>1. Fast!Top = FastTop /\ FastTop \in Fast!Frames /\ ViewFacts
  BY FastOperators, OnTop, ViewHolds
<1>2. ASSUME n > 1, c \in Fast!Frames, NEW m, TopExn = NoExn, ended = "no", ended' = "no",
             AsSeen(FastTop, NoExn).objects = 0,
             m = Fast!Cxx!ObjectsAfter(
                    AsSeen(c, UnderExn(c)).objects, AsSeen(FastTop, NoExn).kind),
             Len(activations') = n - 1,
             \A i \in 1 .. n - 2 : activations'[i] = activations[i],
             UNCHANGED outstanding,
             AsSeen(FastTop', TopExn') = [AsSeen(c, UnderExn(c)) EXCEPT !.objects = m]
      PROVE  Fast!Cxx!Next
  <2>1. n - 1 \in 1 .. n - 1
    <3>1. n \in Nat /\ n > 1
      BY <1>2, OnTop
    <3> HIDE DEF n
    <3>2. QED
      BY <3>1
  <2>2. View[n - 1] = AsSeen(c, UnderExn(c))
    BY <1>1, <2>1 DEF ViewFacts
  <2>3. View' = [Front(View) EXCEPT ![n - 1] = AsSeen(FastTop', TopExn')]
    BY <1>2, ReturnShown
  <2>4. Front(View)[n - 1] = View[n - 1]
    BY <1>1, <2>1, Popped DEF ViewFacts
  <2>5. View' = [Front(View) EXCEPT ![n - 1].objects = m]
    BY <1>2, <2>2, <2>3, <2>4
  <2>6. QED
    BY <1>1, <1>2, <2>2, <2>5, MapsToReturn
<1>3. ASSUME Fast!CppReturns
      PROVE  Fast!Cxx!Next
  <2> DEFINE m == Fast!ObjectsAfter
  <2>1. /\ FastTop.k = "cpp" /\ FastTop.kind # "host" /\ result = << >> /\ thrown = NoExn
        /\ UNCHANGED outstanding /\ UNCHANGED thrown /\ UNCHANGED ended
        /\ n > 1 /\ c.k = "generated" /\ c \in Fast!Frames /\ m \in 0 .. MaxObjects
        /\ Len(activations') = n - 1
        /\ \A i \in 1 .. n - 2 : activations'[i] = activations[i]
        /\ FastTop' = [c EXCEPT !.objects = m]
        /\ FastTop'.k = "generated" /\ FastTop'.cleanup = c.cleanup
        /\ result' # << >> /\ ~result'[1].exn
    BY <1>3, CppReturnChanges DEF CppOver
  <2>2. ended = "no"
    BY <1>3 DEF Fast!CppReturns, Fast!Running
  <2>3. TopExn = NoExn
    BY <2>1 DEF TopExn, UnderExn, OnWayOut
  <2>4. UnderExn(FastTop)' = UnderExn(c)
    BY <2>1 DEF UnderExn, OnWayOut
  <2>5. TopExn' = UnderExn(c)
    BY <2>1, <2>4 DEF TopExn
  <2>6. m = Fast!Cxx!ObjectsAfter(
               AsSeen(c, UnderExn(c)).objects, AsSeen(FastTop, NoExn).kind)
    <3>1. /\ AsSeen(c, UnderExn(c)).objects = c.objects
          /\ AsSeen(FastTop, NoExn).kind = FastTop.kind
      BY <1>1, <2>1, ShownFields, ZenonT(30)
    <3>2. QED
      BY <1>1, <3>1 DEF Fast!ObjectsAfter, Fast!Cxx!ObjectsAfter, Fast!Caller
  <2>7. AsSeen(FastTop, NoExn).objects = 0
    BY <1>1, <2>1, ShownFields
  <2> HIDE DEF m
  <2> DEFINE e == UnderExn(c)
  <2>8. AsSeen([c EXCEPT !.objects = m], e) = [AsSeen(c, e) EXCEPT !.objects = m]
    <3>1. c \in Fast!Frames /\ c.k = "generated" /\ m \in 0 .. MaxObjects
      BY <2>1
    <3> HIDE DEF c, e
    <3>2. QED
      BY ONLY <3>1, ObjectsShown
  <2>9. QED
    BY <1>2, <2>1, <2>2, <2>3, <2>5, <2>6, <2>7, <2>8
<1>4. ASSUME Fast!Return
      PROVE  Fast!Cxx!Next
  <2>1. /\ FastTop.k = "generated" /\ ~FastTop.cleanup /\ FastTop.objects = 0
        /\ result = << >> /\ thrown = NoExn /\ thrown' = NoExn /\ ended = "no" /\ ended' = "no"
        /\ activations' = Front(activations) /\ UNCHANGED outstanding
        /\ result' = Fast!Result(FastTop.noexcept, FALSE)
    BY <1>1, <1>4, FastOperators DEF Fast!Return, Fast!Running
  <2>2. result' # << >> /\ ~result'[1].exn
    BY <2>1 DEF Fast!Result
  <2>3. n > 1 /\ activations \in Seq(Fast!Frames) /\ activations # << >>
    BY <2>1, OnTop
  <2>4. /\ Len(activations') = n - 1
        /\ \A i \in 1 .. n - 1 : activations'[i] = activations[i]
    BY ONLY <2>1, <2>3, Popped
  <2>5. n - 1 \in 1 .. n - 1 /\ n - 1 \in 1 .. n /\ \A i \in 1 .. n - 2 : i \in 1 .. n - 1
    <3>1. n \in Nat /\ n > 1
      BY <2>3
    <3> HIDE DEF n
    <3>2. QED
      BY <3>1
  <2>6. FastTop' = c /\ c \in Fast!Frames
    BY <2>3, <2>4, <2>5 DEF FastTop
  <2>7. TopExn = NoExn
    BY <2>1 DEF TopExn, UnderExn, OnWayOut
  <2>8. UnderExn(FastTop)' = UnderExn(c)
    BY <2>1, <2>6 DEF UnderExn
  <2>9. TopExn' = UnderExn(c)
    BY <2>1, <2>2, <2>8 DEF TopExn
  <2> DEFINE a == AsSeen(c, UnderExn(c))
             m == a.objects
  <2>10. /\ AsSeen(FastTop, NoExn).kind = "plain" /\ AsSeen(FastTop, NoExn).objects = 0
    BY <1>1, <2>1, ShownFields, ZenonT(30)
  <2>11. m = Fast!Cxx!ObjectsAfter(a.objects, AsSeen(FastTop, NoExn).kind)
    BY <2>10 DEF Fast!Cxx!ObjectsAfter
  <2>12. a = [a EXCEPT !.objects = m]
    BY DEF AsSeen
  <2>13. AsSeen(FastTop', TopExn') = a
    BY <2>6, <2>9
  <2>14. \A i \in 1 .. n - 2 : activations'[i] = activations[i]
    BY <2>4, <2>5
  <2>15. QED
    BY <1>2, <2>1, <2>3, <2>4, <2>6, <2>7, <2>10, <2>11, <2>12, <2>13, <2>14
<1>5. QED
  BY <1>3, <1>4

\* Exceptions that leave functions of both kinds.
LEMMA LeavingMaps ==
    ASSUME FastInv, FastInv', Fast!HelperCatches \/ Fast!Propagate
    PROVE  Fast!Cxx!Next
<1> DEFINE n == Len(activations)
           c == activations[n - 1]
<1>1. Fast!Top = FastTop /\ FastTop \in Fast!Frames /\ ViewFacts
  BY FastOperators, OnTop, ViewHolds
<1>2. ended' # "assertion"
  BY DEF FastInv
<1>3. ASSUME ended = "no", ended' = "no", ~FastTop.noexcept, TopExn # NoExn,
             AsSeen(FastTop, TopExn).objects = 0, ~AsSeen(FastTop, TopExn).catches,
             n > 1, ~IsDestructor(FastTop), activations' = Front(activations),
             thrown' = NoExn, result' = Fast!Result(FALSE, TRUE), outstanding' = TopExn
      PROVE  Fast!Cxx!Next
  <2>1. n \in Nat /\ n > 1 /\ activations \in Seq(Fast!Frames) /\ activations # << >>
    BY <1>3, OnTop
  <2>2. /\ Len(activations') = n - 1
        /\ \A i \in 1 .. n - 1 : activations'[i] = activations[i]
    BY ONLY <1>3, <2>1, Popped
  <2>3. n - 1 \in 1 .. n - 1 /\ \A i \in 1 .. n - 2 : i \in 1 .. n - 1
    <3> HIDE DEF n
    <3>1. QED
      BY <2>1
  <2>4. FastTop' = c
    BY <2>2, <2>3 DEF FastTop
  <2>5. result' # << >> /\ result'[1].exn
    BY <1>3 DEF Fast!Result
  <2>6. TopExn' = TopExn
    BY <1>3, <2>5 DEF TopExn
  <2>7. View' = [Front(View) EXCEPT ![n - 1] = AsSeen(c, TopExn)]
    BY <1>3, <2>2, <2>3, <2>4, <2>6, ReturnShown
  <2>8. Front(View)[n - 1] = AsSeen(c, UnderExn(c))
    BY <1>1, <2>3, Popped DEF ViewFacts
  <2>9. AsSeen(c, TopExn) = [AsSeen(c, UnderExn(c)) EXCEPT !.exn = TopExn]
    BY DEF AsSeen
  <2>10. View' = [Front(View) EXCEPT ![n - 1].exn = TopExn]
    BY <2>7, <2>8, <2>9
  <2>11. QED
    BY <1>1, <1>3, <2>10, MapsToPropagate
<1>4. ASSUME Fast!HelperCatches
      PROVE  Fast!Cxx!Next
  <2>1. /\ thrown # NoExn /\ ~FastTop.catches /\ ~FastTop.noexcept /\ ended = "no"
    BY <1>1, <1>4 DEF Fast!HelperCatches
  <2>2. FastTop.k = "cpp"
    BY <1>1, <2>1 DEF FastInv, Fast!TypeOK
  <2>3. outstanding = NoExn
    BY <1>2, <1>4 DEF Fast!HelperCatches
  <2>4. /\ outstanding' = thrown /\ thrown' = NoExn /\ activations' = Front(activations)
        /\ result' = Fast!Result(FALSE, TRUE) /\ ended' = "no"
    BY <1>4, <2>1, <2>3, FastOperators DEF Fast!HelperCatches
  <2>5. n > 1 /\ ~IsDestructor(FastTop)
    BY <2>1, LeftByException
  <2>6. result = << >>
    BY <2>1, LeftByException
  <2>7. TopExn = thrown
    BY <2>1 DEF TopExn
  <2>8. AsSeen(FastTop, TopExn).objects = 0 /\ ~AsSeen(FastTop, TopExn).catches
    BY <1>1, <2>1, <2>2, ShownFields
  <2>9. QED
    BY <1>3, <2>1, <2>4, <2>5, <2>7, <2>8
<1>5. ASSUME Fast!Propagate
      PROVE  Fast!Cxx!Next
  <2>1. /\ FastTop.k = "generated" /\ FastTop.cleanup /\ ~FastTop.noexcept /\ FastTop.objects = 0
        /\ result = << >> /\ thrown = NoExn /\ thrown' = NoExn /\ ended = "no" /\ ended' = "no"
        /\ activations' = Front(activations) /\ UNCHANGED outstanding
        /\ result' = Fast!Result(FALSE, TRUE)
    BY <1>1, <1>5, FastOperators DEF Fast!Propagate, Fast!Cleanup, Fast!Running
  <2>2. outstanding # NoExn /\ TopExn = outstanding
    BY <2>1 DEF FastInv, Leaving, TopExn, UnderExn, OnWayOut
  <2>3. n > 1 /\ ~IsDestructor(FastTop)
    BY <2>1, OnTop DEF IsDestructor
  <2>4. AsSeen(FastTop, TopExn).objects = 0 /\ ~AsSeen(FastTop, TopExn).catches
    BY <1>1, <2>1, ShownFields
  <2>5. QED
    BY <1>3, <2>1, <2>2, <2>3, <2>4
<1>6. QED
  BY <1>4, <1>5

\* What a generated function throws, learns of, or must not be left by.
LEMMA GeneratedMaps ==
    ASSUME FastInv, FastInv',
           \/ Fast!CheckException \/ Fast!Terminate \/ \E e \in Exn : Fast!Throw(e)
    PROVE  Fast!Cxx!Next \/ UNCHANGED Fast!Cxx!vars
<1> DEFINE n == Len(activations)
           f == [FastTop EXCEPT !.cleanup = TRUE]
<1>1. /\ Fast!Top = FastTop /\ FastTop \in Fast!Frames /\ ViewFacts
      /\ \A s : Fast!Front(s) = Front(s)
  BY FastOperators, OnTop, ViewHolds
<1>2. ended' # "assertion"
  BY DEF FastInv
<1>3. /\ activations \in Seq(Fast!Frames) /\ activations # << >>
      /\ n \in Nat \ {0} /\ FastTop = activations[n]
  BY OnTop DEF FastTop
<1>4. ASSUME FastTop.k = "generated",
             activations' = activations \/ activations' = Append(Front(activations), f)
      PROVE  /\ FastTop' \in {FastTop, f}
             /\ activations' = activations => FastTop' = FastTop
             /\ activations' = Append(Front(activations), f) => FastTop' = f
             /\ View' = [View EXCEPT ![Len(View)].exn = TopExn']
             /\ TopExn' = TopExn => View' = View
  <2>1. CASE activations' = activations
    <3>1. FastTop' = FastTop
      BY <2>1 DEF FastTop
    <3>2. /\ Len(activations') = n
          /\ \A i \in 1 .. n - 1 : activations'[i] = activations[i]
      BY <2>1
    <3>3. View' = [View EXCEPT ![Len(View)] = AsSeen(FastTop', TopExn')]
      BY <1>4, <3>2, ChangeShown DEF IsDestructor
    <3>4. /\ View \in Seq(Shown) /\ View[Len(View)] = AsSeen(FastTop, TopExn)
      BY <1>1 DEF ViewFacts
    <3>5. /\ AsSeen(FastTop', TopExn') = [AsSeen(FastTop, TopExn) EXCEPT !.exn = TopExn']
          /\ TopExn' = TopExn => AsSeen(FastTop', TopExn') = AsSeen(FastTop, TopExn)
      BY <3>1 DEF AsSeen
    <3>6. activations' = Append(Front(activations), f) => FastTop' = f
      <4>1. f \in Fast!Frames
        BY <1>1, <1>4, FrameFields
      <4> HIDE DEF f
      <4>2. SUFFICES ASSUME activations' = Append(Front(activations), f) PROVE FastTop' = f
        OBVIOUS
      <4>3. activations'[n] = f
        BY ONLY <1>3, <4>1, <4>2, Replaced
      <4>4. QED
        BY <2>1, <4>3 DEF FastTop
    <3>7. QED
      BY <3>1, <3>3, <3>4, <3>5, <3>6
  <2>2. CASE activations' = Append(Front(activations), f)
    <3>1. f \in Fast!Frames
      BY <1>1, <1>4, FrameFields
    <3>2. \A e : AsSeen(f, e) = AsSeen(FastTop, e)
      BY <1>1, <1>4, ShownFields
    <3> HIDE DEF f
    <3>3. /\ Len(activations') = n /\ activations'[n] = f
          /\ \A i \in 1 .. n - 1 : activations'[i] = activations[i]
      BY ONLY <1>3, <2>2, <3>1, Replaced
    <3>4. FastTop' = f
      BY <3>3 DEF FastTop
    <3>5. View' = [View EXCEPT ![Len(View)] = AsSeen(FastTop', TopExn')]
      BY <1>4, <3>3, ChangeShown DEF IsDestructor
    <3>6. /\ View \in Seq(Shown) /\ View[Len(View)] = AsSeen(FastTop, TopExn)
      BY <1>1 DEF ViewFacts
    <3>7. AsSeen(FastTop', TopExn') = AsSeen(FastTop, TopExn')
      BY <3>2, <3>4
    <3>8. AsSeen(FastTop, TopExn') = [AsSeen(FastTop, TopExn) EXCEPT !.exn = TopExn']
      BY DEF AsSeen
    <3>9. activations' = activations => f = FastTop
      BY <3>4 DEF FastTop
    <3>10. QED
      BY <3>4, <3>5, <3>6, <3>7, <3>8, <3>9
  <2>3. QED
    BY <1>4, <2>1, <2>2
<1>5. FastTop.k = "generated" => f.k = "generated" /\ f.cleanup
  <2>1. SUFFICES ASSUME FastTop.k = "generated" PROVE f.k = "generated" /\ f.cleanup
    OBVIOUS
  <2>2. f = [k |-> "generated", noexcept |-> FastTop.noexcept,
             objects |-> FastTop.objects, cleanup |-> TRUE]
    BY <1>1, <2>1, FrameFields
  <2>3. QED
    BY <2>2
<1> HIDE DEF f
<1>6. ASSUME Fast!CheckException
      PROVE  UNCHANGED Fast!Cxx!vars
  <2>1. /\ FastTop.k = "generated" /\ result # << >> /\ result' = << >>
        /\ UNCHANGED outstanding /\ UNCHANGED thrown /\ UNCHANGED ended
    BY <1>1, <1>6 DEF Fast!CheckException
  <2>2. thrown = NoExn
    BY <2>1 DEF FastInv, Fast!TypeOK
  <2>3. CASE result[1].exn
    <3>1. ~result[1].noexcept
      BY <2>1, <2>3 DEF FastInv
    <3>2. activations' = Append(Front(activations), f)
      BY <1>1, <1>6, <2>3, <3>1 DEF Fast!CheckException, Fast!SetTop, f
    <3>3. TopExn = outstanding
      BY <2>1, <2>2, <2>3 DEF TopExn
    <3>4. UnderExn(FastTop)' = outstanding
      BY <1>4, <1>5, <2>1, <3>2 DEF UnderExn, OnWayOut
    <3>5. TopExn' = outstanding
      BY <2>1, <2>2, <3>4 DEF TopExn
    <3>6. View' = View
      BY <1>4, <2>1, <3>2, <3>3, <3>5
    <3>7. QED
      BY <2>1, <3>6, MapsToStutter
  <2>4. CASE ~result[1].exn
    <3>1. UNCHANGED activations
      BY <1>6, <2>4 DEF Fast!CheckException
    <3>2. UnderExn(FastTop)' = UnderExn(FastTop)
      BY <1>4, <2>1, <3>1 DEF UnderExn
    <3>3. TopExn' = TopExn
      BY <2>1, <2>2, <2>4, <3>2 DEF TopExn
    <3>4. View' = View
      BY <1>4, <2>1, <3>1, <3>3
    <3>5. QED
      BY <2>1, <3>4, MapsToStutter
  <2>5. QED
    BY <2>3, <2>4
<1>7. ASSUME NEW e \in Exn, Fast!Throw(e)
      PROVE  Fast!Cxx!Next
  <2>1. /\ FastTop.k = "generated" /\ ~FastTop.cleanup /\ result = << >> /\ thrown = NoExn
        /\ ended = "no" /\ UNCHANGED thrown /\ UNCHANGED result
    BY <1>1, <1>7 DEF Fast!Throw, Fast!Running
  <2>2. outstanding = NoExn
    BY <2>1, NothingOutstanding
  <2>3. activations' = Append(Front(activations), f) /\ outstanding' = e /\ UNCHANGED ended
    BY <1>1, <1>7, <2>2 DEF Fast!Throw, Fast!SetTop, f
  <2>4. TopExn = NoExn
    BY <2>1 DEF TopExn, UnderExn, OnWayOut
  <2>5. UnderExn(FastTop)' = e
    BY <1>4, <1>5, <2>1, <2>3 DEF UnderExn, OnWayOut
  <2>6. TopExn' = e
    BY <2>1, <2>5 DEF TopExn
  <2>7. View' = [View EXCEPT ![Len(View)].exn = e]
    BY <1>4, <2>1, <2>3, <2>6
  <2>8. QED
    BY <1>1, <2>1, <2>3, <2>4, <2>7, MapsToThrowOrCatch
<1>8. ASSUME Fast!Terminate
      PROVE  Fast!Cxx!Next
  <2>1. /\ FastTop.k = "generated" /\ FastTop.cleanup /\ FastTop.noexcept
        /\ result = << >> /\ thrown = NoExn /\ ended = "no" /\ ended' = "terminate"
        /\ UNCHANGED activations /\ UNCHANGED outstanding /\ UNCHANGED thrown /\ UNCHANGED result
    BY <1>1, <1>8 DEF Fast!Terminate, Fast!Cleanup, Fast!Running
  <2>2. outstanding # NoExn /\ TopExn = outstanding
    BY <2>1 DEF FastInv, Leaving, TopExn, UnderExn, OnWayOut
  <2>3. UnderExn(FastTop)' = UnderExn(FastTop)
    BY <1>4, <2>1 DEF UnderExn
  <2>4. TopExn' = TopExn
    BY <2>1, <2>3 DEF TopExn
  <2>5. View' = View
    BY <1>4, <2>1, <2>4
  <2>6. ~AsSeen(FastTop, TopExn).catches
    BY <1>1, <2>1, ShownFields
  <2>7. QED
    BY <1>1, <2>1, <2>2, <2>5, <2>6, MapsToTerminate
<1>9. QED
  BY <1>6, <1>7, <1>8

LEMMA InitMaps ==
    ASSUME Fast!Init PROVE Fast!Cxx!Init
<1>1. activations = <<Fast!Host>> /\ thrown = NoExn /\ result = << >> /\ ended = "no"
  BY DEF Fast!Init
<1>2. FastInv
  BY FastInitInv
<1>3. ViewFacts
  BY <1>2, ViewHolds
<1>4. Len(activations) = 1 /\ FastTop = Fast!Host
  BY <1>1 DEF FastTop
<1>5. TopExn = NoExn
  BY <1>1, <1>4 DEF TopExn, UnderExn, OnWayOut, Fast!Host, Fast!Cpp
<1>6. AsSeen(Fast!Host, NoExn) = Fast!Cxx!Host
  BY DEF AsSeen, Fast!Host, Fast!Cpp, Fast!Cxx!Host
<1>7. View = <<Fast!Cxx!Host>>
  BY <1>3, <1>4, <1>5, <1>6 DEF ViewFacts
<1>8. QED
  BY <1>1, <1>7 DEF Fast!Cxx!Init, View

LEMMA StepMaps ==
    ASSUME FastInv, FastInv', [SuiteNext]_<<part, vars, fastVars>>
    PROVE  [Fast!Cxx!Next]_(Fast!Cxx!vars)
<1>1. CASE UNCHANGED fastVars
  <2>1. /\ UNCHANGED activations /\ UNCHANGED outstanding /\ UNCHANGED thrown
        /\ UNCHANGED result /\ UNCHANGED ended
    BY <1>1 DEF fastVars
  <2>2. View' = View
    BY <2>1 DEF View, Fast!Seen, Fast!ExnOf
  <2>3. QED
    BY <2>1, <2>2, MapsToStutter
<1>2. CASE Fast!Next
  <2>1. CASE \E noexcept \in BOOLEAN :
                \/ Fast!CallFastInterp(noexcept) \/ Fast!CallGenerated(noexcept)
                \/ \E catches \in BOOLEAN, kind \in {"plain", "ctor"} :
                      Fast!CallCpp(noexcept, catches, kind)
    BY <2>1, CallsMap
  <2>2. CASE \E catches \in BOOLEAN : Fast!CallDestructor(catches)
    BY <2>2, CallsMap
  <2>3. CASE Fast!Halted
    BY <1>1, <2>3 DEF Fast!Halted, Fast!vars, fastVars
  <2>4. CASE \E e \in Exn : Fast!CppThrows(e) \/ Fast!Throw(e)
    BY <2>4, CppMaps, GeneratedMaps
  <2>5. CASE \/ Fast!FastInterpReturns \/ Fast!CppCatches \/ Fast!CppReturns
             \/ Fast!HelperCatches \/ Fast!CppTerminates \/ Fast!CheckException
             \/ Fast!Return \/ Fast!Propagate \/ Fast!Terminate
    BY <2>5, CppMaps, ReturnsMap, LeavingMaps, GeneratedMaps
  <2>6. QED
    BY <1>2, <2>1, <2>2, <2>3, <2>4, <2>5 DEF Fast!Next
<1>3. QED
  BY <1>1, <1>2 DEF SuiteNext, DebugStep, FastStep

\* Calls and exceptions of generated code are those of C++: every exception
\* arrives, the same one, at the nearest C++ function that catches, the objects
\* on its way are destroyed once, before their function is left, and
\* std::terminate is called exactly where a noexcept function would be left
\* (pochivm_function_pointer.h, exception_helper.h, ast_type_helper.h).
THEOREM GeneratedCodeActsAsCxx == SuiteSpec => CxxSpec
<1>1. SuiteInit => Fast!Cxx!Init
  BY InitMaps DEF SuiteInit
<1>2. FastInv /\ FastInv' /\ [SuiteNext]_<<part, vars, fastVars>>
        => [Fast!Cxx!Next]_(Fast!Cxx!vars)
  BY StepMaps
<1>3. QED
  BY <1>1, <1>2, FastInvariance, PTL DEF SuiteSpec, CxxSpec, Fast!CxxSpec, Fast!Cxx!Spec

-----------------------------------------------------------------------------
(* Debug interpreter: what is saved where                                  *)

\* Frame h of the stack s is the activation that the frame at p belongs to.
IsHome(s, h, p) ==
    /\ h \in 1 .. p - 1 /\ s[h].k = "activation"
    /\ \A j \in h + 1 .. p - 1 : s[j].k # "activation"

\* How many scopes are open in the activation at h when the frame at p begins.
OpenAt(s, h, p) == p - 1 - h - (IF s[p - 1].k = "cpp" THEN 1 ELSE 0)

ScopesOK(scopes) ==
    scopes \in Seq(Seq(Vars)) /\ Len(scopes) <= MaxScopes /\ EachOnce(scopes)

\* A frame base and a scope stack are the context of the activation that
\* position p of the stack belongs to.
Kept(s, p, frame, scopes) ==
    \E h \in 1 .. p - 1 :
        /\ IsHome(s, h, p) /\ frame = s[h].base
        /\ ScopesOK(scopes) /\ Len(scopes) = OpenAt(s, h, p)

ActivationFrames ==
    [k : {"activation"}, base : 1 .. MaxFrames, noexcept : BOOLEAN, by : {"host", "generated", "cpp"},
     oldBase : 0 .. MaxFrames, oldScopes : Seq(Seq(Vars))]
CxxFrames == ActivationFrames \cup {Scope} \cup {Cpp(catches) : catches \in BOOLEAN}

IsActivation(f) == f.k = "activation"

\* Each activation has saved the context of the one below, whose frame is the
\* one below its own; the host calls the first and no other.
StackOK(s) ==
    /\ s \in Seq(CxxFrames)
    /\ s # <<>> => /\ IsActivation(s[1]) /\ s[1].by = "host"
                   /\ s[1].base = 1 /\ s[1].oldScopes = <<>>
    /\ \A p \in 2 .. Len(s) : IsActivation(s[p]) =>
           /\ s[p].by # "host" /\ s[p].base = s[p].oldBase + 1
           /\ Kept(s, p, s[p].oldBase, s[p].oldScopes)
    /\ \A p \in 1 .. Len(s) - 1 : s[p].k = "cpp" => IsActivation(s[p + 1])
    /\ \A i, j \in 1 .. Len(s) :
           IsActivation(s[i]) /\ IsActivation(s[j]) /\ i < j => s[i].base < s[j].base

\* The objects registered in the saved contexts.
SaversOf(s) == {i \in 2 .. Len(s) : IsActivation(s[i])}
Suspended(s) == UNION {Registered(s[i].oldBase, s[i].oldScopes) : i \in SaversOf(s)}

DebugIInv ==
    /\ base \in 0 .. MaxFrames /\ scopeStack \in Seq(Seq(Vars))
    /\ unwinding \in BOOLEAN /\ live \subseteq [base : 1 .. MaxFrames, v : Vars]
    /\ halted \in {"no", "terminate", "no such parameter"}
    /\ StackOK(stack)
    /\ stack # <<>> => /\ Kept(stack, Len(stack) + 1, base, scopeStack) /\ base = Depth
                       /\ live = Registered(base, scopeStack) \cup Suspended(stack)
    /\ stack = <<>> => live = {} /\ scopeStack = <<>>
    /\ unwinding => stack # <<>> /\ SaversOf(stack) = {}

\* What is registered in a scope stack.
LEMMA InRegistered ==
    ASSUME NEW frame, NEW scopes, NEW x
    PROVE  x \in Registered(frame, scopes) <=>
             \E i \in DOMAIN scopes : \E m \in DOMAIN scopes[i] :
                 x = [base |-> frame, v |-> scopes[i][m]]
BY DEF Registered, ToSet

LEMMA NothingRegistered ==
    ASSUME NEW frame, NEW scopes \in Seq(Seq(Vars)), Len(scopes) = 0
    PROVE  scopes = <<>> /\ Registered(frame, scopes) = {}
<1>1. scopes = <<>> /\ DOMAIN scopes = {}
  OBVIOUS
<1>2. QED
  BY <1>1, InRegistered

\* Whose context is kept depends on what is below only.
LEMMA KeptBelow ==
    ASSUME NEW s, NEW t, NEW p \in Nat, NEW frame, NEW scopes,
           \A i \in 1 .. p - 1 : s[i] = t[i], Kept(s, p, frame, scopes)
    PROVE  Kept(t, p, frame, scopes)
<1>1. PICK h \in 1 .. p - 1 :
        /\ IsHome(s, h, p) /\ frame = s[h].base
        /\ ScopesOK(scopes) /\ Len(scopes) = OpenAt(s, h, p)
  BY DEF Kept
<1>2. h \in Nat /\ p - 1 \in 1 .. p - 1
  OBVIOUS
<1>3. IsHome(t, h, p) /\ frame = t[h].base
  BY <1>1, <1>2 DEF IsHome
<1>4. OpenAt(s, h, p) = OpenAt(t, h, p)
  BY <1>2 DEF OpenAt
<1>5. QED
  BY <1>1, <1>3, <1>4 DEF Kept

\* A frame put on the stack.
LEMMA StackPushed ==
    ASSUME NEW s, StackOK(s), NEW f \in CxxFrames,
           IsActivation(f) /\ s = <<>> =>
               f.by = "host" /\ f.base = 1 /\ f.oldScopes = <<>>,
           IsActivation(f) /\ s # <<>> =>
               /\ f.by # "host" /\ f.base = f.oldBase + 1
               /\ Kept(s, Len(s) + 1, f.oldBase, f.oldScopes)
               /\ \A i \in 1 .. Len(s) : IsActivation(s[i]) => s[i].base < f.base,
           ~IsActivation(f) => s # <<>> /\ s[Len(s)].k # "cpp"
    PROVE  StackOK(Append(s, f))
<1> DEFINE n == Len(s)
           t == Append(s, f)
<1>1. s \in Seq(CxxFrames)
  BY DEF StackOK
<1>2. /\ t \in Seq(CxxFrames) /\ t # << >> /\ Len(t) = n + 1 /\ n \in Nat
      /\ t[n + 1] = f /\ \A i \in 1 .. n : t[i] = s[i]
  BY ONLY <1>1, f \in CxxFrames, Pushed
<1>3. s = <<>> <=> n = 0
  BY <1>1
<1> HIDE DEF n, t
<1>4. /\ IsActivation(t[1]) /\ t[1].by = "host"
      /\ t[1].base = 1 /\ t[1].oldScopes = <<>>
  <2>1. CASE n = 0
    BY <1>2, <1>3, <2>1
  <2>2. CASE n # 0
    <3>1. t[1] = s[1]
      BY <1>2, <2>2
    <3>2. QED
      BY <1>3, <2>2, <3>1 DEF StackOK
  <2>3. QED
    BY <2>1, <2>2
<1>5. ASSUME NEW p \in 2 .. n + 1, IsActivation(t[p])
      PROVE  /\ t[p].by # "host" /\ t[p].base = t[p].oldBase + 1
             /\ Kept(t, p, t[p].oldBase, t[p].oldScopes)
  <2>1. p \in Nat /\ \A i \in 1 .. p - 1 : s[i] = t[i]
    BY <1>2
  <2>2. CASE p = n + 1
    <3>1. n # 0 /\ t[p] = f
      BY <1>2, <2>2
    <3>2. /\ f.by # "host" /\ f.base = f.oldBase + 1
          /\ Kept(s, p, f.oldBase, f.oldScopes)
      BY <1>3, <1>5, <2>2, <3>1 DEF n
    <3>3. Kept(t, p, f.oldBase, f.oldScopes)
      BY <2>1, <3>2, KeptBelow
    <3>4. QED
      BY <3>1, <3>2, <3>3
  <2>3. CASE p # n + 1
    <3>1. p \in 2 .. n /\ t[p] = s[p]
      BY <1>2, <2>3
    <3>2. /\ s[p].by # "host" /\ s[p].base = s[p].oldBase + 1
          /\ Kept(s, p, s[p].oldBase, s[p].oldScopes)
      BY <1>5, <3>1 DEF StackOK, n
    <3>3. Kept(t, p, s[p].oldBase, s[p].oldScopes)
      BY <2>1, <3>2, KeptBelow
    <3>4. QED
      BY <3>1, <3>2, <3>3
  <2>4. QED
    BY <2>2, <2>3
<1>6. ASSUME NEW p \in 1 .. n, t[p].k = "cpp"
      PROVE  IsActivation(t[p + 1])
  <2>1. CASE p = n
    BY <1>2, <1>6, <2>1 DEF n
  <2>2. CASE p # n
    <3>1. p \in 1 .. n - 1 /\ t[p] = s[p] /\ t[p + 1] = s[p + 1]
      BY <1>2, <2>2
    <3>2. QED
      BY <1>6, <3>1 DEF StackOK, n
  <2>3. QED
    BY <2>1, <2>2
<1>7. ASSUME NEW i \in 1 .. n + 1, NEW j \in 1 .. n + 1,
             IsActivation(t[i]), IsActivation(t[j]), i < j
      PROVE  t[i].base < t[j].base
  <2>1. i \in 1 .. n /\ t[i] = s[i]
    BY <1>2, <1>7
  <2>2. CASE j = n + 1
    BY <1>2, <1>3, <1>7, <2>1, <2>2 DEF n
  <2>3. CASE j # n + 1
    <3>1. j \in 1 .. n /\ t[j] = s[j]
      BY <1>2, <2>3
    <3>2. QED
      BY <1>7, <2>1, <3>1 DEF StackOK, n
  <2>4. QED
    BY <2>2, <2>3
<1>8. Len(t) = n + 1 /\ Len(t) - 1 = n
  BY <1>2
<1>9. QED
  BY ONLY <1>2, <1>4, <1>5, <1>6, <1>7, <1>8 DEF StackOK, t

\* The frame on top taken off.
LEMMA StackPopped ==
    ASSUME NEW s, StackOK(s), s # <<>>
    PROVE  StackOK(Front(s))
<1> DEFINE n == Len(s)
           t == Front(s)
<1>1. s \in Seq(CxxFrames)
  BY DEF StackOK
<1>2. /\ t \in Seq(CxxFrames) /\ Len(t) = n - 1 /\ n \in Nat \ {0}
      /\ \A i \in 1 .. n - 1 : t[i] = s[i]
  BY <1>1, Popped
<1> HIDE DEF t
<1>3. t # <<>> => /\ IsActivation(t[1]) /\ t[1].by = "host"
                  /\ t[1].base = 1 /\ t[1].oldScopes = <<>>
  <2>1. t # <<>> => t[1] = s[1]
    BY <1>2
  <2>2. QED
    BY <2>1 DEF StackOK
<1>4. ASSUME NEW p \in 2 .. n - 1, IsActivation(t[p])
      PROVE  /\ t[p].by # "host" /\ t[p].base = t[p].oldBase + 1
             /\ Kept(t, p, t[p].oldBase, t[p].oldScopes)
  <2>1. /\ p \in Nat /\ \A i \in 1 .. p - 1 : s[i] = t[i]
        /\ p \in 2 .. n /\ t[p] = s[p]
    BY <1>2
  <2>2. /\ s[p].by # "host" /\ s[p].base = s[p].oldBase + 1
        /\ Kept(s, p, s[p].oldBase, s[p].oldScopes)
    BY <1>4, <2>1 DEF StackOK
  <2>3. QED
    BY <2>1, <2>2, KeptBelow
<1>5. ASSUME NEW p \in 1 .. n - 1 - 1, t[p].k = "cpp"
      PROVE  IsActivation(t[p + 1])
  <2>1. p \in 1 .. n - 1 /\ t[p] = s[p] /\ t[p + 1] = s[p + 1]
    BY <1>2
  <2>2. QED
    BY <1>5, <2>1 DEF StackOK
<1>6. ASSUME NEW i \in 1 .. n - 1, NEW j \in 1 .. n - 1,
             IsActivation(t[i]), IsActivation(t[j]), i < j
      PROVE  t[i].base < t[j].base
  <2>1. i \in 1 .. n /\ j \in 1 .. n /\ t[i] = s[i] /\ t[j] = s[j]
    BY <1>2
  <2>2. QED
    BY <1>6, <2>1 DEF StackOK
<1>7. QED
  BY ONLY <1>2, <1>3, <1>4, <1>5, <1>6 DEF StackOK, t

\* The activations on a stack: how many, and what they have saved.
ActivationsOf(s) == {i \in DOMAIN s : s[i].k = "activation"}

LEMMA ActivationsCounted ==
    ASSUME NEW s \in Seq(CxxFrames)
    PROVE  /\ IsFiniteSet(ActivationsOf(s)) /\ Cardinality(ActivationsOf(s)) \in 0 .. Len(s)
           /\ s = <<>> => Cardinality(ActivationsOf(s)) = 0
<1>1. Len(s) \in Nat /\ DOMAIN s = 1 .. Len(s)
  OBVIOUS
<1>2. IsFiniteSet(1 .. Len(s)) /\ Cardinality(1 .. Len(s)) = Len(s)
  BY <1>1, FS_Interval
<1>3. ActivationsOf(s) \in SUBSET (1 .. Len(s))
  BY <1>1 DEF ActivationsOf
<1>4. IsFiniteSet(ActivationsOf(s)) /\ Cardinality(ActivationsOf(s)) <= Len(s)
  BY <1>2, <1>3, FS_Subset
<1>5. Cardinality(ActivationsOf(s)) \in Nat
  BY <1>4, FS_CardinalityType
<1>6. s = <<>> => ActivationsOf(s) = {}
  BY DEF ActivationsOf
<1>7. QED
  BY <1>1, <1>4, <1>5, <1>6, FS_EmptySet

LEMMA CountedPush ==
    ASSUME NEW s \in Seq(CxxFrames), NEW f \in CxxFrames
    PROVE  /\ Cardinality(ActivationsOf(Append(s, f))) =
                Cardinality(ActivationsOf(s)) + (IF IsActivation(f) THEN 1 ELSE 0)
           /\ ~IsActivation(f) => SaversOf(Append(s, f)) = SaversOf(s)
           /\ Suspended(Append(s, f)) = Suspended(s) \cup
                (IF IsActivation(f) /\ s # <<>> THEN Registered(f.oldBase, f.oldScopes) ELSE {})
<1> DEFINE n == Len(s)
           t == Append(s, f)
<1>1. /\ t \in Seq(CxxFrames) /\ Len(t) = n + 1 /\ n \in Nat
      /\ t[n + 1] = f /\ \A i \in 1 .. n : t[i] = s[i]
  BY ONLY s \in Seq(CxxFrames), f \in CxxFrames, Pushed
<1>2. DOMAIN s = 1 .. n /\ DOMAIN t = 1 .. n + 1 /\ (s = <<>> <=> n = 0)
  BY <1>1
<1> HIDE DEF n, t
<1>3. ActivationsOf(t) = IF IsActivation(f) THEN ActivationsOf(s) \cup {n + 1} ELSE ActivationsOf(s)
  BY <1>1, <1>2 DEF ActivationsOf, IsActivation
<1>4. n + 1 \notin ActivationsOf(s)
  BY <1>1, <1>2 DEF ActivationsOf
<1>5. IsFiniteSet(ActivationsOf(s)) /\ Cardinality(ActivationsOf(s)) \in Nat
  BY ActivationsCounted
<1>6. Cardinality(ActivationsOf(t)) =
        Cardinality(ActivationsOf(s)) + (IF IsActivation(f) THEN 1 ELSE 0)
  <2>1. CASE IsActivation(f)
    <3>1. Cardinality(ActivationsOf(s) \cup {n + 1}) = Cardinality(ActivationsOf(s)) + 1
      BY ONLY <1>4, <1>5, FS_AddElement
    <3>2. QED
      BY <1>3, <2>1, <3>1
  <2>2. CASE ~IsActivation(f)
    BY <1>3, <1>5, <2>2
  <2>3. QED
    BY <2>1, <2>2
<1>7. SaversOf(t) = SaversOf(s) \cup (IF IsActivation(f) /\ n # 0 THEN {n + 1} ELSE {})
  BY <1>1 DEF SaversOf, n
<1>8. \A i \in SaversOf(s) : t[i] = s[i]
  BY <1>1 DEF SaversOf, n
<1>9. ASSUME NEW x
      PROVE  x \in Suspended(t) <=>
               x \in Suspended(s) \cup
                 (IF IsActivation(f) /\ n # 0 THEN Registered(f.oldBase, f.oldScopes) ELSE {})
  <2>1. x \in Suspended(t) <=> \E i \in SaversOf(t) : x \in Registered(t[i].oldBase, t[i].oldScopes)
    BY DEF Suspended
  <2>2. x \in Suspended(s) <=> \E i \in SaversOf(s) : x \in Registered(s[i].oldBase, s[i].oldScopes)
    BY DEF Suspended
  <2>3. QED
    BY <1>1, <1>7, <1>8, <2>1, <2>2
<1>10. QED
  BY <1>2, <1>6, <1>7, <1>9 DEF t

LEMMA CountedPop ==
    ASSUME NEW s \in Seq(CxxFrames), s # <<>>
    PROVE  /\ Cardinality(ActivationsOf(s)) =
                Cardinality(ActivationsOf(Front(s))) + (IF IsActivation(s[Len(s)]) THEN 1 ELSE 0)
           /\ SaversOf(Front(s)) \subseteq SaversOf(s)
           /\ Suspended(s) = Suspended(Front(s)) \cup
                (IF IsActivation(s[Len(s)]) /\ Len(s) > 1
                 THEN Registered(s[Len(s)].oldBase, s[Len(s)].oldScopes) ELSE {})
<1> DEFINE n == Len(s)
           t == Front(s)
           f == s[n]
<1>1. /\ t \in Seq(CxxFrames) /\ Len(t) = n - 1 /\ n \in Nat \ {0} /\ f \in CxxFrames
      /\ \A i \in 1 .. n - 1 : t[i] = s[i]
  BY ONLY s \in Seq(CxxFrames), s # <<>>, Popped
<1>2. t = <<>> <=> n = 1
  BY <1>1
<1>3. s = Append(t, f)
  <2> HIDE DEF t
  <2>1. /\ Append(t, f) \in Seq(CxxFrames) /\ Len(Append(t, f)) = n - 1 + 1
        /\ Append(t, f)[n - 1 + 1] = f /\ \A i \in 1 .. n - 1 : Append(t, f)[i] = t[i]
    BY <1>1, Pushed
  <2>2. \A i \in 1 .. n : Append(t, f)[i] = s[i]
    BY <1>1, <2>1
  <2>3. QED
    BY <1>1, <2>1, <2>2, SeqEqual
<1>4. \A i \in SaversOf(t) : i \in SaversOf(s)
  BY <1>1 DEF SaversOf
<1> HIDE DEF n, t, f
<1>5. /\ Cardinality(ActivationsOf(s)) = Cardinality(ActivationsOf(t)) + (IF IsActivation(f) THEN 1 ELSE 0)
      /\ Suspended(s) = Suspended(t) \cup
           (IF IsActivation(f) /\ t # <<>> THEN Registered(f.oldBase, f.oldScopes) ELSE {})
  BY <1>1, <1>3, CountedPush
<1>6. t # <<>> <=> n > 1
  BY <1>1, <1>2
<1>7. QED
  BY <1>4, <1>5, <1>6 DEF n, t, f

-----------------------------------------------------------------------------
(* Debug interpreter: the context of the running function                  *)

\* The activation that runs is the innermost one.
LEMMA Innermost ==
    ASSUME NEW h, stack \in Seq(CxxFrames), IsHome(stack, h, Len(stack) + 1)
    PROVE  Max(Activations) = h
<1>1. /\ h \in 1 .. Len(stack) /\ Len(stack) \in Nat /\ DOMAIN stack = 1 .. Len(stack)
      /\ stack[h].k = "activation" /\ \A j \in h + 1 .. Len(stack) : stack[j].k # "activation"
  BY DEF IsHome
<1>2. h \in Activations /\ \A i \in Activations : i \in Int /\ h >= i
  BY <1>1 DEF Activations
<1>3. \A x \in Activations : (\A y \in Activations : x >= y) => x = h
  BY <1>2
<1>4. QED
  BY <1>2, <1>3 DEF Max

\* The context stays that of the innermost activation when a scope is opened
\* or a C++ function is called.
LEMMA KeptAbove ==
    ASSUME NEW s \in Seq(CxxFrames), s # <<>>, s[Len(s)].k # "cpp",
           NEW f \in CxxFrames, ~IsActivation(f),
           NEW frame, NEW scopes, Kept(s, Len(s) + 1, frame, scopes),
           NEW after, ScopesOK(after),
           Len(after) = Len(scopes) + (IF f.k = "cpp" THEN 0 ELSE 1)
    PROVE  Kept(Append(s, f), Len(s) + 2, frame, after)
<1> DEFINE n == Len(s)
           t == Append(s, f)
<1>1. /\ t \in Seq(CxxFrames) /\ Len(t) = n + 1 /\ n \in Nat
      /\ t[n + 1] = f /\ \A i \in 1 .. n : t[i] = s[i]
  BY ONLY s \in Seq(CxxFrames), f \in CxxFrames, Pushed
<1>2. PICK h \in 1 .. n :
        /\ IsHome(s, h, n + 1) /\ frame = s[h].base
        /\ ScopesOK(scopes) /\ Len(scopes) = OpenAt(s, h, n + 1)
  BY <1>1 DEF Kept
<1> HIDE DEF n, t
<1>3. h \in 1 .. n + 1 /\ IsHome(t, h, n + 2) /\ frame = t[h].base
  <2>1. h \in 1 .. n + 1 /\ h \in 1 .. n + 2 - 1 /\ t[h] = s[h]
    BY <1>1, <1>2
  <2>2. s[h].k = "activation" /\ \A j \in h + 1 .. n : s[j].k # "activation"
    BY <1>1, <1>2 DEF IsHome
  <2>3. ASSUME NEW j \in h + 1 .. n + 2 - 1 PROVE t[j].k # "activation"
    <3>1. j = n + 1 \/ (j \in h + 1 .. n /\ j \in 1 .. n)
      BY <1>1, <1>2
    <3>2. t[n + 1].k # "activation"
      BY <1>1 DEF IsActivation
    <3>3. QED
      BY <1>1, <2>2, <3>1, <3>2
  <2>4. QED
    <3>1. t[h].k = "activation"
      BY <2>1, <2>2
    <3>2. /\ h \in 1 .. n + 2 - 1 /\ t[h].k = "activation"
          /\ \A j \in h + 1 .. n + 2 - 1 : t[j].k # "activation"
      BY ONLY <2>1, <2>3, <3>1
    <3>3. IsHome(t, h, n + 2)
      BY ONLY <1>1, <3>2 DEF IsHome
    <3>4. QED
      BY <1>2, <2>1, <3>3
<1>4. Len(scopes) = n - h
  BY <1>1, <1>2 DEF OpenAt, n
<1>5. Len(after) = OpenAt(t, h, n + 2)
  BY <1>1, <1>4 DEF OpenAt
<1>6. n + 2 - 1 = n + 1
  BY <1>1
<1>7. QED
  BY <1>3, <1>5, <1>6 DEF Kept, n, t

\* And when the frame on top is left.
LEMMA KeptUnder ==
    ASSUME NEW s, StackOK(s), s # <<>>, ~IsActivation(s[Len(s)]),
           NEW frame, NEW scopes, Kept(s, Len(s) + 1, frame, scopes)
    PROVE  /\ Len(s) > 1 /\ Front(s) # <<>>
           /\ s[Len(s)].k # "cpp" => Len(scopes) > 0
           /\ \A after :
                /\ ScopesOK(after)
                /\ Len(after) = Len(scopes) - (IF s[Len(s)].k = "cpp" THEN 0 ELSE 1)
                => Kept(Front(s), Len(s), frame, after)
<1> DEFINE n == Len(s)
           t == Front(s)
<1>1. s \in Seq(CxxFrames) /\ IsActivation(s[1])
  BY DEF StackOK
<1>2. /\ t \in Seq(CxxFrames) /\ Len(t) = n - 1 /\ n \in Nat \ {0}
      /\ \A i \in 1 .. n - 1 : t[i] = s[i]
  BY <1>1, Popped
<1>3. PICK h \in 1 .. n :
        /\ IsHome(s, h, n + 1) /\ frame = s[h].base
        /\ ScopesOK(scopes) /\ Len(scopes) = OpenAt(s, h, n + 1)
  BY <1>2 DEF Kept
<1>4. h # n /\ n > 1
  BY <1>1, <1>2, <1>3 DEF IsHome, IsActivation
<1>5. t # <<>>
  BY <1>2, <1>4
<1>6. s[n - 1].k # "cpp"
  <2>1. n - 1 \in 1 .. n - 1 /\ n - 1 + 1 = n
    BY <1>2, <1>4
  <2>2. s[n - 1].k = "cpp" => IsActivation(s[n])
    BY <2>1 DEF StackOK
  <2>3. QED
    BY <2>2
<1> HIDE DEF t
<1>7. h \in 1 .. n - 1 /\ IsHome(t, h, n) /\ frame = t[h].base
  BY <1>2, <1>3, <1>4 DEF IsHome
<1>8. Len(scopes) = n - h - (IF s[n].k = "cpp" THEN 1 ELSE 0)
  BY <1>2, <1>3 DEF OpenAt
<1>9. OpenAt(t, h, n) = n - 1 - h
  BY <1>2, <1>4, <1>6 DEF OpenAt
<1>10. s[n].k # "cpp" => Len(scopes) > 0
  BY <1>2, <1>7, <1>8
<1>11. ASSUME NEW after, ScopesOK(after),
              Len(after) = Len(scopes) - (IF s[n].k = "cpp" THEN 0 ELSE 1)
       PROVE  Kept(t, n, frame, after)
  <2>1. Len(after) = OpenAt(t, h, n)
    BY <1>2, <1>8, <1>9, <1>11
  <2>2. QED
    BY <1>7, <1>11, <2>1 DEF Kept
<1>12. QED
  BY <1>4, <1>5, <1>10, <1>11 DEF t

-----------------------------------------------------------------------------
(* Debug interpreter: the scope stack                                      *)

LEMMA NewScopes ==
    /\ ScopesOK(<< << >> >>) /\ Len(<< << >> >>) = 1
    /\ \A frame : Registered(frame, << << >> >>) = {}
<1>1. << << >> >> \in Seq(Seq(Vars)) /\ Len(<< << >> >>) = 1
      /\ DOMAIN << << >> >> = {1} /\ << << >> >>[1] = << >> /\ DOMAIN << >> = {}
  OBVIOUS
<1>2. EachOnce(<< << >> >>)
  BY <1>1 DEF EachOnce
<1>3. ASSUME NEW frame PROVE Registered(frame, << << >> >>) = {}
  BY <1>1, InRegistered
<1>4. QED
  BY <1>1, <1>2, <1>3, BoundsAssumption DEF ScopesOK

LEMMA ScopeOpened ==
    ASSUME NEW scopes, ScopesOK(scopes), Len(scopes) < MaxScopes
    PROVE  /\ ScopesOK(Append(scopes, << >>)) /\ Len(Append(scopes, << >>)) = Len(scopes) + 1
           /\ \A frame : Registered(frame, Append(scopes, << >>)) = Registered(frame, scopes)
<1> DEFINE n == Len(scopes)
           t == Append(scopes, << >>)
<1>1. scopes \in Seq(Seq(Vars)) /\ << >> \in Seq(Vars)
  BY DEF ScopesOK
<1>2. /\ t \in Seq(Seq(Vars)) /\ Len(t) = n + 1 /\ n \in Nat
      /\ t[n + 1] = << >> /\ \A i \in 1 .. n : t[i] = scopes[i]
  BY ONLY <1>1, Pushed
<1>3. DOMAIN t = 1 .. n + 1 /\ DOMAIN scopes = 1 .. n /\ DOMAIN << >> = {}
  BY <1>1, <1>2
<1> HIDE DEF n, t
<1>4. \A i \in DOMAIN t : \A m \in DOMAIN t[i] : i \in DOMAIN scopes /\ t[i] = scopes[i]
  BY <1>2, <1>3
<1>5. EachOnce(t)
  BY <1>4 DEF EachOnce, ScopesOK
<1>6. t \in Seq(Seq(Vars)) /\ Len(t) = n + 1 /\ n + 1 <= MaxScopes
  BY <1>2, BoundsAssumption DEF n
<1>7. ASSUME NEW frame PROVE Registered(frame, t) = Registered(frame, scopes)
  <2>1. \A i \in DOMAIN scopes : i \in DOMAIN t /\ t[i] = scopes[i]
    BY <1>2, <1>3
  <2>2. ASSUME NEW x PROVE x \in Registered(frame, t) <=> x \in Registered(frame, scopes)
    BY <1>4, <2>1, InRegistered
  <2>3. QED
    BY <2>2
<1>8. QED
  BY <1>5, <1>6, <1>7 DEF ScopesOK, t, n

LEMMA ScopeClosed ==
    ASSUME NEW scopes, ScopesOK(scopes), Len(scopes) > 0
    PROVE  /\ ScopesOK(Front(scopes)) /\ Len(Front(scopes)) = Len(scopes) - 1
           /\ \A frame : Registered(frame, Front(scopes)) =
                Registered(frame, scopes) \ {[base |-> frame, v |-> v] : v \in ToSet(Last(scopes))}
<1> DEFINE n == Len(scopes)
           t == Front(scopes)
<1>1. scopes \in Seq(Seq(Vars)) /\ scopes # << >>
  BY DEF ScopesOK
<1>2. /\ t \in Seq(Seq(Vars)) /\ Len(t) = n - 1 /\ n \in Nat \ {0}
      /\ Last(scopes) = scopes[n] /\ \A i \in 1 .. n - 1 : t[i] = scopes[i]
  BY <1>1, Popped
<1>3. DOMAIN t = 1 .. n - 1 /\ DOMAIN scopes = 1 .. n
  BY <1>1, <1>2
<1> HIDE DEF n, t
<1>4. \A i \in DOMAIN t : i \in DOMAIN scopes /\ i # n /\ t[i] = scopes[i]
  BY <1>2, <1>3
<1>5. \A i \in DOMAIN scopes : i = n \/ i \in DOMAIN t
  BY <1>2, <1>3
<1>6. EachOnce(scopes)
  BY DEF ScopesOK
<1>7. EachOnce(t)
  BY <1>4, <1>6 DEF EachOnce
<1>8. t \in Seq(Seq(Vars)) /\ Len(t) <= MaxScopes
  BY <1>2, BoundsAssumption DEF ScopesOK, n
<1>9. ASSUME NEW frame, NEW x
      PROVE  x \in Registered(frame, t) <=>
               /\ x \in Registered(frame, scopes)
               /\ x \notin {[base |-> frame, v |-> v] : v \in ToSet(Last(scopes))}
  <2>1. x \in {[base |-> frame, v |-> v] : v \in ToSet(Last(scopes))} <=>
          \E m \in DOMAIN scopes[n] : x = [base |-> frame, v |-> scopes[n][m]]
    BY <1>2 DEF ToSet
  <2>2. n \in DOMAIN scopes
    BY <1>2, <1>3
  <2>3. \A i \in DOMAIN scopes : \A m \in DOMAIN scopes[i], k \in DOMAIN scopes[n] :
           scopes[i][m] = scopes[n][k] => i = n
    BY <1>6, <2>2 DEF EachOnce
  <2>4. \A a, b : [base |-> frame, v |-> a] = [base |-> frame, v |-> b] => a = b
    OBVIOUS
  <2>5. ASSUME x \in Registered(frame, t)
        PROVE  x \in Registered(frame, scopes) /\ ~\E m \in DOMAIN scopes[n] : x = [base |-> frame, v |-> scopes[n][m]]
    <3>1. PICK i \in DOMAIN t : \E m \in DOMAIN t[i] : x = [base |-> frame, v |-> t[i][m]]
      BY <2>5, InRegistered
    <3>2. PICK m \in DOMAIN t[i] : x = [base |-> frame, v |-> t[i][m]]
      BY <3>1
    <3>3. i \in DOMAIN scopes /\ i # n /\ m \in DOMAIN scopes[i] /\ x = [base |-> frame, v |-> scopes[i][m]]
      BY <1>4, <3>2
    <3>4. \A k \in DOMAIN scopes[n] : scopes[i][m] # scopes[n][k]
      BY <2>3, <3>3
    <3>5. QED
      BY <2>4, <3>3, <3>4, InRegistered
  <2>6. ASSUME x \in Registered(frame, scopes), ~\E m \in DOMAIN scopes[n] : x = [base |-> frame, v |-> scopes[n][m]]
        PROVE  x \in Registered(frame, t)
    <3>1. PICK i \in DOMAIN scopes : \E m \in DOMAIN scopes[i] : x = [base |-> frame, v |-> scopes[i][m]]
      BY <2>6, InRegistered
    <3>2. i \in DOMAIN t /\ t[i] = scopes[i]
      BY <1>4, <1>5, <2>6, <3>1
    <3>3. QED
      BY <3>1, <3>2, InRegistered
  <2>7. QED
    BY <2>1, <2>5, <2>6
<1>10. QED
  BY <1>2, <1>7, <1>8, <1>9 DEF ScopesOK, t, n

LEMMA Declared ==
    ASSUME NEW scopes, ScopesOK(scopes), Len(scopes) > 0, NEW v \in Vars, NEW frame,
           [base |-> frame, v |-> v] \notin Registered(frame, scopes),
           NEW after, after = [scopes EXCEPT ![Len(scopes)] = Append(@, v)]
    PROVE  /\ ScopesOK(after) /\ Len(after) = Len(scopes)
           /\ Registered(frame, after) = Registered(frame, scopes) \cup {[base |-> frame, v |-> v]}
<1> DEFINE n == Len(scopes)
           top == scopes[n]
           k == Len(top)
<1>1. scopes \in Seq(Seq(Vars)) /\ n \in Nat \ {0} /\ n \in 1 .. n /\ DOMAIN scopes = 1 .. n
  BY DEF ScopesOK
<1>2. top \in Seq(Vars) /\ k \in Nat /\ DOMAIN top = 1 .. k
  BY <1>1
<1>3. /\ Append(top, v) \in Seq(Vars) /\ Len(Append(top, v)) = k + 1
      /\ Append(top, v)[k + 1] = v /\ \A m \in 1 .. k : Append(top, v)[m] = top[m]
  BY ONLY <1>2, v \in Vars, Pushed
<1>4. /\ after \in Seq(Seq(Vars)) /\ Len(after) = n /\ after[n] = Append(top, v)
      /\ \A i \in 1 .. n : i # n => after[i] = scopes[i]
  <2>1. after = [scopes EXCEPT ![n] = Append(top, v)]
    OBVIOUS
  <2>2. \A e \in Seq(Vars) :
          /\ [scopes EXCEPT ![n] = e] \in Seq(Seq(Vars)) /\ Len([scopes EXCEPT ![n] = e]) = n
          /\ \A i \in 1 .. n : [scopes EXCEPT ![n] = e][i] = IF i = n THEN e ELSE scopes[i]
    BY ONLY <1>1, ExceptSeq
  <2>3. QED
    BY ONLY <1>1, <1>3, <2>1, <2>2
<1>5. DOMAIN after = 1 .. n /\ DOMAIN after[n] = 1 .. k + 1
  <2>1. DOMAIN after = 1 .. n
    BY ONLY <1>4
  <2>2. DOMAIN Append(top, v) = 1 .. k + 1
    BY ONLY <1>3
  <2>3. QED
    BY <1>4, <2>1, <2>2
<1> HIDE DEF k
<1>6. \A i \in DOMAIN after : \A m \in DOMAIN after[i] :
         \/ i \in DOMAIN scopes /\ m \in DOMAIN scopes[i] /\ after[i][m] = scopes[i][m]
         \/ i = n /\ m = k + 1 /\ after[i][m] = v
  <2> SUFFICES ASSUME NEW i \in 1 .. n, NEW m \in DOMAIN after[i]
               PROVE  \/ i \in DOMAIN scopes /\ m \in DOMAIN scopes[i] /\ after[i][m] = scopes[i][m]
                      \/ i = n /\ m = k + 1 /\ after[i][m] = v
    BY <1>5
  <2>1. CASE i # n
    BY <1>1, <1>4, <2>1
  <2>2. CASE i = n /\ m = k + 1
    BY <1>3, <1>4, <2>2
  <2>3. CASE i = n /\ m # k + 1
    <3>1. m \in 1 .. k
      BY <1>2, <1>5, <2>3
    <3>2. QED
      BY <1>1, <1>2, <1>3, <1>4, <2>3, <3>1
  <2>4. QED
    BY <2>1, <2>2, <2>3
<1>7. \A i \in DOMAIN scopes : \A m \in DOMAIN scopes[i] :
         i \in DOMAIN after /\ m \in DOMAIN after[i] /\ after[i][m] = scopes[i][m]
  <2> SUFFICES ASSUME NEW i \in 1 .. n, NEW m \in DOMAIN scopes[i]
               PROVE  m \in DOMAIN after[i] /\ after[i][m] = scopes[i][m]
    BY <1>1, <1>5
  <2>1. CASE i # n
    BY <1>4, <2>1
  <2>2. CASE i = n
    <3>1. m \in 1 .. k /\ m \in 1 .. k + 1
      BY <1>2, <2>2
    <3>2. QED
      BY <1>3, <1>4, <1>5, <2>2, <3>1
  <2>3. QED
    BY <2>1, <2>2
<1>8. n \in DOMAIN after /\ k + 1 \in DOMAIN after[n] /\ after[n][k + 1] = v
  <2>1. k + 1 \in 1 .. k + 1
    BY <1>2
  <2>2. QED
    BY <1>1, <1>3, <1>4, <1>5, <2>1
<1> HIDE DEF n, top
<1>9. \A i \in DOMAIN scopes : \A m \in DOMAIN scopes[i] : scopes[i][m] # v
  <2> SUFFICES ASSUME NEW i \in DOMAIN scopes, NEW m \in DOMAIN scopes[i], scopes[i][m] = v
               PROVE  FALSE
    OBVIOUS
  <2>1. [base |-> frame, v |-> v] \in Registered(frame, scopes)
    <3>1. \E i1 \in DOMAIN scopes : \E m1 \in DOMAIN scopes[i1] :
             [base |-> frame, v |-> v] = [base |-> frame, v |-> scopes[i1][m1]]
      OBVIOUS
    <3>2. QED
      BY ONLY <3>1, InRegistered
  <2>2. QED
    BY <2>1
<1>10. EachOnce(after)
  <2> SUFFICES ASSUME NEW i \in DOMAIN after, NEW j \in DOMAIN after,
                      NEW m \in DOMAIN after[i], NEW l \in DOMAIN after[j],
                      after[i][m] = after[j][l]
               PROVE  i = j /\ m = l
    BY DEF EachOnce
  <2>1. EachOnce(scopes)
    BY DEF ScopesOK
  <2>2. CASE i = n /\ m = k + 1 /\ after[i][m] = v
    BY <1>6, <1>9, <2>2
  <2>3. CASE i \in DOMAIN scopes /\ m \in DOMAIN scopes[i] /\ after[i][m] = scopes[i][m]
    <3>1. j \in DOMAIN scopes /\ l \in DOMAIN scopes[j] /\ after[j][l] = scopes[j][l]
      BY <1>6, <1>9, <2>3
    <3>2. QED
      BY <2>1, <2>3, <3>1 DEF EachOnce
  <2>4. QED
    BY <1>6, <2>2, <2>3
<1>11. ASSUME NEW x
       PROVE  x \in Registered(frame, after) <=>
                x \in Registered(frame, scopes) \/ x = [base |-> frame, v |-> v]
  <2>1. ASSUME x \in Registered(frame, after), x # [base |-> frame, v |-> v]
        PROVE  x \in Registered(frame, scopes)
    <3>1. PICK i \in DOMAIN after : \E m \in DOMAIN after[i] : x = [base |-> frame, v |-> after[i][m]]
      BY ONLY <2>1, InRegistered
    <3>2. PICK m \in DOMAIN after[i] : x = [base |-> frame, v |-> after[i][m]]
      BY <3>1
    <3>3. i \in DOMAIN scopes /\ m \in DOMAIN scopes[i] /\ x = [base |-> frame, v |-> scopes[i][m]]
      BY <1>6, <2>1, <3>2
    <3>4. QED
      BY <3>3, InRegistered
  <2>2. ASSUME x \in Registered(frame, scopes)
        PROVE  x \in Registered(frame, after)
    <3>1. PICK i \in DOMAIN scopes : \E m \in DOMAIN scopes[i] : x = [base |-> frame, v |-> scopes[i][m]]
      BY <2>2, InRegistered
    <3>2. PICK m \in DOMAIN scopes[i] : x = [base |-> frame, v |-> scopes[i][m]]
      BY <3>1
    <3>3. i \in DOMAIN after /\ m \in DOMAIN after[i] /\ x = [base |-> frame, v |-> after[i][m]]
      BY <1>7, <3>2
    <3>4. QED
      BY <3>3, InRegistered
  <2>3. [base |-> frame, v |-> v] \in Registered(frame, after)
    BY <1>8, InRegistered
  <2>4. QED
    BY <2>1, <2>2, <2>3
<1>12. Registered(frame, after) = Registered(frame, scopes) \cup {[base |-> frame, v |-> v]}
  BY <1>11
<1>13. after \in Seq(Seq(Vars)) /\ Len(after) = Len(scopes) /\ Len(scopes) <= MaxScopes
  BY <1>4 DEF n, ScopesOK
<1>14. QED
  BY <1>10, <1>12, <1>13 DEF ScopesOK

-----------------------------------------------------------------------------
(* Debug interpreter: the inductive invariant                              *)

LEMMA PushedTwo ==
    ASSUME NEW S, NEW s \in Seq(S), NEW a \in S, NEW b \in S
    PROVE  s \o << a, b >> = Append(Append(s, a), b)
<1>1. s \o << a, b >> \in Seq(S) /\ Len(s \o << a, b >>) = Len(s) + 2 /\ Len(s) \in Nat
  OBVIOUS
<1>2. Append(Append(s, a), b) \in Seq(S) /\ Len(Append(Append(s, a), b)) = Len(s) + 2
  OBVIOUS
<1>3. ASSUME NEW i \in 1 .. Len(s) + 2
      PROVE  (s \o << a, b >>)[i] = Append(Append(s, a), b)[i]
  OBVIOUS
<1>4. QED
  BY <1>1, <1>2, <1>3, SeqEqual

\* The frame on top.
LEMMA StackTop ==
    ASSUME DebugIInv, stack # <<>>
    PROVE  /\ stack \in Seq(CxxFrames) /\ Top = stack[Len(stack)] /\ Top \in CxxFrames
           /\ Len(stack) \in Nat \ {0} /\ IsActivation(stack[1]) /\ 1 \in ActivationsOf(stack)
           /\ ScopesOK(scopeStack) /\ Depth = Cardinality(ActivationsOf(stack))
           /\ Depth \in 1 .. Len(stack) /\ base = Depth
<1>1. stack \in Seq(CxxFrames) /\ IsActivation(stack[1]) /\ ScopesOK(scopeStack) /\ base = Depth
  BY DEF DebugIInv, StackOK, Kept
<1>2. Top = stack[Len(stack)] /\ Top \in CxxFrames /\ Len(stack) \in Nat \ {0}
  BY <1>1, Popped DEF Top
<1>3. 1 \in ActivationsOf(stack)
  BY <1>1, <1>2 DEF ActivationsOf, IsActivation
<1>4. Depth = Cardinality(ActivationsOf(stack))
  BY DEF Depth, Activations, ActivationsOf
<1>5. /\ IsFiniteSet(ActivationsOf(stack)) /\ Cardinality(ActivationsOf(stack)) \in 0 .. Len(stack)
      /\ Cardinality(ActivationsOf(stack)) # 0
  BY <1>1, <1>3, ActivationsCounted, FS_EmptySet
<1>6. QED
  BY <1>1, <1>2, <1>3, <1>4, <1>5

\* Whose context is installed.
LEMMA Installed ==
    ASSUME DebugIInv, stack # <<>>
    PROVE  \E h \in 1 .. Len(stack) :
               /\ IsHome(stack, h, Len(stack) + 1) /\ base = stack[h].base
               /\ ScopesOK(scopeStack) /\ Len(scopeStack) = OpenAt(stack, h, Len(stack) + 1)
<1>1. Kept(stack, Len(stack) + 1, base, scopeStack)
  BY DEF DebugIInv
<1>2. Len(stack) + 1 - 1 = Len(stack)
  BY StackTop
<1>3. QED
  BY ONLY <1>1, <1>2 DEF Kept

\* The frames of suspended activations are not the one that is installed.
LEMMA InstalledIsAbove ==
    ASSUME DebugIInv, stack # <<>>
    PROVE  /\ \A i \in 1 .. Len(stack) : IsActivation(stack[i]) => stack[i].base <= base
           /\ \A i \in SaversOf(stack) : stack[i].oldBase < base /\ stack[i].oldBase \in Nat
           /\ \A i, j \in SaversOf(stack) : stack[i].oldBase = stack[j].oldBase => i = j
<1>1. /\ stack \in Seq(CxxFrames) /\ Len(stack) \in Nat \ {0}
      /\ \A i \in 1 .. Len(stack) : stack[i] \in CxxFrames
  BY StackTop
<1>2. \A i, j \in 1 .. Len(stack) :
         IsActivation(stack[i]) /\ IsActivation(stack[j]) /\ i < j => stack[i].base < stack[j].base
  BY DEF DebugIInv, StackOK
<1>3. \A i \in 1 .. Len(stack) :
         IsActivation(stack[i]) => stack[i].base \in Nat /\ stack[i].oldBase \in Nat
  BY <1>1, BoundsAssumption DEF CxxFrames, ActivationFrames, Scope, Cpp, IsActivation
<1>4. PICK h \in 1 .. Len(stack) : IsHome(stack, h, Len(stack) + 1) /\ base = stack[h].base
  BY Installed
<1>5. IsActivation(stack[h]) /\ \A i \in 1 .. Len(stack) : IsActivation(stack[i]) => i <= h
  BY <1>1, <1>4 DEF IsHome, IsActivation
<1>6. ASSUME NEW i \in 1 .. Len(stack), IsActivation(stack[i])
      PROVE  stack[i].base <= base
  BY <1>1, <1>2, <1>3, <1>4, <1>5, <1>6
<1>7. ASSUME NEW i \in SaversOf(stack)
      PROVE  stack[i].oldBase < base /\ stack[i].oldBase \in Nat
  <2>1. i \in 2 .. Len(stack) /\ i \in 1 .. Len(stack) /\ IsActivation(stack[i])
    BY <1>1 DEF SaversOf
  <2>2. stack[i].base = stack[i].oldBase + 1
    BY <2>1 DEF DebugIInv, StackOK
  <2>3. QED
    BY <1>3, <1>4, <1>5, <1>6, <2>1, <2>2
<1>8. ASSUME NEW i \in SaversOf(stack), NEW j \in SaversOf(stack), stack[i].oldBase = stack[j].oldBase
      PROVE  i = j
  <2>1. /\ i \in 2 .. Len(stack) /\ i \in 1 .. Len(stack) /\ IsActivation(stack[i])
        /\ j \in 2 .. Len(stack) /\ j \in 1 .. Len(stack) /\ IsActivation(stack[j])
    BY <1>1 DEF SaversOf
  <2>2. stack[i].base = stack[i].oldBase + 1 /\ stack[j].base = stack[j].oldBase + 1
    BY <2>1 DEF DebugIInv, StackOK
  <2>3. ~(stack[i].base < stack[j].base) /\ ~(stack[j].base < stack[i].base)
    BY <1>3, <1>8, <2>1, <2>2
  <2>4. QED
    BY <1>2, <2>1, <2>3
<1>9. QED
  BY <1>6, <1>7, <1>8

\* An empty scope stack of an activation that is on top.
LEMMA ScopesAllLeft ==
    ASSUME DebugIInv, stack # <<>>, IsActivation(Top)
    PROVE  scopeStack = <<>> /\ Registered(base, scopeStack) = {}
<1> DEFINE n == Len(stack)
<1>1. n \in Nat \ {0} /\ Top = stack[n]
  BY StackTop
<1>2. PICK h \in 1 .. n : /\ IsHome(stack, h, n + 1) /\ ScopesOK(scopeStack)
                          /\ Len(scopeStack) = OpenAt(stack, h, n + 1)
  BY Installed
<1>3. h = n
  BY <1>1, <1>2 DEF IsHome, IsActivation
<1>4. Len(scopeStack) = 0
  <2>1. OpenAt(stack, n, n + 1) = n + 1 - 1 - n - (IF stack[n + 1 - 1].k = "cpp" THEN 1 ELSE 0)
    BY DEF OpenAt
  <2>2. n + 1 - 1 = n /\ stack[n].k # "cpp"
    BY <1>1 DEF IsActivation
  <2>3. QED
    BY <1>1, <1>2, <1>3, <2>1, <2>2
<1>5. QED
  BY <1>2, <1>4, NothingRegistered DEF ScopesOK

\* The scopes on the C++ stack are those of the scope stack while code runs.
LEMMA ScopesOpen ==
    ASSUME DebugIInv, stack # <<>>, Top.k = "scope"
    PROVE  base = Current.base /\ Len(scopeStack) = OpenScopes
<1> DEFINE n == Len(stack)
<1>1. stack \in Seq(CxxFrames) /\ n \in Nat \ {0} /\ Top = stack[n]
  BY StackTop
<1>2. PICK h \in 1 .. n : /\ IsHome(stack, h, n + 1) /\ base = stack[h].base
                          /\ Len(scopeStack) = OpenAt(stack, h, n + 1)
  BY Installed
<1>3. Max(Activations) = h
  BY <1>1, <1>2, Innermost
<1>4. OpenAt(stack, h, n + 1) = n + 1 - 1 - h - (IF stack[n + 1 - 1].k = "cpp" THEN 1 ELSE 0)
  BY DEF OpenAt
<1>5. n + 1 - 1 = n /\ stack[n].k # "cpp"
  BY <1>1
<1>6. Len(scopeStack) = n - h
  BY <1>1, <1>2, <1>4, <1>5
<1>7. QED
  BY <1>2, <1>3, <1>6 DEF Current, OpenScopes

LEMMA DebugCallInv ==
    ASSUME DebugIInv, ~unwinding, NEW by \in {"host", "generated", "cpp"}, NEW noexcept \in BOOLEAN,
           Call(by, noexcept), UNCHANGED << unwinding, live, halted >>,
           \/ stack = <<>> /\ by = "host"
           \/ stack # <<>> /\ by # "host" /\ Len(stack) + 2 <= MaxFrames
    PROVE  DebugIInv'
<1> DEFINE n == Len(stack)
           act == [k |-> "activation", base |-> Depth + 1, noexcept |-> noexcept, by |-> by,
                   oldBase |-> base, oldScopes |-> scopeStack]
           s == Append(stack, act)
           t == Append(s, Scope)
<1>1. /\ stack \in Seq(CxxFrames) /\ n \in Nat /\ (stack = <<>> <=> n = 0) /\ StackOK(stack)
      /\ base \in 0 .. MaxFrames /\ scopeStack \in Seq(Seq(Vars))
  <2>1. stack \in Seq(CxxFrames) /\ StackOK(stack)
    BY DEF DebugIInv, StackOK
  <2>2. n \in Nat /\ (stack = <<>> <=> n = 0)
    BY ONLY <2>1
  <2>3. QED
    BY <2>1, <2>2 DEF DebugIInv
<1>2. /\ Depth = Cardinality(ActivationsOf(stack)) /\ Depth \in 0 .. n
      /\ Depth + 1 \in 1 .. MaxFrames /\ (stack # <<>> => base = Depth)
      /\ stack = <<>> => Depth = 0 /\ scopeStack = <<>>
  <2>1. Depth = Cardinality(ActivationsOf(stack))
    BY DEF Depth, Activations, ActivationsOf
  <2>2. Depth \in 0 .. n /\ (stack = <<>> => Depth = 0)
    BY <1>1, <2>1, ActivationsCounted
  <2>3. QED
    <3>1. /\ stack # <<>> => base = Depth
          /\ stack = <<>> => scopeStack = <<>>
      BY DEF DebugIInv
    <3>2. Depth + 1 <= MaxFrames
      BY <1>1, <2>2, BoundsAssumption
    <3>3. QED
      BY <1>1, <2>1, <2>2, <3>1, <3>2, BoundsAssumption
<1>3. act \in CxxFrames /\ Scope \in CxxFrames /\ IsActivation(act) /\ ~IsActivation(Scope)
  BY <1>1, <1>2 DEF CxxFrames, ActivationFrames, IsActivation, Scope
<1>4. stack' = t /\ base' = Depth + 1 /\ scopeStack' = << << >> >>
  BY <1>1, <1>3, PushedTwo DEF Call
<1>5. /\ act.k = "activation" /\ act.by = by /\ act.base = Depth + 1
      /\ act.oldBase = base /\ act.oldScopes = scopeStack
  OBVIOUS
<1> HIDE DEF act
<1>6. StackOK(s)
  <2>1. IsActivation(act) /\ stack = <<>> => act.by = "host" /\ act.base = 1 /\ act.oldScopes = <<>>
    BY <1>2, <1>5
  <2>2. IsActivation(act) /\ stack # <<>> =>
           /\ act.by # "host" /\ act.base = act.oldBase + 1
           /\ Kept(stack, Len(stack) + 1, act.oldBase, act.oldScopes)
           /\ \A i \in 1 .. Len(stack) : IsActivation(stack[i]) => stack[i].base < act.base
    <3> SUFFICES ASSUME stack # <<>>
                 PROVE  /\ act.by # "host" /\ act.base = act.oldBase + 1
                        /\ Kept(stack, Len(stack) + 1, act.oldBase, act.oldScopes)
                        /\ \A i \in 1 .. Len(stack) : IsActivation(stack[i]) => stack[i].base < act.base
      OBVIOUS
    <3>1. act.by # "host" /\ act.base = base + 1 /\ base \in Nat
      BY <1>1, <1>2, <1>5
    <3>2. Kept(stack, Len(stack) + 1, act.oldBase, act.oldScopes)
      BY <1>5 DEF DebugIInv
    <3>3. ASSUME NEW i \in 1 .. Len(stack), IsActivation(stack[i]) PROVE stack[i].base < act.base
      <4>1. stack[i].base <= base
        BY <3>3, InstalledIsAbove
      <4>2. stack[i] \in ActivationFrames
        BY <1>1, <3>3 DEF CxxFrames, Scope, Cpp, IsActivation
      <4>3. stack[i].base \in Nat
        BY <4>2, BoundsAssumption DEF ActivationFrames
      <4>4. QED
        BY <3>1, <4>1, <4>3
    <3>4. QED
      BY <1>5, <3>1, <3>2, <3>3
  <2>3. QED
    BY <1>1, <1>3, <2>1, <2>2, StackPushed
<1>7. /\ s \in Seq(CxxFrames) /\ s # <<>> /\ Len(s) = n + 1 /\ s[n + 1] = act
  BY ONLY <1>1, <1>3, Pushed
<1>8. StackOK(t)
  <2>1. s[Len(s)].k # "cpp"
    BY <1>5, <1>7
  <2>2. QED
    BY <1>3, <1>6, <1>7, <2>1, StackPushed
<1>9. /\ t \in Seq(CxxFrames) /\ t # <<>> /\ Len(t) = n + 2 /\ t[n + 1] = act /\ t[n + 2] = Scope
  <2> HIDE DEF s
  <2>1. /\ t \in Seq(CxxFrames) /\ t # <<>> /\ Len(t) = n + 1 + 1
        /\ t[n + 1 + 1] = Scope /\ \A i \in 1 .. n + 1 : t[i] = s[i]
    BY ONLY <1>3, <1>7, Pushed
  <2>2. QED
    BY <1>1, <1>7, <2>1
<1>10. Kept(t, n + 3, Depth + 1, << << >> >>)
  <2>1. n + 1 \in 1 .. n + 3 - 1 /\ n + 3 - 1 = n + 2
    BY <1>1
  <2>2. IsHome(t, n + 1, n + 3) /\ t[n + 1].base = Depth + 1
    BY <1>1, <1>5, <1>9 DEF IsHome, Scope
  <2>3. OpenAt(t, n + 1, n + 3) = 1
    BY <1>1, <1>9 DEF OpenAt, Scope
  <2>4. QED
    BY <2>1, <2>2, <2>3, NewScopes DEF Kept
<1>11. Cardinality(ActivationsOf(t)) = Depth + 1
  <2> HIDE DEF s
  <2>1. Cardinality(ActivationsOf(t)) = Cardinality(ActivationsOf(s)) + 0
    BY <1>3, <1>7, CountedPush
  <2>2. Cardinality(ActivationsOf(s)) = Depth + 1
    BY <1>1, <1>2, <1>3, CountedPush DEF s
  <2>3. QED
    BY <1>2, <2>1, <2>2
<1>12. Suspended(t) = Suspended(stack) \cup (IF stack # <<>> THEN Registered(base, scopeStack) ELSE {})
  <2> HIDE DEF s
  <2>1. Suspended(t) = Suspended(s) \cup {}
    BY <1>3, <1>7, CountedPush
  <2>2. Suspended(s) = Suspended(stack) \cup (IF stack # <<>> THEN Registered(base, scopeStack) ELSE {})
    BY <1>1, <1>3, <1>5, CountedPush DEF s
  <2>3. QED
    BY <2>1, <2>2
<1>13. stack = <<>> => Suspended(stack) = {}
  BY <1>1 DEF Suspended, SaversOf
<1>14. live = Registered(base', scopeStack') \cup Suspended(t)
  <2>1. Registered(base', scopeStack') = {}
    BY <1>4, NewScopes
  <2>2. stack = <<>> => live = {}
    BY DEF DebugIInv
  <2>3. stack # <<>> => live = Registered(base, scopeStack) \cup Suspended(stack)
    BY DEF DebugIInv
  <2>4. QED
    BY <1>12, <1>13, <2>1, <2>2, <2>3
<1>15. Depth' = Depth + 1
  BY <1>4, <1>11 DEF Depth, Activations, ActivationsOf
<1>16. Len(stack') + 1 = n + 3
  BY <1>1, <1>4, <1>9
<1> HIDE DEF t
<1>17. base' \in 0 .. MaxFrames /\ scopeStack' \in Seq(Seq(Vars))
  BY <1>2, <1>4, NewScopes, BoundsAssumption DEF ScopesOK
<1>18. /\ stack' # <<>> /\ StackOK(stack') /\ Kept(stack', Len(stack') + 1, base', scopeStack')
       /\ base' = Depth' /\ live' = Registered(base', scopeStack') \cup Suspended(stack')
  BY <1>4, <1>8, <1>9, <1>10, <1>14, <1>15, <1>16
<1>19. /\ ~unwinding' /\ unwinding' \in BOOLEAN /\ live' \subseteq [base : 1 .. MaxFrames, v : Vars]
       /\ halted' \in {"no", "terminate", "no such parameter"}
  BY DEF DebugIInv
<1>20. QED
  BY ONLY <1>17, <1>18, <1>19 DEF DebugIInv

\* A scope is opened or a C++ function called.
LEMMA DebugPushInv ==
    ASSUME DebugIInv, stack # <<>>, Top.k = "scope", ~unwinding,
           NEW f \in CxxFrames, ~IsActivation(f), stack' = Append(stack, f),
           ScopesOK(scopeStack'),
           Len(scopeStack') = Len(scopeStack) + (IF f.k = "cpp" THEN 0 ELSE 1),
           Registered(base, scopeStack') = Registered(base, scopeStack),
           UNCHANGED << base, unwinding, live, halted >>
    PROVE  DebugIInv'
<1> DEFINE n == Len(stack)
           t == Append(stack, f)
<1>1. /\ stack \in Seq(CxxFrames) /\ StackOK(stack) /\ n \in Nat
      /\ stack[n].k # "cpp" /\ Kept(stack, n + 1, base, scopeStack)
      /\ base = Cardinality(ActivationsOf(stack)) /\ base \in Nat
      /\ live = Registered(base, scopeStack) \cup Suspended(stack)
  <2>1. /\ stack \in Seq(CxxFrames) /\ n \in Nat /\ Top = stack[n] /\ base = Depth
        /\ Depth = Cardinality(ActivationsOf(stack)) /\ Depth \in 1 .. n
    BY StackTop
  <2>2. /\ StackOK(stack) /\ Kept(stack, n + 1, base, scopeStack)
        /\ live = Registered(base, scopeStack) \cup Suspended(stack)
    BY DEF DebugIInv
  <2>3. base = Cardinality(ActivationsOf(stack)) /\ base \in Nat /\ stack[n].k # "cpp"
    BY <2>1
  <2>4. QED
    BY ONLY <2>1, <2>2, <2>3
<1>2. t \in Seq(CxxFrames) /\ t # <<>> /\ Len(t) + 1 = n + 2
  BY ONLY <1>1, f \in CxxFrames, Pushed
<1>3. StackOK(t)
  BY <1>1, StackPushed
<1>4. Kept(t, n + 2, base, scopeStack')
  BY <1>1, KeptAbove
<1>5. Cardinality(ActivationsOf(t)) = base /\ Suspended(t) = Suspended(stack)
  <2>1. /\ Cardinality(ActivationsOf(t)) = Cardinality(ActivationsOf(stack)) + 0
        /\ Suspended(t) = Suspended(stack) \cup {}
    BY <1>1, CountedPush
  <2>2. QED
    BY <1>1, <2>1
<1>6. stack' = t /\ base' = base
  OBVIOUS
<1> HIDE DEF t
<1>7. Depth' = base'
  BY <1>5, <1>6 DEF Depth, Activations, ActivationsOf
<1>8. /\ stack' # <<>> /\ StackOK(stack') /\ Kept(stack', Len(stack') + 1, base', scopeStack')
      /\ base' = Depth' /\ live' = Registered(base', scopeStack') \cup Suspended(stack')
  BY <1>1, <1>2, <1>3, <1>4, <1>5, <1>6, <1>7
<1>9. /\ ~unwinding' /\ unwinding' \in BOOLEAN /\ live' \subseteq [base : 1 .. MaxFrames, v : Vars]
      /\ halted' \in {"no", "terminate", "no such parameter"}
      /\ base' \in 0 .. MaxFrames /\ scopeStack' \in Seq(Seq(Vars))
  BY DEF DebugIInv, ScopesOK
<1>10. QED
  BY ONLY <1>8, <1>9 DEF DebugIInv

\* A scope or a C++ function is left.
LEMMA DebugPopInv ==
    ASSUME DebugIInv, stack # <<>>, ~IsActivation(Top), stack' = Front(stack),
           ScopesOK(scopeStack'),
           Len(scopeStack') = Len(scopeStack) - (IF Top.k = "cpp" THEN 0 ELSE 1),
           live' = Registered(base, scopeStack') \cup Suspended(stack), live' \subseteq live,
           unwinding' \in BOOLEAN, unwinding' => unwinding, UNCHANGED << base, halted >>
    PROVE  DebugIInv'
<1> DEFINE n == Len(stack)
           t == Front(stack)
<1>1. /\ stack \in Seq(CxxFrames) /\ StackOK(stack) /\ n \in Nat /\ Top = stack[n]
      /\ Kept(stack, n + 1, base, scopeStack)
      /\ base = Cardinality(ActivationsOf(stack)) /\ base \in Nat
  <2>1. /\ stack \in Seq(CxxFrames) /\ n \in Nat /\ Top = stack[n] /\ base = Depth
        /\ Depth = Cardinality(ActivationsOf(stack)) /\ Depth \in 1 .. n
    BY StackTop
  <2>2. StackOK(stack) /\ Kept(stack, n + 1, base, scopeStack)
    BY DEF DebugIInv
  <2>3. base = Cardinality(ActivationsOf(stack)) /\ base \in Nat
    BY <2>1
  <2>4. QED
    BY ONLY <2>1, <2>2, <2>3
<1>2. Len(t) + 1 = n
  BY <1>1, Popped
<1>3. StackOK(t)
  BY <1>1, StackPopped
<1>4. t # <<>> /\ Kept(t, n, base, scopeStack')
  BY <1>1, KeptUnder
<1>5. /\ Cardinality(ActivationsOf(t)) = base /\ Suspended(t) = Suspended(stack)
      /\ SaversOf(t) \subseteq SaversOf(stack)
  <2>1. /\ Cardinality(ActivationsOf(stack)) = Cardinality(ActivationsOf(t)) + 0
        /\ SaversOf(t) \subseteq SaversOf(stack)
        /\ Suspended(stack) = Suspended(t) \cup {}
    BY <1>1, CountedPop
  <2>2. t \in Seq(CxxFrames)
    BY <1>3 DEF StackOK
  <2>3. Cardinality(ActivationsOf(t)) \in Int
    BY <2>2, ActivationsCounted
  <2>4. QED
    BY <1>1, <2>1, <2>3
<1>6. stack' = t /\ base' = base
  OBVIOUS
<1> HIDE DEF t
<1>7. Depth' = base'
  BY <1>5, <1>6 DEF Depth, Activations, ActivationsOf
<1>8. /\ stack' # <<>> /\ StackOK(stack') /\ Kept(stack', Len(stack') + 1, base', scopeStack')
      /\ base' = Depth' /\ live' = Registered(base', scopeStack') \cup Suspended(stack')
  BY <1>1, <1>2, <1>3, <1>4, <1>5, <1>6, <1>7
<1>9. unwinding' => SaversOf(stack') = {}
  BY <1>5, <1>6 DEF DebugIInv
<1>10. /\ live' \subseteq [base : 1 .. MaxFrames, v : Vars]
       /\ halted' \in {"no", "terminate", "no such parameter"}
       /\ base' \in 0 .. MaxFrames /\ scopeStack' \in Seq(Seq(Vars))
  BY DEF DebugIInv, ScopesOK
<1>11. unwinding' \in BOOLEAN
  OBVIOUS
<1>12. QED
  BY ONLY <1>8, <1>9, <1>10, <1>11 DEF DebugIInv

\* A scope that is left finds its variables, and destroys what it declared.
LEMMA ScopeDestroyed ==
    ASSUME DebugIInv, stack # <<>>, Top.k = "scope", DestroyScope
    PROVE  /\ scopeStack # <<>> /\ UNCHANGED halted
           /\ ScopesOK(scopeStack') /\ Len(scopeStack') = Len(scopeStack) - 1
           /\ live' = Registered(base, scopeStack') \cup Suspended(stack) /\ live' \subseteq live
<1>1. /\ StackOK(stack) /\ Kept(stack, Len(stack) + 1, base, scopeStack) /\ ScopesOK(scopeStack)
      /\ live = Registered(base, scopeStack) \cup Suspended(stack) /\ stack[Len(stack)].k = "scope"
  BY StackTop DEF DebugIInv
<1>2. Len(scopeStack) > 0
  BY <1>1, KeptUnder DEF IsActivation
<1>3. scopeStack # <<>>
  BY <1>1, <1>2 DEF ScopesOK
<1> DEFINE gone == {[base |-> base, v |-> v] : v \in ToSet(Last(scopeStack))}
<1>4. scopeStack' = Front(scopeStack) /\ live' = live \ gone /\ UNCHANGED halted
  BY <1>3 DEF DestroyScope
<1>5. /\ ScopesOK(scopeStack') /\ Len(scopeStack') = Len(scopeStack) - 1
      /\ Registered(base, scopeStack') = Registered(base, scopeStack) \ gone
  BY <1>1, <1>2, <1>4, ScopeClosed
<1>6. ASSUME NEW x \in gone, x \in Suspended(stack) PROVE FALSE
  <2>1. x.base = base
    OBVIOUS
  <2>2. PICK i \in SaversOf(stack) : x \in Registered(stack[i].oldBase, stack[i].oldScopes)
    BY <1>6 DEF Suspended
  <2>3. x.base = stack[i].oldBase
    BY <2>2, InRegistered
  <2>4. stack[i].oldBase < base /\ stack[i].oldBase \in Nat
    BY InstalledIsAbove
  <2>5. QED
    BY <2>1, <2>3, <2>4
<1> HIDE DEF gone
<1>7. live' = Registered(base, scopeStack') \cup Suspended(stack) /\ live' \subseteq live
  BY <1>1, <1>4, <1>5, <1>6
<1>8. QED
  BY <1>3, <1>4, <1>5, <1>7

\* What a variable is declared in, and when its function returns.
LEMMA DeclareInv ==
    ASSUME DebugIInv, NEW v \in Vars, Declare(v)
    PROVE  DebugIInv'
<1>1. /\ stack # <<>> /\ Top.k = "scope" /\ ~unwinding /\ [base |-> base, v |-> v] \notin live
      /\ live' = live \cup {[base |-> base, v |-> v]}
      /\ scopeStack' = [scopeStack EXCEPT ![Len(scopeStack)] = Append(@, v)]
      /\ base' = base /\ stack' = stack /\ unwinding' = unwinding /\ halted' = halted
  BY DEF Declare, Executing
<1>2. /\ StackOK(stack) /\ Kept(stack, Len(stack) + 1, base, scopeStack)
      /\ live = Registered(base, scopeStack) \cup Suspended(stack)
  BY <1>1 DEF DebugIInv
<1>3. ScopesOK(scopeStack) /\ Top = stack[Len(stack)]
  BY <1>1, StackTop
<1>4. Len(scopeStack) > 0
  BY <1>1, <1>2, <1>3, KeptUnder DEF IsActivation
<1>5. /\ ScopesOK(scopeStack') /\ Len(scopeStack') = Len(scopeStack)
      /\ Registered(base, scopeStack') = Registered(base, scopeStack) \cup {[base |-> base, v |-> v]}
  BY <1>1, <1>2, <1>3, <1>4, Declared
<1>6. Kept(stack, Len(stack) + 1, base, scopeStack')
  BY <1>2, <1>5 DEF Kept
<1>7. Depth' = Depth
  BY <1>1 DEF Depth, Activations
<1>8. /\ stack' # <<>> /\ StackOK(stack') /\ Kept(stack', Len(stack') + 1, base', scopeStack')
      /\ base' = Depth' /\ live' = Registered(base', scopeStack') \cup Suspended(stack')
  <2>1. base' = Depth'
    BY <1>1, <1>7 DEF DebugIInv
  <2>2. live' = Registered(base, scopeStack') \cup Suspended(stack)
    BY <1>1, <1>2, <1>5
  <2>3. QED
    BY <1>1, <1>2, <1>6, <2>1, <2>2
<1>9. base \in 1 .. MaxFrames
  <2>1. base \in 0 .. MaxFrames
    BY DEF DebugIInv
  <2>2. base = Depth /\ Depth \in 1 .. Len(stack) /\ Len(stack) \in Nat
    BY <1>1, StackTop
  <2>3. QED
    BY <2>1, <2>2, BoundsAssumption
<1>10. live' \subseteq [base : 1 .. MaxFrames, v : Vars]
  <2>1. live \subseteq [base : 1 .. MaxFrames, v : Vars]
    BY DEF DebugIInv
  <2>2. [base |-> base, v |-> v] \in [base : 1 .. MaxFrames, v : Vars]
    BY <1>9
  <2>3. QED
    BY <1>1, <2>1, <2>2
<1>11. /\ ~unwinding' /\ unwinding' \in BOOLEAN
       /\ halted' \in {"no", "terminate", "no such parameter"}
       /\ base' \in 0 .. MaxFrames /\ scopeStack' \in Seq(Seq(Vars))
  BY <1>1, <1>5 DEF DebugIInv, ScopesOK
<1>12. QED
  BY ONLY <1>8, <1>10, <1>11 DEF DebugIInv

LEMMA DebugReturnInv ==
    ASSUME DebugIInv, Return
    PROVE  DebugIInv'
<1> DEFINE n == Len(stack)
           t == Front(stack)
<1>1. /\ stack # <<>> /\ IsActivation(Top) /\ ~unwinding /\ stack' = t
      /\ scopeStack' = Top.oldScopes /\ base' = Top.oldBase
      /\ unwinding' = unwinding /\ live' = live /\ halted' = halted
  BY DEF Return, Restore, IsActivation
<1>2. /\ stack \in Seq(CxxFrames) /\ n \in Nat \ {0} /\ Top = stack[n] /\ base = Depth
      /\ Depth = Cardinality(ActivationsOf(stack)) /\ Depth \in 1 .. n
      /\ Top \in CxxFrames
  BY <1>1, StackTop
<1>3. StackOK(stack) /\ live = Registered(base, scopeStack) \cup Suspended(stack)
  BY <1>1 DEF DebugIInv
<1>4. Registered(base, scopeStack) = {}
  BY <1>1, ScopesAllLeft
<1>5. StackOK(t) /\ Len(t) = n - 1 /\ t \in Seq(CxxFrames)
  BY <1>1, <1>2, <1>3, StackPopped, Popped
<1>6. Cardinality(ActivationsOf(t)) = Depth - 1
  <2>1. Cardinality(ActivationsOf(stack)) = Cardinality(ActivationsOf(t)) + 1
    BY <1>1, <1>2, CountedPop
  <2>2. Cardinality(ActivationsOf(t)) \in 0 .. Len(t)
    BY <1>5, ActivationsCounted
  <2>3. QED
    BY <1>2, <1>5, <2>1, <2>2
<1>7. live = Suspended(t) \cup (IF n > 1 THEN Registered(Top.oldBase, Top.oldScopes) ELSE {})
  <2>1. Suspended(stack) = Suspended(t) \cup
          (IF IsActivation(stack[n]) /\ n > 1
           THEN Registered(stack[n].oldBase, stack[n].oldScopes) ELSE {})
    BY <1>1, <1>2, CountedPop
  <2>2. QED
    BY <1>1, <1>2, <1>3, <1>4, <2>1
<1>8. Top.oldBase \in 0 .. MaxFrames /\ Top.oldScopes \in Seq(Seq(Vars))
  <2>1. Top \in ActivationFrames
    BY <1>1, <1>2 DEF CxxFrames, Scope, Cpp, IsActivation
  <2>2. QED
    BY <2>1 DEF ActivationFrames
<1> HIDE DEF n, t
<1>9. CASE n = 1
  <2>1. t = <<>>
    BY <1>5, <1>9
  <2>2. Suspended(t) = {}
    BY <1>5, <1>9 DEF Suspended, SaversOf
  <2>3. live = {}
    BY <1>7, <1>9, <2>2
  <2>4. Top.oldScopes = <<>>
    BY <1>1, <1>2, <1>9 DEF DebugIInv, StackOK
  <2>5. /\ stack' = <<>> /\ StackOK(stack') /\ live' = {} /\ scopeStack' = <<>>
    BY <1>1, <1>5, <2>1, <2>3, <2>4
  <2>6. /\ ~unwinding' /\ unwinding' \in BOOLEAN /\ live' \subseteq [base : 1 .. MaxFrames, v : Vars]
        /\ halted' \in {"no", "terminate", "no such parameter"}
        /\ base' \in 0 .. MaxFrames /\ scopeStack' \in Seq(Seq(Vars))
    BY <1>1, <1>8 DEF DebugIInv
  <2>7. QED
    BY ONLY <2>5, <2>6 DEF DebugIInv
<1>10. CASE n # 1
  <2>1. n \in 2 .. n /\ n > 1 /\ t # <<>> /\ Len(t) + 1 = n
    BY <1>2, <1>5, <1>10
  <2>2. /\ stack[n].base = stack[n].oldBase + 1
        /\ Kept(stack, n, stack[n].oldBase, stack[n].oldScopes)
    BY <1>1, <1>2, <1>3, <2>1 DEF StackOK, n
  <2>3. \A i \in 1 .. n - 1 : stack[i] = t[i]
    BY <1>1, <1>2, Popped DEF n, t
  <2>4. Kept(t, n, Top.oldBase, Top.oldScopes)
    BY <1>2, <2>2, <2>3, KeptBelow
  <2>5. Top.base = base
    <3>1. PICK h \in 1 .. n : IsHome(stack, h, n + 1) /\ base = stack[h].base
      BY <1>1, Installed DEF n
    <3>2. h = n
      BY <1>1, <1>2, <3>1 DEF IsHome, IsActivation
    <3>3. QED
      BY <1>2, <3>1, <3>2
  <2>6. Top.oldBase = Depth - 1
    BY <1>2, <1>8, <2>2, <2>5
  <2>7. Depth' = Top.oldBase
    BY <1>1, <1>6, <2>6 DEF Depth, Activations, ActivationsOf
  <2>8. /\ stack' # <<>> /\ StackOK(stack') /\ Kept(stack', Len(stack') + 1, base', scopeStack')
        /\ base' = Depth' /\ live' = Registered(base', scopeStack') \cup Suspended(stack')
    BY <1>1, <1>5, <1>7, <2>1, <2>4, <2>7
  <2>9. /\ ~unwinding' /\ unwinding' \in BOOLEAN /\ live' \subseteq [base : 1 .. MaxFrames, v : Vars]
        /\ halted' \in {"no", "terminate", "no such parameter"}
        /\ base' \in 0 .. MaxFrames /\ scopeStack' \in Seq(Seq(Vars))
    BY <1>1, <1>8 DEF DebugIInv
  <2>10. QED
    BY ONLY <2>8, <2>9 DEF DebugIInv
<1>11. QED
  BY <1>9, <1>10

\* Nothing of the context changes; or the host gets the exception.
LEMMA SameContextInv ==
    ASSUME DebugIInv, UNCHANGED << base, scopeStack, stack, live >>,
           unwinding' \in BOOLEAN, unwinding' => stack # <<>> /\ SaversOf(stack) = {},
           halted' \in {"no", "terminate", "no such parameter"}
    PROVE  DebugIInv'
<1>1. Depth' = Depth
  BY DEF Depth, Activations
<1>2. QED
  BY <1>1 DEF DebugIInv

\* With one activation nothing is suspended.
LEMMA OneActivation ==
    ASSUME DebugIInv, stack # <<>>, Depth <= 1
    PROVE  SaversOf(stack) = {}
<1>1. SUFFICES ASSUME NEW i \in SaversOf(stack) PROVE FALSE
  OBVIOUS
<1>2. /\ stack \in Seq(CxxFrames) /\ Len(stack) \in Nat \ {0} /\ base = Depth
      /\ IsActivation(stack[1]) /\ Depth \in Nat
  BY StackTop
<1>3. i \in 2 .. Len(stack) /\ i \in 1 .. Len(stack) /\ 1 \in 1 .. Len(stack) /\ IsActivation(stack[i])
  BY <1>2 DEF SaversOf
<1>4. stack[1].base = 1 /\ stack[i].base = stack[i].oldBase + 1
  BY <1>3 DEF DebugIInv, StackOK
<1>5. stack[1].base < stack[i].base
  <2>1. \A k, j \in 1 .. Len(stack) :
           IsActivation(stack[k]) /\ IsActivation(stack[j]) /\ k < j => stack[k].base < stack[j].base
    BY DEF DebugIInv, StackOK
  <2>2. 1 < i
    BY <1>2, <1>3
  <2>3. QED
    BY <1>2, <1>3, <2>1, <2>2
<1>6. stack[i].base <= base /\ stack[i].oldBase \in Nat
  BY <1>3, InstalledIsAbove
<1>7. QED
  BY <1>2, <1>4, <1>5, <1>6

\* An exception that leaves the only activation leaves nothing behind.
LEMMA UnwindActivationInv ==
    ASSUME DebugIInv, UnwindActivation
    PROVE  DebugIInv'
<1> DEFINE n == Len(stack)
           t == Front(stack)
<1>1. unwinding /\ stack # <<>> /\ IsActivation(Top) /\ SaversOf(stack) = {}
  BY DEF UnwindActivation, DebugIInv, IsActivation
<1>2. /\ stack \in Seq(CxxFrames) /\ n \in Nat \ {0} /\ Top = stack[n]
  BY <1>1, StackTop
<1>3. n = 1
  <2>1. n # 1 => n \in 2 .. n
    <3> HIDE DEF n
    <3>1. QED
      BY <1>2
  <2>2. n # 1 => n \in SaversOf(stack)
    BY <1>1, <1>2, <2>1 DEF SaversOf
  <2>3. QED
    BY <1>1, <2>2
<1>4. Top.by = "host"
  BY <1>1, <1>2, <1>3 DEF DebugIInv, StackOK
<1>5. CASE Top.noexcept
  <2>1. halted' = "terminate" /\ UNCHANGED << base, scopeStack, stack, unwinding, live >>
    BY <1>4, <1>5 DEF UnwindActivation, ctx
  <2>2. unwinding' \in BOOLEAN
    BY <2>1 DEF DebugIInv
  <2>3. QED
    BY <1>1, <2>1, <2>2, SameContextInv
<1>6. CASE ~Top.noexcept
  <2>1. /\ stack' = t /\ ~unwinding' /\ unwinding' \in BOOLEAN
        /\ UNCHANGED << base, scopeStack, live, halted >>
    BY <1>4, <1>6 DEF UnwindActivation, ctx
  <2>2. t = <<>>
    BY <1>1, <1>2, <1>3, Popped
  <2>3. scopeStack = <<>> /\ Registered(base, scopeStack) = {}
    BY <1>1, ScopesAllLeft
  <2>4. Suspended(stack) = {}
    BY <1>1 DEF Suspended
  <2>5. live = {}
    BY <1>1, <2>3, <2>4 DEF DebugIInv
  <2>6. StackOK(t)
    BY <1>1, StackPopped DEF DebugIInv
  <2> HIDE DEF t
  <2>7. stack' = <<>> /\ StackOK(stack') /\ live' = {} /\ scopeStack' = <<>>
    BY <2>1, <2>2, <2>3, <2>5, <2>6
  <2>8. /\ live' \subseteq [base : 1 .. MaxFrames, v : Vars]
        /\ halted' \in {"no", "terminate", "no such parameter"}
        /\ base' \in 0 .. MaxFrames /\ scopeStack' \in Seq(Seq(Vars))
    BY <2>1 DEF DebugIInv
  <2>9. QED
    BY ONLY <2>1, <2>7, <2>8 DEF DebugIInv
<1>7. QED
  BY <1>5, <1>6

LEMMA DebugInitInv == Init => DebugIInv
<1> SUFFICES ASSUME Init PROVE DebugIInv
  OBVIOUS
<1>1. /\ base = 0 /\ scopeStack = <<>> /\ stack = <<>> /\ unwinding = FALSE
      /\ live = {} /\ halted = "no"
  BY DEF Init
<1>2. StackOK(<<>>)
  BY DEF StackOK
<1>3. StackOK(stack) /\ scopeStack \in Seq(Seq(Vars)) /\ base \in 0 .. MaxFrames
  BY <1>1, <1>2, BoundsAssumption
<1>4. live = {} /\ unwinding = FALSE
  BY <1>1
<1>5. QED
  BY ONLY <1>1, <1>3, <1>4 DEF DebugIInv

LEMMA DebugNextInv ==
    ASSUME MaxThrowDepth <= 1, DebugIInv, [Next]_vars
    PROVE  DebugIInv'
<1>1. CASE UNCHANGED vars
  BY <1>1, SameContextInv DEF vars, DebugIInv
<1>2. ASSUME NEW noexcept \in BOOLEAN, HostCalls(noexcept)
      PROVE  DebugIInv'
  <2>1. /\ stack = <<>> /\ Call("host", noexcept) /\ UNCHANGED << unwinding, live, halted >>
    BY <1>2 DEF HostCalls
  <2>2. ~unwinding
    BY <2>1 DEF DebugIInv
  <2>3. QED
    BY <2>1, <2>2, DebugCallInv
<1>3. ASSUME NEW noexcept \in BOOLEAN, CallGenerated(noexcept)
      PROVE  DebugIInv'
  <2>1. /\ stack # <<>> /\ ~unwinding /\ Len(stack) + 2 <= MaxFrames
        /\ Call("generated", noexcept) /\ UNCHANGED << unwinding, live, halted >>
    BY <1>3 DEF CallGenerated, Executing
  <2>2. QED
    BY <2>1, DebugCallInv
<1>4. ASSUME NEW noexcept \in BOOLEAN, NEW arity \in Arities, CallBack(noexcept, arity)
      PROVE  DebugIInv'
  <2>1. stack # <<>> /\ ~unwinding /\ Len(stack) + 2 <= MaxFrames
    BY <1>4 DEF CallBack
  <2>2. CASE Call("cpp", noexcept) /\ UNCHANGED << unwinding, live, halted >>
    BY <2>1, <2>2, DebugCallInv
  <2>3. CASE halted' = "no such parameter" /\ UNCHANGED << ctx, stack, unwinding, live >>
    <3>1. unwinding' = unwinding /\ UNCHANGED << base, scopeStack, stack, live >>
      BY <2>3 DEF ctx
    <3>2. unwinding' \in BOOLEAN /\ ~unwinding' /\ halted' \in {"no", "terminate", "no such parameter"}
      <4>1. unwinding \in BOOLEAN
        BY DEF DebugIInv
      <4>2. unwinding' \in BOOLEAN /\ ~unwinding'
        BY ONLY <2>1, <3>1, <4>1, Zenon
      <4>3. halted' \in {"no", "terminate", "no such parameter"}
        BY ONLY <2>3
      <4>4. QED
        BY ONLY <4>2, <4>3
    <3>3. QED
      BY <3>1, <3>2, SameContextInv
  <2>4. QED
    BY <1>4, <2>2, <2>3 DEF CallBack
<1>5. ASSUME NEW catches \in BOOLEAN, CallCpp(catches)
      PROVE  DebugIInv'
  <2>1. /\ stack # <<>> /\ Top.k = "scope" /\ ~unwinding /\ stack' = Append(stack, Cpp(catches))
        /\ UNCHANGED << base, unwinding, live, halted >> /\ scopeStack' = scopeStack
    BY <1>5 DEF CallCpp, Executing, ctx
  <2>2. Cpp(catches) \in CxxFrames /\ ~IsActivation(Cpp(catches)) /\ Cpp(catches).k = "cpp"
    BY DEF CxxFrames, Cpp, IsActivation
  <2>3. ScopesOK(scopeStack) /\ Len(scopeStack) \in Nat
    BY <2>1, StackTop DEF ScopesOK
  <2>4. Len(scopeStack') = Len(scopeStack) + 0
    BY <2>1, <2>3
  <2>5. QED
    BY <2>1, <2>2, <2>3, <2>4, DebugPushInv
<1>6. ASSUME EnterScope
      PROVE  DebugIInv'
  <2>1. /\ stack # <<>> /\ Top.k = "scope" /\ ~unwinding /\ stack' = Append(stack, Scope)
        /\ OpenScopes < MaxScopes /\ scopeStack' = Append(scopeStack, <<>>)
        /\ UNCHANGED << base, unwinding, live, halted >>
    BY <1>6 DEF EnterScope, Executing
  <2>2. Scope \in CxxFrames /\ ~IsActivation(Scope) /\ Scope.k = "scope"
    BY DEF CxxFrames, Scope, IsActivation
  <2>3. Len(scopeStack) = OpenScopes
    BY <2>1, ScopesOpen
  <2>4. ScopesOK(scopeStack)
    BY <2>1, StackTop
  <2>5. /\ ScopesOK(scopeStack') /\ Len(scopeStack') = Len(scopeStack) + 1
        /\ Registered(base, scopeStack') = Registered(base, scopeStack)
    BY <2>1, <2>3, <2>4, ScopeOpened
  <2>6. QED
    BY <2>1, <2>2, <2>5, DebugPushInv
<1>7. ASSUME CppReturns \/ UnwindCpp
      PROVE  DebugIInv'
  <2>1. /\ stack # <<>> /\ Top.k = "cpp" /\ base' = base /\ scopeStack' = scopeStack
        /\ live' = live /\ halted' = halted /\ unwinding' \in BOOLEAN /\ (unwinding' => unwinding)
        /\ (stack' = stack \/ stack' = Front(stack))
    <3>1. CASE CppReturns
      BY <3>1 DEF CppReturns, DebugIInv, ctx
    <3>2. CASE UnwindCpp
      <4>1. /\ unwinding /\ stack # <<>> /\ Top.k = "cpp" /\ unwinding' = ~Top.catches
            /\ (stack' = stack \/ stack' = Front(stack))
            /\ base' = base /\ scopeStack' = scopeStack /\ live' = live /\ halted' = halted
        BY <3>2 DEF UnwindCpp, ctx
      <4>2. QED
        BY <4>1
    <3>3. QED
      BY <1>7, <3>1, <3>2
  <2>2. CASE stack' = stack
    BY <2>1, <2>2, SameContextInv DEF DebugIInv
  <2>3. CASE stack' = Front(stack)
    <3>1. ScopesOK(scopeStack) /\ Len(scopeStack) \in Nat
      BY <2>1, StackTop DEF ScopesOK
    <3>2. Len(scopeStack') = Len(scopeStack) - 0
      BY <2>1, <3>1
    <3>3. live' = Registered(base, scopeStack') \cup Suspended(stack)
      BY <2>1 DEF DebugIInv
    <3>4. ~IsActivation(Top)
      BY <2>1 DEF IsActivation
    <3>5. QED
      BY <2>1, <2>3, <3>1, <3>2, <3>3, <3>4, DebugPopInv
  <2>4. QED
    BY <2>1, <2>2, <2>3
<1>8. ASSUME LeaveScope \/ UnwindScope
      PROVE  DebugIInv'
  <2>1. /\ stack # <<>> /\ Top.k = "scope" /\ base' = base /\ unwinding' = unwinding
        /\ stack' = Front(stack) /\ DestroyScope
    BY <1>8 DEF LeaveScope, UnwindScope, Executing
  <2>2. /\ UNCHANGED halted
        /\ ScopesOK(scopeStack') /\ Len(scopeStack') = Len(scopeStack) - 1
        /\ live' = Registered(base, scopeStack') \cup Suspended(stack) /\ live' \subseteq live
    BY <2>1, ScopeDestroyed
  <2>3. ~IsActivation(Top) /\ Top.k # "cpp"
    BY <2>1 DEF IsActivation
  <2>4. unwinding' \in BOOLEAN
    BY <2>1 DEF DebugIInv
  <2>5. QED
    BY <2>1, <2>2, <2>3, <2>4, DebugPopInv
<1>9. ASSUME Throw
      PROVE  DebugIInv'
  <2>1. /\ stack # <<>> /\ Depth <= MaxThrowDepth /\ unwinding' = TRUE
        /\ UNCHANGED << base, scopeStack, stack, live >> /\ halted' = halted
    BY <1>9 DEF Throw, ctx
  <2>2. Depth <= 1
    <3>1. Depth \in 1 .. Len(stack) /\ Len(stack) \in Nat
      BY <2>1, StackTop
    <3>2. QED
      BY <2>1, <3>1, BoundsAssumption
  <2>3. SaversOf(stack) = {}
    BY <2>1, <2>2, OneActivation
  <2>4. QED
    BY <2>1, <2>3, SameContextInv DEF DebugIInv
<1>10. ASSUME Halted
       PROVE  DebugIInv'
  BY <1>1, <1>10 DEF Halted
<1>11. QED
  BY <1>1, <1>2, <1>3, <1>4, <1>5, <1>6, <1>7, <1>8, <1>9, <1>10,
     DebugReturnInv, DeclareInv, UnwindActivationInv DEF Next

\* The scope stack and the activations of the debug interpreter agree at every
\* step: each activation has saved the context of the one below
\* (AstFunction::DebugInterp, function_proto.h:224), exceptions being thrown no
\* deeper than by the outermost one.
THEOREM DebugInvariance ==
    ASSUME MaxThrowDepth <= 1
    PROVE  SuiteSpec => []DebugIInv
<1>1. SuiteInit => DebugIInv
  BY DebugInitInv DEF SuiteInit
<1>2. DebugIInv /\ [SuiteNext]_<< part, vars, fastVars >> => DebugIInv'
  <2> SUFFICES ASSUME DebugIInv, [SuiteNext]_<< part, vars, fastVars >> PROVE DebugIInv'
    OBVIOUS
  <2>1. [Next]_vars
    BY DEF SuiteNext, DebugStep, FastStep
  <2>2. QED
    BY <2>1, DebugNextInv
<1>3. QED
  BY <1>1, <1>2, PTL DEF SuiteSpec

LEMMA ContextFollows ==
    ASSUME DebugIInv PROVE ContextIsKept
<1>1. Activations = ActivationsOf(stack) /\ StackOK(stack) /\ stack \in Seq(CxxFrames)
  BY DEF Activations, ActivationsOf, DebugIInv, StackOK
<1>2. Len(stack) \in Nat /\ DOMAIN stack = 1 .. Len(stack)
  BY <1>1
<1>3. Savers = SaversOf(stack)
  BY <1>1, <1>2 DEF Savers, SaversOf, ActivationsOf, IsActivation
<1>4. Suspended(stack) = UNION {Registered(stack[i].oldBase, stack[i].oldScopes) : i \in Savers}
  BY <1>3 DEF Suspended
<1>5. TypeOK
  <2>1. \A i \in DOMAIN stack : stack[i].k \in {"activation", "scope", "cpp"}
    BY <1>1 DEF CxxFrames, ActivationFrames, Scope, Cpp
  <2>2. Len(scopeStack) <= MaxScopes
    <3>1. CASE stack = <<>>
      <4>1. scopeStack = <<>> /\ Len(<<>>) = 0
        BY <3>1 DEF DebugIInv
      <4>2. QED
        BY <4>1, BoundsAssumption
    <3>2. CASE stack # <<>>
      BY <3>2, StackTop DEF ScopesOK
    <3>3. QED
      BY <3>1, <3>2
  <2>3. QED
    BY <2>1, <2>2 DEF TypeOK, DebugIInv
<1>6. ContextIsOfRunningFunction
  <2>1. SUFFICES ASSUME Executing PROVE base = Current.base /\ Len(scopeStack) = OpenScopes
    BY DEF ContextIsOfRunningFunction
  <2>2. stack # <<>> /\ Top.k = "scope"
    BY <2>1 DEF Executing
  <2>3. QED
    BY <2>2, ScopesOpen
<1>7. LiveObjectsAreRegistered
  <2>1. SUFFICES ASSUME stack # <<>>
                 PROVE  /\ live = Registered(base, scopeStack)
                                    \cup UNION {Registered(stack[i].oldBase, stack[i].oldScopes) : i \in Savers}
                        /\ EachOnce(scopeStack) /\ \A i \in Savers : EachOnce(stack[i].oldScopes)
                        /\ \A i \in Savers : stack[i].oldBase # base
                        /\ \A i, j \in Savers : stack[i].oldBase = stack[j].oldBase => i = j
    BY DEF LiveObjectsAreRegistered
  <2>2. live = Registered(base, scopeStack) \cup Suspended(stack)
    BY <2>1 DEF DebugIInv
  <2>3. EachOnce(scopeStack)
    BY <2>1, StackTop DEF ScopesOK
  <2>4. ASSUME NEW i \in Savers PROVE EachOnce(stack[i].oldScopes)
    <3>1. i \in 2 .. Len(stack) /\ IsActivation(stack[i])
      BY <1>3 DEF SaversOf
    <3>2. Kept(stack, i, stack[i].oldBase, stack[i].oldScopes)
      BY <1>1, <3>1 DEF StackOK
    <3>3. QED
      BY <3>2 DEF Kept, ScopesOK
  <2>5. ASSUME NEW i \in Savers PROVE stack[i].oldBase # base
    <3>1. stack[i].oldBase < base /\ stack[i].oldBase \in Nat /\ base = Depth /\ Depth \in 1 .. Len(stack)
      BY <1>3, <2>1, InstalledIsAbove, StackTop
    <3>2. QED
      BY <1>2, <3>1
  <2>6. \A i, j \in Savers : stack[i].oldBase = stack[j].oldBase => i = j
    BY <1>3, <2>1, InstalledIsAbove
  <2>7. QED
    BY <1>4, <2>2, <2>3, <2>4, <2>5, <2>6
<1>8. NothingIsLeft
  BY DEF NothingIsLeft, DebugIInv
<1>9. ScopeFindsItsVariables
  <2>1. SUFFICES ASSUME stack # <<>>, Top.k = "scope" PROVE scopeStack # <<>>
    BY DEF ScopeFindsItsVariables
  <2>2. /\ Kept(stack, Len(stack) + 1, base, scopeStack) /\ ScopesOK(scopeStack)
        /\ ~IsActivation(stack[Len(stack)]) /\ stack[Len(stack)].k # "cpp"
    BY <2>1, StackTop DEF DebugIInv, IsActivation
  <2>3. Len(scopeStack) > 0
    BY <1>1, <2>1, <2>2, KeptUnder
  <2>4. QED
    BY <2>2, <2>3 DEF ScopesOK
<1>10. QED
  BY <1>5, <1>6, <1>7, <1>8, <1>9 DEF ContextIsKept

\* The running function of the debug interpreter has its own frame base and
\* scope stack, also after a call has returned; every scope that is left finds
\* its variables (destructor_helper.h:69); every object is registered where it
\* will be destroyed, once; and nothing is left when the host gets control
\* back: for any functions, variables and depth of the C++ stack, exceptions
\* being thrown no deeper than by the outermost activation.
THEOREM DebugContextIsKept ==
    ASSUME MaxThrowDepth <= 1
    PROVE  SuiteSpec => []ContextIsKept
BY DebugInvariance, ContextFollows, PTL
=============================================================================
