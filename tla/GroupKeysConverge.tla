-------------------------- MODULE GroupKeysConverge --------------------------
(***************************************************************************)
(* Whoever stays converges on the host's key, and can open what it reads.  *)
(*                                                                         *)
(* The inductive invariant follows what a member will make of the frames   *)
(* on their way to it, in its queue and behind that on the host's link     *)
(* (Converges).  That each key comes in its turn makes the ring of         *)
(* superseded keys a window of consecutive keys (Rings), so that what is   *)
(* read can be opened.                                                     *)
(***************************************************************************)
EXTENDS GroupKeysProofs

-----------------------------------------------------------------------------
(* What a client makes of the frames on their way to it.                   *)

\* Every non-empty set of naturals has a least element.
LEMMA LeastNumber ==
  ASSUME NEW T \in SUBSET Nat, T # {}
  PROVE  \E x \in T : \A y \in T : x <= y
<1> DEFINE R == OpToRel(<, Nat)
<1>1. IsWellFoundedOn(R, Nat)
  BY NatLessThanWellFounded, Zenon
<1>2. R = {ss \in Nat \X Nat : ss[1] < ss[2]}
  BY Zenon DEF OpToRel
<1> HIDE DEF R
<1>3. PICK x \in T : \A y \in T : ~ (<<y, x>> \in R)
  BY <1>1, WFMin, Zenon
<1>4. ASSUME NEW y \in T PROVE x <= y
  <2>1. <<y, x>> \in Nat \X Nat /\ <<y, x>>[1] = y /\ <<y, x>>[2] = x
    BY Zenon
  <2>2. ~(y < x)
    BY <1>2, <1>3, <2>1, Zenon
  <2> QED
    BY <2>2
<1> QED
  BY <1>4, Zenon

\* A set that holds 0 and with every number below n the next one holds all
\* numbers up to n.
LEMMA UpTo ==
  ASSUME NEW n \in Nat, NEW T, 0 \in T,
         \A k \in 0..(n - 1) : k \in T => k + 1 \in T
  PROVE  \A k \in 0..n : k \in T
<1> SUFFICES ASSUME NEW j \in 0..n, j \notin T PROVE FALSE
  BY Zenon
<1> DEFINE B == {k \in 0..n : k \notin T}
<1>1. PICK x \in B : \A y \in B : x <= y
  <2>1. B \in SUBSET Nat /\ B # {}
    OBVIOUS
  <2> HIDE DEF B
  <2> QED
    BY <2>1, LeastNumber, Zenon
<1>2. x # 0 /\ x - 1 \in 0..(n - 1) /\ x - 1 \notin B
  BY <1>1
<1> QED
  BY <1>1, <1>2

\* The frames of a queue.
LEMMA SeqElements ==
  ASSUME NEW S, NEW s \in Seq(S)
  PROVE  Len(s) \in Nat /\ \A k \in 1..Len(s) : s[k] \in S
OBVIOUS

\* A queue of one frame.
LEMMA OneFrame ==
  ASSUME NEW S, NEW f \in S
  PROVE  <<f>> \in Seq(S) /\ Len(<<f>>) = 1 /\ <<f>>[1] = f
OBVIOUS

\* A frame behind a queue.
LEMMA LastFrame ==
  ASSUME NEW S, NEW s \in Seq(S), NEW f \in S
  PROVE  Append(s, f) = s \o <<f>>
OBVIOUS

\* Two queues, one behind the other.
LEMMA TwoQueues ==
  ASSUME NEW S, NEW s \in Seq(S), NEW t \in Seq(S)
  PROVE  /\ s \o t \in Seq(S) /\ Len(s) \in Nat /\ Len(t) \in Nat /\ Len(s \o t) = Len(s) + Len(t)
         /\ \A k \in 1..Len(s) : (s \o t)[k] = s[k]
         /\ \A k \in 1..Len(t) : (s \o t)[Len(s) + k] = t[k]
OBVIOUS

\* How far a client can be, with its key.
Clients == [phase : Phases \cup {"missed"}, key : Nat]

\* The successive states of client p, from c, as it reads s.
Reading(g, c, p, s) ==
  /\ g \in [0..Len(s) -> Clients]
  /\ g[0] = c
  /\ \A k \in 1..Len(s) : g[k] = After(g[k - 1], p, s[k])

\* Reading a frame keeps the types.
LEMMA AfterType ==
  ASSUME NEW c \in Clients, NEW p, NEW f \in AnyFrame
  PROVE  After(c, p, f) \in Clients
<1>1. c.phase \in Phases \cup {"missed"} /\ c.key \in Nat /\ f.key \in Nat
  BY Zenon DEF Clients, AnyFrame
<1>2. \A ph \in Phases \cup {"missed"}, n \in Nat : [phase |-> ph, key |-> n] \in Clients
  BY Zenon DEF Clients
<1>3. \A ph \in Phases \cup {"missed"} : [c EXCEPT !.phase = ph] \in Clients
  BY Zenon DEF Clients
<1>4. \A n \in Nat : [c EXCEPT !.key = n] \in Clients
  BY Zenon DEF Clients
<1>5. {"paired", "over", "keyed", "missed"} \subseteq Phases \cup {"missed"}
  BY Zenon DEF Phases
<1> HIDE DEF Clients, Phases
<1> QED
  BY <1>1, <1>2, <1>3, <1>4, <1>5, Zenon DEF After

\* There are such states for any frames.
LEMMA ReadingExists ==
  ASSUME NEW c \in Clients, NEW p, NEW s \in Seq(AnyFrame)
  PROVE  \E g : Reading(g, c, p, s)
<1> DEFINE Some(n) == \E g \in [0..n -> Clients] :
                        g[0] = c /\ \A k \in 1..n : g[k] = After(g[k - 1], p, s[k])
           T == {n \in Nat : Some(n)}
<1>1. Len(s) \in Nat /\ \A k \in 1..Len(s) : s[k] \in AnyFrame
  BY Zenon, SeqElements
<1>2. 0 \in T
  <2>1. [k \in 0..0 |-> c] \in [0..0 -> Clients] /\ [k \in 0..0 |-> c][0] = c /\ 1..0 = {}
    OBVIOUS
  <2> QED
    BY <2>1, Zenon
<1>3. ASSUME NEW n \in 0..(Len(s) - 1), n \in T PROVE n + 1 \in T
  <2>1. PICK g \in [0..n -> Clients] : g[0] = c /\ \A k \in 1..n : g[k] = After(g[k - 1], p, s[k])
    BY <1>3, Zenon
  <2> DEFINE h == [k \in 0..(n + 1) |-> IF k = n + 1 THEN After(g[n], p, s[n + 1]) ELSE g[k]]
  <2>2. s[n + 1] \in AnyFrame /\ g[n] \in Clients /\ n \in Nat
    BY <1>1, <2>1
  <2>3. After(g[n], p, s[n + 1]) \in Clients
    BY <2>2, AfterType, Zenon
  <2>4. h \in [0..(n + 1) -> Clients] /\ h[0] = c
    BY <2>1, <2>2, <2>3
  <2>5. ASSUME NEW k \in 1..(n + 1) PROVE h[k] = After(h[k - 1], p, s[k])
    <3>1. CASE k = n + 1
      BY <2>2, <3>1
    <3>2. CASE k # n + 1
      <4>1. k \in 1..n /\ k - 1 \in 0..n /\ k # n + 1 /\ k - 1 # n + 1 /\ k \in 0..(n+1) /\ k - 1 \in 0..(n + 1)
        BY <2>2, <3>2
      <4>2. h[k] = g[k] /\ h[k - 1] = g[k - 1]
        BY <4>1, Zenon
      <4> QED
        BY <2>1, <4>1, <4>2, Zenon
    <3> QED
      BY <3>1, <3>2, Zenon
  <2> HIDE DEF h
  <2> QED
    BY <2>2, <2>4, <2>5
<1> HIDE DEF T
<1>4. \A k \in 0..Len(s) : k \in T
  BY <1>1, <1>2, <1>3, UpTo, Zenon
<1>5. Len(s) \in T
  BY <1>1, <1>4
<1> QED
  BY <1>5, Zenon DEF T, Reading

\* ... and they are determined.
LEMMA ReadingUnique ==
  ASSUME NEW c, NEW p, NEW s \in Seq(AnyFrame), NEW g, NEW h, Reading(g, c, p, s), Reading(h, c, p, s)
  PROVE  g = h
<1> DEFINE T == {k \in 0..Len(s) : g[k] = h[k]}
<1>1. Len(s) \in Nat
  OBVIOUS
<1>2. 0 \in T
  BY <1>1 DEF Reading
<1>3. \A k \in 0..(Len(s) - 1) : k \in T => k + 1 \in T
  <2> TAKE k \in 0..(Len(s) - 1)
  <2> HAVE k \in T
  <2>1. k + 1 \in 1..Len(s) /\ k + 1 \in 0..Len(s) /\ (k + 1) - 1 = k
    BY <1>1
  <2>2. g[k + 1] = After(g[k], p, s[k + 1]) /\ h[k + 1] = After(h[k], p, s[k + 1])
    BY <2>1, Zenon DEF Reading
  <2> QED
    BY <2>1, <2>2, Zenon
<1> HIDE DEF T
<1>4. \A k \in 0..Len(s) : k \in T
  BY <1>1, <1>2, <1>3, UpTo, Zenon
<1> QED
  BY <1>4 DEF T, Reading

\* AfterAll is the last of them.
LEMMA AfterAllIs ==
  ASSUME NEW c \in Clients, NEW p, NEW s \in Seq(AnyFrame), NEW g, Reading(g, c, p, s)
  PROVE  AfterAll(c, p, s) = g[Len(s)]
<1> DEFINE E(h) == [k \in 0..Len(s) |-> IF k = 0 THEN c ELSE After(h[k - 1], p, s[k])]
           x == CHOOSE h : h = E(h)
<1>1. Len(s) \in Nat /\ \A k \in 1..Len(s) : s[k] \in AnyFrame
  BY Zenon, SeqElements
<1>2. g = E(g)
  BY <1>1 DEF Reading
<1>3. x = E(x)
  BY <1>2, Zenon
<1>4. Reading(x, c, p, s)
  <2> DEFINE T == {k \in 0..Len(s) : x[k] \in Clients}
  <2> HIDE DEF x
  <2>1. /\ DOMAIN x = 0..Len(s) /\ x[0] = c /\ \A k \in 1..Len(s) : x[k] = After(x[k - 1], p, s[k])
        /\ x = [k \in 0..Len(s) |-> x[k]]
    BY <1>1, <1>3
  <2>2. 0 \in T
    BY <1>1, <2>1
  <2>3. \A k \in 0..(Len(s) - 1) : k \in T => k + 1 \in T
    <3> TAKE k \in 0..(Len(s) - 1)
    <3> HAVE k \in T
    <3>1. k + 1 \in 1..Len(s) /\ k + 1 \in 0..Len(s) /\ (k + 1) - 1 = k /\ s[k + 1] \in AnyFrame
      BY <1>1
    <3>2. x[k + 1] = After(x[k], p, s[k + 1])
      BY <2>1, <3>1, Zenon
    <3> QED
      BY <3>1, <3>2, AfterType, Zenon
  <2> HIDE DEF T
  <2>4. \A k \in 0..Len(s) : k \in T
    BY <1>1, <2>2, <2>3, UpTo, Zenon
  <2>5. \A k \in 0..Len(s) : x[k] \in Clients
    BY <2>4, Zenon DEF T
  <2> QED
    BY <2>1, <2>5, Zenon DEF Reading
<1>5. x = g
  BY <1>4, ReadingUnique, Zenon
<1>6. AfterAll(c, p, s) = x[Len(s)]
  BY Zenon DEF AfterAll
<1> QED
  BY <1>5, <1>6, Zenon
\* A client that reads nothing stays as it is.
LEMMA AfterNothing ==
  ASSUME NEW c \in Clients, NEW p
  PROVE  AfterAll(c, p, <<>>) = c
<1>1. <<>> \in Seq(AnyFrame) /\ Len(<<>>) = 0
  OBVIOUS
<1>2. PICK g : Reading(g, c, p, <<>>)
  BY <1>1, ReadingExists, Zenon
<1>3. AfterAll(c, p, <<>>) = g[Len(<<>>)]
  BY <1>1, <1>2, AfterAllIs, Zenon
<1> QED
  BY <1>1, <1>2, <1>3, Zenon DEF Reading

\* A client that reads one frame.
LEMMA AfterOne ==
  ASSUME NEW c \in Clients, NEW p, NEW f \in AnyFrame
  PROVE  AfterAll(c, p, <<f>>) = After(c, p, f)
<1> DEFINE s == <<f>>
<1>1. s \in Seq(AnyFrame) /\ Len(s) = 1 /\ s[1] = f
  BY OneFrame, Zenon
<1> HIDE DEF s
<1>2. PICK g : Reading(g, c, p, s)
  BY <1>1, ReadingExists, Zenon
<1>3. AfterAll(c, p, s) = g[Len(s)]
  BY <1>1, <1>2, AfterAllIs, Zenon
<1>4. g[0] = c /\ g[1] = After(g[1 - 1], p, s[1])
  BY <1>1, <1>2 DEF Reading
<1> QED
  BY <1>1, <1>3, <1>4 DEF s

\* Reading two queues is reading the one and then the other.
LEMMA AfterBoth ==
  ASSUME NEW c \in Clients, NEW p, NEW s \in Seq(AnyFrame), NEW t \in Seq(AnyFrame)
  PROVE  /\ AfterAll(c, p, s) \in Clients
         /\ AfterAll(c, p, s \o t) = AfterAll(AfterAll(c, p, s), p, t)
<1> DEFINE u == s \o t  m == Len(s)  n == Len(t)
<1>1. /\ u \in Seq(AnyFrame) /\ m \in Nat /\ n \in Nat /\ Len(u) = m + n
      /\ \A k \in 1..m : u[k] = s[k]
      /\ \A k \in 1..n : u[m + k] = t[k]
  BY TwoQueues
<1> HIDE DEF u, m, n
<1>2. PICK g : Reading(g, c, p, u)
  BY <1>1, ReadingExists, Zenon
<1>3. /\ g \in [0..(m + n) -> Clients] /\ g[0] = c
      /\ \A k \in 1..(m + n) : g[k] = After(g[k - 1], p, u[k])
  BY <1>1, <1>2, Zenon DEF Reading
<1> DEFINE a == [k \in 0..m |-> g[k]]  b == [k \in 0..n |-> g[m + k]]
<1>4. Reading(a, c, p, s)
  <2>1. a \in [0..m -> Clients] /\ a[0] = c
    BY <1>1, <1>3
  <2>2. ASSUME NEW k \in 1..m PROVE a[k] = After(a[k - 1], p, s[k])
    <3>1. k \in 0..m /\ k - 1 \in 0..m /\ k \in 1..(m + n) /\ u[k] = s[k]
      BY <1>1
    <3>2. a[k] = g[k] /\ a[k - 1] = g[k - 1]
      BY <3>1, Zenon
    <3> HIDE DEF a
    <3> QED
      BY <1>3, <3>1, <3>2, Zenon
  <2> HIDE DEF a
  <2> QED
    BY <2>1, <2>2, Zenon DEF Reading, m
<1>5. Reading(b, g[m], p, t)
  <2>1. b \in [0..n -> Clients] /\ b[0] = g[m]
    BY <1>1, <1>3
  <2>2. ASSUME NEW k \in 1..n PROVE b[k] = After(b[k - 1], p, t[k])
    <3>1. /\ k \in 0..n /\ k - 1 \in 0..n /\ m + k \in 1..(m + n) /\ u[m + k] = t[k]
          /\ m + (k - 1) = (m + k) - 1
      BY <1>1
    <3>2. b[k] = g[m + k] /\ b[k - 1] = g[m + (k - 1)]
      BY <3>1, Zenon
    <3> HIDE DEF b
    <3> QED
      BY <1>3, <3>1, <3>2, Zenon
  <2> HIDE DEF b
  <2> QED
    BY <2>1, <2>2, Zenon DEF Reading, n
<1>6. a[m] = g[m] /\ b[n] = g[m + n] /\ g[m] \in Clients
  BY <1>1, <1>3
<1> HIDE DEF a, b
<1>7. AfterAll(c, p, s) = g[m]
  BY <1>4, <1>6, AfterAllIs DEF m
<1>8. AfterAll(g[m], p, t) = g[m + n]
  BY <1>5, <1>6, AfterAllIs DEF n
<1>9. AfterAll(c, p, u) = g[m + n]
  <2>1. u \in Seq(AnyFrame)
    BY <1>1, Zenon
  <2>2. AfterAll(c, p, u) = g[Len(u)]
    BY <1>2, <2>1, AfterAllIs, Zenon
  <2> QED
    BY <1>1, <2>2, Zenon
<1> QED
  BY <1>6, <1>7, <1>8, <1>9, Zenon DEF u

\* One more frame at the end.
LEMMA AfterLast ==
  ASSUME NEW c \in Clients, NEW p, NEW s \in Seq(AnyFrame), NEW f \in AnyFrame
  PROVE  AfterAll(c, p, Append(s, f)) = After(AfterAll(c, p, s), p, f)
<1> DEFINE t == <<f>>
<1>1. Append(s, f) = s \o t /\ t \in Seq(AnyFrame)
  BY Zenon, OneFrame, LastFrame
<1>2. \A d \in Clients : AfterAll(d, p, t) = After(d, p, f)
  BY AfterOne, Zenon
<1> HIDE DEF t
<1>3. AfterAll(c, p, s) \in Clients /\ AfterAll(c, p, s \o t) = AfterAll(AfterAll(c, p, s), p, t)
  BY <1>1, AfterBoth
<1> QED
  BY <1>1, <1>2, <1>3, Zenon

\* The frame at the head first.
LEMMA AfterFirst ==
  ASSUME NEW c \in Clients, NEW p, NEW s \in Seq(AnyFrame), s # <<>>
  PROVE  AfterAll(c, p, s) = AfterAll(After(c, p, Head(s)), p, Tail(s))
<1> DEFINE h == <<Head(s)>>  t == Tail(s)
<1>1. s = h \o t /\ h \in Seq(AnyFrame) /\ t \in Seq(AnyFrame) /\ Head(s) \in AnyFrame
  BY Zenon, HeadFrame
<1>2. AfterAll(c, p, h) = After(c, p, Head(s))
  BY <1>1, AfterOne, Zenon
<1> HIDE DEF h, t
<1>3. AfterAll(c, p, h \o t) = AfterAll(AfterAll(c, p, h), p, t)
  BY <1>1, AfterBoth
<1> QED
  BY <1>1, <1>2, <1>3, Zenon DEF t

\* A client whose join failed, or that has missed a key, stays so; and none
\* goes back to the beginning of the handshake.
LEMMA NoWayBack ==
  ASSUME NEW c \in Clients, NEW p, NEW s \in Seq(AnyFrame)
  PROVE  /\ c.phase \notin {"joining", "paired", "keyed"} => AfterAll(c, p, s) = c
         /\ c.phase # "joining" => AfterAll(c, p, s).phase # "joining"
<1>1. PICK g : Reading(g, c, p, s)
  BY ReadingExists, Zenon
<1> DEFINE T == {k \in 0..Len(s) : /\ c.phase \notin {"joining", "paired", "keyed"} => g[k] = c
                                   /\ c.phase # "joining" => g[k].phase # "joining"}
<1>2. Len(s) \in Nat
  OBVIOUS
<1>3. 0 \in T
  BY <1>1, <1>2 DEF Reading
<1>4. \A k \in 0..(Len(s) - 1) : k \in T => k + 1 \in T
  <2> TAKE k \in 0..(Len(s) - 1)
  <2> HAVE k \in T
  <2>1. k + 1 \in 1..Len(s) /\ k + 1 \in 0..Len(s) /\ (k + 1) - 1 = k /\ k \in 0..Len(s)
    BY <1>2
  <2>2. g[k + 1] = After(g[k], p, s[k + 1]) /\ g[k] \in Clients
    BY <1>1, <2>1, Zenon DEF Reading
  <2> DEFINE d == g[k]  f == s[k + 1]
  <2>3. d.phase \notin {"joining", "paired", "keyed"} => After(d, p, f) = d
    BY Zenon DEF After
  <2>4. d.phase # "joining" => After(d, p, f).phase # "joining"
    BY <2>2, Zenon DEF After, Clients
  <2> QED
    BY <2>1, <2>2, <2>3, <2>4, Zenon
<1> HIDE DEF T
<1>5. \A k \in 0..Len(s) : k \in T
  BY <1>2, <1>3, <1>4, UpTo, Zenon
<1>6. Len(s) \in T
  BY <1>2, <1>5
<1>7. AfterAll(c, p, s) = g[Len(s)]
  BY <1>1, AfterAllIs, Zenon
<1> QED
  BY <1>6, <1>7, Zenon DEF T

\* A client that is still joining is left alone by frames that are no answer to it.
LEMMA AfterOthers ==
  ASSUME NEW c \in Clients, NEW p, c.phase = "joining",
         NEW s \in Seq(AnyFrame), \A i \in 1..Len(s) : s[i].kind \in KeyKinds => s[i].to # {p}
  PROVE  AfterAll(c, p, s) = c
<1>1. PICK g : Reading(g, c, p, s)
  BY ReadingExists, Zenon
<1> DEFINE T == {k \in 0..Len(s) : g[k] = c}
<1>2. Len(s) \in Nat
  OBVIOUS
<1>3. 0 \in T
  BY <1>1, <1>2 DEF Reading
<1>4. \A k \in 0..(Len(s) - 1) : k \in T => k + 1 \in T
  <2> TAKE k \in 0..(Len(s) - 1)
  <2> HAVE k \in T
  <2>1. k + 1 \in 1..Len(s) /\ k + 1 \in 0..Len(s) /\ (k + 1) - 1 = k /\ k \in 0..Len(s)
    BY <1>2
  <2>2. g[k + 1] = After(c, p, s[k + 1])
    BY <1>1, <2>1, Zenon DEF Reading
  <2>3. After(c, p, s[k + 1]) = c
    BY <2>1, Zenon DEF After, KeyKinds
  <2> QED
    BY <2>1, <2>2, <2>3, Zenon
<1> HIDE DEF T
<1>5. \A k \in 0..Len(s) : k \in T
  BY <1>2, <1>3, <1>4, UpTo, Zenon
<1>6. Len(s) \in T
  BY <1>2, <1>5
<1>7. AfterAll(c, p, s) = g[Len(s)]
  BY <1>1, AfterAllIs, Zenon
<1> QED
  BY <1>6, <1>7, Zenon DEF T

-----------------------------------------------------------------------------
(* The host's key, and the keys on their way.                              *)

\* A member the host can reach.
Live(p) == p \in session /\ Steady(p) /\ phase[p] # "over"

\* Where a member starts, and where it will be.
Start(p) == [phase |-> phase[p], key |-> key[p]]
Goal(p)  == [phase |-> "keyed",
             key   |-> IF p \in todo THEN fresh - 1 ELSE IF fresh # 0 THEN fresh ELSE key[Host]]

\* Whoever the host answered will have its key, the others are still joining.
Converges ==
  \A p \in Members : Live(p) => IF p \in pairwise THEN Will(p) = Goal(p) ELSE Will(p).phase = "joining"

\* Queues one behind the other.
LEMMA ConcatAssoc ==
  ASSUME NEW S, NEW a \in Seq(S), NEW b \in Seq(S), NEW c \in Seq(S)
  PROVE  a \o (b \o c) = (a \o b) \o c
BY SMTT(30)

\* A frame p does nothing with, wherever it is.
Ignored(p, f) == (f.kind \in KeyKinds => f.to # {p}) /\ (f.kind = "sealed" => f.from # Host)

\* It changes nothing.
LEMMA IgnoredIs ==
  ASSUME NEW c \in Clients, NEW p, NEW f, Ignored(p, f)
  PROVE  After(c, p, f) = c
BY Zenon DEF Ignored, After, KeyKinds

\* A frame that goes from the host's link into p's queue (the hub) is read in
\* the same place.
LEMMA MovesOver ==
  ASSUME NEW c \in Clients, NEW p, NEW d \in Seq(AnyFrame), NEW u \in Seq(AnyFrame), u # <<>>
  PROVE  AfterAll(c, p, Append(d, Head(u)) \o Tail(u)) = AfterAll(c, p, d \o u)
<1> DEFINE f == Head(u)  t == Tail(u)  e == Append(d, f)
<1>1. f \in AnyFrame /\ t \in Seq(AnyFrame)
  BY HeadFrame, Zenon
<1>2. e \in Seq(AnyFrame)
  BY <1>1
<1>3. AfterAll(c, p, d) \in Clients /\ AfterAll(c, p, d \o u) = AfterAll(AfterAll(c, p, d), p, u)
  BY AfterBoth
<1>4. AfterAll(AfterAll(c, p, d), p, u) = AfterAll(After(AfterAll(c, p, d), p, f), p, t)
  BY <1>3, AfterFirst, Zenon
<1>5. AfterAll(c, p, e) = After(AfterAll(c, p, d), p, f)
  BY <1>1, AfterLast, Zenon
<1> HIDE DEF f, t, e
<1>6. AfterAll(c, p, e \o t) = AfterAll(AfterAll(c, p, e), p, t)
  BY <1>1, <1>2, AfterBoth
<1> QED
  BY <1>3, <1>4, <1>5, <1>6, Zenon DEF e, f, t

\* A frame p ignores may come into its queue, or leave the host's link.
LEMMA IgnoredOver ==
  ASSUME NEW c \in Clients, NEW p, NEW d \in Seq(AnyFrame), NEW u \in Seq(AnyFrame)
  PROVE  /\ \A f \in AnyFrame : Ignored(p, f) => AfterAll(c, p, Append(d, f) \o u) = AfterAll(c, p, d \o u)
         /\ u # <<>> /\ Ignored(p, Head(u)) => AfterAll(c, p, d \o Tail(u)) = AfterAll(c, p, d \o u)
<1>1. AfterAll(c, p, d) \in Clients /\ AfterAll(c, p, d \o u) = AfterAll(AfterAll(c, p, d), p, u)
  BY AfterBoth
<1>2. ASSUME NEW f \in AnyFrame, Ignored(p, f) PROVE AfterAll(c, p, Append(d, f) \o u) = AfterAll(c, p, d \o u)
  <2> DEFINE e == Append(d, f)
  <2>1. e \in Seq(AnyFrame)
    OBVIOUS
  <2>2. AfterAll(c, p, e) = AfterAll(c, p, d)
    BY <1>1, <1>2, AfterLast, IgnoredIs
  <2> HIDE DEF e
  <2>3. AfterAll(c, p, e \o u) = AfterAll(AfterAll(c, p, e), p, u)
    BY <2>1, AfterBoth
  <2> QED
    BY <1>1, <2>2, <2>3, Zenon DEF e
<1>3. ASSUME u # <<>>, Ignored(p, Head(u)) PROVE AfterAll(c, p, d \o Tail(u)) = AfterAll(c, p, d \o u)
  <2> DEFINE t == Tail(u)
  <2>1. t \in Seq(AnyFrame)
    BY <1>3, HeadFrame, Zenon
  <2>2. AfterAll(AfterAll(c, p, d), p, u) = AfterAll(AfterAll(c, p, d), p, t)
    BY <1>1, <1>3, AfterFirst, IgnoredIs
  <2> HIDE DEF t
  <2>3. AfterAll(c, p, d \o t) = AfterAll(AfterAll(c, p, d), p, t)
    BY <2>1, AfterBoth
  <2> QED
    BY <1>1, <2>2, <2>3, Zenon DEF t
<1> QED
  BY <1>2, <1>3, Zenon

\* What the host writes p reads last.
LEMMA ReadLast ==
  ASSUME NEW c \in Clients, NEW p, NEW d \in Seq(AnyFrame), NEW u \in Seq(AnyFrame), NEW fs \in Seq(AnyFrame)
  PROVE  /\ AfterAll(c, p, d \o u) \in Clients
         /\ AfterAll(c, p, d \o (u \o fs)) = AfterAll(AfterAll(c, p, d \o u), p, fs)
<1> DEFINE s == d \o u
<1>1. s \in Seq(AnyFrame) /\ d \o (u \o fs) = s \o fs
  <2>1. s \in Seq(AnyFrame)
    BY TwoQueues, Zenon
  <2>2. d \o (u \o fs) = (d \o u) \o fs
    BY ConcatAssoc, SMTT(30)
  <2> QED
    BY <2>1, <2>2, Zenon
<1> HIDE DEF s
<1>2. AfterAll(c, p, s) \in Clients /\ AfterAll(c, p, s \o fs) = AfterAll(AfterAll(c, p, s), p, fs)
  BY <1>1, AfterBoth
<1> QED
  BY <1>1, <1>2, Zenon DEF s

\* What p reads is gone from its queue.
LEMMA ReadFirst ==
  ASSUME NEW c \in Clients, NEW p, NEW d \in Seq(AnyFrame), d # <<>>, NEW u \in Seq(AnyFrame)
  PROVE  AfterAll(c, p, d \o u) = AfterAll(After(c, p, Head(d)), p, Tail(d) \o u)
<1> DEFINE t == Tail(d)  b == After(c, p, Head(d))
<1>1. Head(d) \in AnyFrame /\ t \in Seq(AnyFrame)
  BY HeadFrame, Zenon
<1>2. b \in Clients
  BY <1>1, AfterType, Zenon
<1>3. AfterAll(c, p, d) = AfterAll(b, p, t)
  BY AfterFirst, Zenon
<1>4. AfterAll(c, p, d \o u) = AfterAll(AfterAll(c, p, d), p, u)
  BY AfterBoth
<1> HIDE DEF t, b
<1>5. AfterAll(b, p, t \o u) = AfterAll(AfterAll(b, p, t), p, u)
  BY <1>1, <1>2, AfterBoth
<1> QED
  BY <1>3, <1>4, <1>5, Zenon DEF t, b

\* What reading one queue after the other comes to.
LEMMA Parts ==
  ASSUME Types, NEW p \in Members
  PROVE  /\ Start(p) \in Clients /\ up[Host] \in Seq(AnyFrame) /\ down[p] \in Seq(AnyFrame)
         /\ Will(p) = AfterAll(Start(p), p, down[p] \o up[Host]) /\ Will(p) \in Clients
<1>1. Start(p) \in Clients /\ up[Host] \in Seq(AnyFrame) /\ down[p] \in Seq(AnyFrame)
  BY HostInP, Zenon DEF Types, Start, Clients, Phases
<1>2. AfterAll(Start(p), p, down[p] \o up[Host]) \in Clients
  BY <1>1, ReadLast, Zenon
<1>3. Will(p) = AfterAll(Start(p), p, down[p] \o up[Host])
  BY Zenon DEF Will, Start
<1> QED
  BY <1>1, <1>2, <1>3, Zenon

\* The relay moves what a member will read, and no more.
LEMMA RouteConverges ==
  ASSUME Types, Gone, Links, Converges, NEW q \in P, Route(q)
  PROVE  Converges'
<1> USE HostInP
<1>1. UNCHANGED <<session, outages, phase, key, pairwise, todo, fresh>>
  BY Zenon DEF Route, keyVars, hostVars
<1> DEFINE f == Head(up[q])
<1>2. /\ up[q] # <<>> /\ up' = [up EXCEPT ![q] = Tail(@)]
      /\ down' = [r \in P |-> IF r \in Delivers(f) THEN Append(down[r], f) ELSE down[r]]
  BY Zenon DEF Route
<1> SUFFICES ASSUME NEW p \in Members, Live(p)
             PROVE  Will(p)' = Will(p)
  BY <1>1, Zenon DEF Converges, Live, Steady, Goal
<1>3. /\ Start(p) \in Clients /\ up[Host] \in Seq(AnyFrame) /\ down[p] \in Seq(AnyFrame)
      /\ Will(p) = AfterAll(Start(p), p, down[p] \o up[Host])
  BY Parts, Zenon
<1>4. Will(p)' = AfterAll(Start(p), p, down'[p] \o up'[Host])
  BY <1>1, Zenon DEF Will, Start
<1>5. f \in AnyFrame
  BY <1>2, HeadFrame, Zenon DEF Types
<1>6. down'[p] = IF p \in Delivers(f) THEN Append(down[p], f) ELSE down[p]
  BY <1>2, Zenon
<1>7. CASE q = Host
  <2>1. f \in FromHost
    BY <1>2, <1>7, HeadFrame, Zenon DEF Links
  <2>2. up'[Host] = Tail(up[Host]) /\ up[Host] # <<>>
    BY <1>2, <1>7, Zenon DEF Types
  <2>3. CASE p \in Delivers(f)
    BY <1>3, <1>4, <1>6, <1>7, <2>2, <2>3, MovesOver, SMTT(30)
  <2>4. CASE p \notin Delivers(f)
    <3> HIDE DEF f
    <3>1. p \notin f.to
      BY <2>4, Zenon DEF Delivers, Live
    <3>2. Ignored(p, f)
      BY <2>1, <3>1, Zenon DEF FromHost, Ignored, KeyKinds
    <3>3. Ignored(p, Head(up[Host]))
      BY <1>7, <3>2, Zenon DEF f
    <3>4. down'[p] = down[p]
      BY <1>6, <2>4, Zenon
    <3> QED
      BY <1>3, <1>4, <2>2, <3>3, <3>4, IgnoredOver
  <2> QED
    BY <2>3, <2>4, Zenon
<1>8. CASE q \in Members
  <2>1. f \in FromMember(q)
    BY <1>2, <1>8, HeadFrame, Zenon DEF Links
  <2>2. up'[Host] = up[Host]
    BY <1>2, <1>8, Zenon DEF Types
  <2> HIDE DEF f
  <2>3. Ignored(p, f)
    BY <1>8, <2>1, Zenon DEF FromMember, Ignored, KeyKinds
  <2> QED
    BY <1>3, <1>4, <1>5, <1>6, <2>2, <2>3, IgnoredOver
<1> QED
  BY <1>7, <1>8, Zenon DEF P

\* What a member that will get there reads first comes in its turn.
LEMMA InTurn ==
  ASSUME Types, Links, Converges, NEW p \in Members, Live(p), down[p] # <<>>
  PROVE  LET f == Head(down[p]) IN
         /\ After(Start(p), p, f).phase # "missed"
         /\ phase[p] = "keyed" /\ f.kind = "rekey" => f.key = key[p] + 1
         /\ phase[p] = "keyed" /\ f.kind = "sealed" /\ f.from = Host => f.key <= key[p]
<1> DEFINE f == Head(down[p])  rest == Tail(down[p]) \o up[Host]
<1>1. /\ Start(p) \in Clients /\ up[Host] \in Seq(AnyFrame) /\ down[p] \in Seq(AnyFrame)
      /\ Will(p) = AfterAll(Start(p), p, down[p] \o up[Host])
  BY Parts, Zenon
<1>2. Will(p) = AfterAll(After(Start(p), p, f), p, rest)
  BY <1>1, ReadFirst, Zenon
<1>3. f \in ToMember(p) /\ f \in AnyFrame
  BY <1>1, HeadFrame, Zenon DEF Links, ToMember
<1>4. rest \in Seq(AnyFrame)
  BY <1>1, HeadFrame, TwoQueues, Zenon
<1>5. Will(p).phase \in {"keyed", "joining"}
  BY DEF Converges, Goal
<1> HIDE DEF f, rest
<1>6. After(Start(p), p, f) \in Clients
  BY <1>1, <1>3, AfterType, Zenon
<1>7. After(Start(p), p, f).phase # "missed"
  BY <1>2, <1>4, <1>5, <1>6, NoWayBack, Zenon
<1>8. phase[p] = "keyed" /\ f.kind = "rekey" => f.key = key[p] + 1
  BY <1>3, <1>7, Zenon DEF After, ToMember, KeyKinds, Start
<1>9. phase[p] = "keyed" /\ f.kind = "sealed" /\ f.from = Host => f.key <= key[p]
  BY <1>7, Zenon DEF After, Start
<1> QED
  BY <1>7, <1>8, <1>9, Zenon DEF f

\* What a member reads itself is what it was going to read first.
LEMMA ReadsConverges ==
  ASSUME Types, Gone, Links, Converges, NEW q \in Members, Reads(q)
  PROVE  Converges'
<1> USE HostInP
<1>1. UNCHANGED <<session, outages, pairwise, todo, fresh>>
  BY Zenon DEF Reads, SendPake1, DriveHandshake, MemberReads, hostVars
<1>2. down' = [down EXCEPT ![q] = Tail(@)] /\ down[q] # <<>>
  BY Zenon DEF Reads, SendPake1, DriveHandshake, MemberReads, Receive
<1>3. up'[Host] = up[Host]
  <2>1. SendPake1(q) => up'[Host] = up[Host]
    BY WritesAt, Zenon DEF SendPake1
  <2>2. DriveHandshake(q) \/ MemberReads(q) => up' = up
    BY Zenon DEF DriveHandshake, MemberReads
  <2> QED
    BY <2>1, <2>2, Zenon DEF Reads
<1> DEFINE f == Head(down[q])
<1>4. /\ \E ph \in Phases : phase' = [phase EXCEPT ![q] = ph]
      /\ \E k \in Nat : key' = [key EXCEPT ![q] = k]
  <2>1. /\ \A r \in P : phase = [phase EXCEPT ![r] = phase[r]] /\ key = [key EXCEPT ![r] = key[r]]
        /\ phase[q] \in Phases /\ key[q] \in Nat
    BY Zenon DEF Types
  <2>6. f \in AnyFrame
    BY <1>2, HeadFrame, Zenon DEF Types
  <2> HIDE DEF f
  <2>2. f.key \in Nat
    BY <2>6, Zenon DEF AnyFrame
  <2>3. {"paired", "keyed", "over"} \subseteq Phases
    BY Zenon DEF Phases
  <2>4. phase' = phase \/ \E ph \in {"paired", "keyed", "over"} : phase' = [phase EXCEPT ![q] = ph]
    BY Zenon DEF Reads, SendPake1, DriveHandshake, MemberReads, keyVars
  <2>5. key' = key \/ key' = [key EXCEPT ![q] = f.key]
    BY Zenon DEF Reads, SendPake1, DriveHandshake, MemberReads, keyVars, Install, f
  <2> QED
    BY <2>1, <2>2, <2>3, <2>4, <2>5, Zenon
<1>5. key'[Host] = key[Host]
  BY <1>4, Zenon DEF Types
<1> SUFFICES ASSUME NEW p \in Members, Live(p)'
             PROVE  Live(p) /\ Will(p)' = Will(p)
  BY <1>1, <1>5, Zenon DEF Converges, Goal
<1>6. CASE p # q
  <2>1. phase'[p] = phase[p] /\ key'[p] = key[p] /\ down'[p] = down[p]
    BY <1>2, <1>4, <1>6, Zenon DEF Types
  <2> QED
    BY <1>1, <1>3, <2>1, Zenon DEF Live, Steady, Will
<1>7. CASE p = q
  <2>1. Live(p)
    BY <1>1, <1>7, Zenon DEF Live, Steady, Reads, SendPake1, DriveHandshake, MemberReads
  <2>2. /\ Start(p) \in Clients /\ up[Host] \in Seq(AnyFrame) /\ down[p] \in Seq(AnyFrame)
        /\ Will(p) = AfterAll(Start(p), p, down[p] \o up[Host])
    BY Parts, Zenon
  <2>3. down'[p] = Tail(down[p])
    BY <1>2, <1>7, Zenon DEF Types
  <2>4. Will(p) = AfterAll(After(Start(p), p, f), p, down'[p] \o up'[Host])
    BY <1>2, <1>3, <1>7, <2>2, <2>3, ReadFirst
  <2>5. Will(p)' = AfterAll(Start(p)', p, down'[p] \o up'[Host])
    BY Zenon DEF Will, Start
  <2>7. f \in ToMember(p) /\ f \in AnyFrame
    BY <1>2, <1>7, HeadFrame, Zenon DEF Links, ToMember
  <2>10. /\ After(Start(p), p, f).phase # "missed"
         /\ phase[p] = "keyed" /\ f.kind = "rekey" => f.key = key[p] + 1
    BY <1>2, <1>7, <2>1, InTurn, Zenon
  <2>11. phase'[p] # "over" /\ phase[p] \in Phases /\ key[p] \in Nat
    BY Zenon DEF Live, Types
  <2>12. Start(p)' = After(Start(p), p, f)
    <3>1. CASE SendPake1(p)
      <4>1. f.kind = "result" /\ Start(p)' = Start(p)
        BY <1>7, <3>1, Zenon DEF SendPake1, keyVars, Start
      <4> QED
        BY <4>1, Zenon DEF After
    <3>2. CASE DriveHandshake(p)
      <4>1. phase[p] \in {"joining", "paired"}
        BY <3>2, Zenon DEF DriveHandshake
      <4> HIDE DEF f
      <4>2. CASE f.kind = "pake2"
        <5>1. phase'[p] = "paired" /\ key'[p] = key[p]
          BY <1>7, <3>2, <4>2, Zenon DEF DriveHandshake, f, Types, keyVars
        <5> QED
          BY <2>7, <4>1, <4>2, <5>1, Zenon DEF After, ToMember, KeyKinds, Start
      <4>3. CASE f.kind = "groupkey"
        <5>1. phase[p] = "paired" /\ phase'[p] = "keyed" /\ key'[p] = f.key
          BY <1>7, <2>11, <3>2, <4>3, Zenon DEF DriveHandshake, f, Types, keyVars
        <5> QED
          BY <2>7, <4>3, <5>1, Zenon DEF After, ToMember, KeyKinds, Start
      <4>4. CASE f.kind \notin {"pake2", "groupkey"}
        <5>1. phase' = phase /\ key' = key
          BY <1>7, <3>2, <4>4, Zenon DEF DriveHandshake, f, keyVars
        <5> QED
          BY <4>1, <4>4, <5>1, Zenon DEF After, Start
      <4> QED
        BY <4>2, <4>3, <4>4, Zenon
    <3>3. CASE MemberReads(p)
      <4>1. phase[p] = "keyed" /\ phase' = phase
        BY <3>3, Zenon DEF MemberReads
      <4> HIDE DEF f
      <4>2. CASE f.kind = "rekey"
        <5>1. key'[p] = f.key
          BY <1>7, <3>3, <4>2, Zenon DEF MemberReads, Install, Types, f
        <5>2. f.key = key[p] + 1
          BY <2>10, <4>1, <4>2, Zenon
        <5> QED
          BY <2>7, <4>1, <4>2, <5>1, <5>2, Zenon DEF After, ToMember, KeyKinds, Start
      <4>3. CASE f.kind # "rekey"
        <5>1. key' = key
          BY <1>7, <3>3, <4>3, Zenon DEF MemberReads, f
        <5> QED
          BY <2>10, <4>1, <4>3, <5>1, Zenon DEF After, Start
      <4> QED
        BY <4>2, <4>3, Zenon
    <3> QED
      BY <1>7, <3>1, <3>2, <3>3, Zenon DEF Reads
  <2> QED
    BY <2>1, <2>4, <2>5, <2>12, Zenon
<1> QED
  BY <1>6, <1>7, Zenon

\* What the host writes its members read last.
LEMMA HostWrites ==
  ASSUME Types, NEW fs \in Seq(AnyFrame), Writes(Host, fs), Host \in linked, NEW p \in Members,
         UNCHANGED <<phase, key>>, down'[p] = down[p]
  PROVE  Will(p) \in Clients /\ Will(p)' = AfterAll(Will(p), p, fs)
<1> USE HostInP
<1>1. /\ Start(p) \in Clients /\ up[Host] \in Seq(AnyFrame) /\ down[p] \in Seq(AnyFrame)
      /\ Will(p) = AfterAll(Start(p), p, down[p] \o up[Host])
  BY Parts, Zenon
<1>2. up'[Host] = up[Host] \o fs
  BY WritesAt, Zenon
<1>3. Will(p)' = AfterAll(Start(p), p, down[p] \o up'[Host])
  BY Zenon DEF Will, Start
<1> QED
  BY <1>1, <1>2, <1>3, ReadLast

\* handleHandshakeDirect gives the joiner the key the others have.
LEMMA HandlePake1Converges ==
  ASSUME Types, Gone, Links, HostKeys, Converges, HandlePake1
  PROVE  Converges'
<1> USE HostInP
<1> DEFINE q == Head(down[Host]).from
           a == Direct("pake2", Host, q, 0)
           b == Direct("groupkey", Host, q, key[Host])
<1>1. UNCHANGED <<session, linked, outages, phase, key, todo, fresh>> /\ fresh = 0 /\ pairwise' = pairwise \cup {q}
  BY Zenon DEF HandlePake1, HostReceives, keyVars
<1>2. Writes(Host, <<a, b>>) /\ down' = [down EXCEPT ![Host] = Tail(@)]
  BY Zenon DEF HandlePake1, HostReceives, Receive, Reply
<1>3. q \in P
  <2>1. Head(down[Host]) \in ToHost
    BY HeadFrame, Zenon DEF HandlePake1, HostReceives, Receive, Links
  <2> QED
    BY <2>1, Zenon DEF ToHost, AnyFrame
<1>4. /\ a \in AnyFrame /\ a.kind = "pake2" /\ a.to = {q}
      /\ b \in AnyFrame /\ b.kind = "groupkey" /\ b.to = {q} /\ b.key = key[Host]
  <2> HIDE DEF q
  <2> QED
    BY <1>3, DirectType, SMTT(30) DEF Kinds, Types, Direct
<1> SUFFICES ASSUME NEW p \in Members, Live(p)'
             PROVE  IF p \in pairwise' THEN Will(p)' = Goal(p)' ELSE Will(p)'.phase = "joining"
  BY Zenon DEF Converges
<1>5. Live(p) /\ Host \in linked
  BY <1>1, Zenon DEF Live, Steady, HostKeys
<1>6. IF p \in pairwise THEN Will(p) = Goal(p) ELSE Will(p).phase = "joining"
  BY <1>5, Zenon DEF Converges
<1>7. Goal(p) = [phase |-> "keyed", key |-> key[Host]] /\ Goal(p)' = Goal(p)
  BY <1>1, Zenon DEF Goal, HostKeys
<1> HIDE DEF a, b, q
<1>8. <<a, b>> \in Seq(AnyFrame) /\ <<a, b>> # <<>> /\ Head(<<a, b>>) = a /\ Tail(<<a, b>>) = <<b>>
  BY <1>4
<1>9. down'[p] = down[p]
  BY <1>2, Zenon DEF Types
<1> DEFINE c == Will(p)  ab == <<a, b>>  B == <<b>>
<1>10. c \in Clients /\ Will(p)' = AfterAll(c, p, ab)
  BY <1>1, <1>2, <1>5, <1>8, <1>9, HostWrites, Zenon
<1>11. AfterAll(c, p, ab) = AfterAll(After(c, p, a), p, B)
  BY <1>8, <1>10, AfterFirst, Zenon
<1>12. After(c, p, a) \in Clients
  BY <1>4, <1>10, AfterType, Zenon
<1>13. AfterAll(After(c, p, a), p, B) = After(After(c, p, a), p, b)
  BY <1>4, <1>12, AfterOne, Zenon
<1>14. Will(p)' = After(After(c, p, a), p, b)
  BY <1>10, <1>11, <1>13, Zenon
<1> HIDE DEF c, ab, B
<1>15. CASE p # q
  <2>1. After(c, p, a) = c /\ After(c, p, b) = c
    BY <1>4, <1>15, Zenon DEF After
  <2> QED
    BY <1>1, <1>6, <1>7, <1>14, <1>15, <2>1, Zenon DEF c
<1>16. CASE p = q /\ p \in pairwise
  <2>1. c.phase = "keyed"
    BY <1>6, <1>7, <1>16 DEF c
  <2>2. After(c, p, a) = c /\ After(c, p, b) = c
    BY <1>4, <2>1, Zenon DEF After
  <2> QED
    BY <1>1, <1>6, <1>7, <1>14, <1>16, <2>2, Zenon DEF c
<1>17. CASE p = q /\ p \notin pairwise
  <2>1. c.phase = "joining"
    BY <1>6, <1>17, Zenon DEF c
  <2>2. After(c, p, a) = [c EXCEPT !.phase = "paired"]
    BY <1>4, <1>17, <2>1, Zenon DEF After
  <2>3. After(c, p, a).phase = "paired"
    BY <1>10, <2>2, Zenon DEF Clients
  <2>4. After(After(c, p, a), p, b) = [phase |-> "keyed", key |-> key[Host]]
    BY <1>4, <1>17, <2>3, Zenon DEF After
  <2> QED
    BY <1>1, <1>7, <1>14, <1>17, <2>4, Zenon
<1> QED
  BY <1>15, <1>16, <1>17, Zenon

\* rekeyAfterLeave hands the next key to each of those that have the one before.
LEMMA SendRekeyConverges ==
  ASSUME Types, Gone, Links, HostKeys, Converges, NEW q \in todo, SendRekey(q)
  PROVE  Converges'
<1> USE HostInP
<1> DEFINE a == Direct("rekey", Host, q, fresh)
<1>1. UNCHANGED <<session, linked, outages, phase, key, pairwise, fresh, down>> /\ todo' = todo \ {q}
  BY Zenon DEF SendRekey, keyVars
<1>2. Writes(Host, <<a>>)
  BY Zenon DEF SendRekey
<1>3. q \in P /\ fresh \in Nat /\ fresh # 0
  BY Zenon DEF Types, HostKeys
<1>4. a \in AnyFrame /\ a.kind = "rekey" /\ a.to = {q} /\ a.key = fresh
  BY <1>3, DirectType, Zenon DEF Kinds, Direct
<1> HIDE DEF a
<1> SUFFICES ASSUME NEW p \in Members, Live(p)'
             PROVE  IF p \in pairwise' THEN Will(p)' = Goal(p)' ELSE Will(p)'.phase = "joining"
  BY Zenon DEF Converges
<1>5. Live(p) /\ Host \in linked
  BY <1>1, Zenon DEF Live, Steady, HostKeys
<1>6. IF p \in pairwise THEN Will(p) = Goal(p) ELSE Will(p).phase = "joining"
  BY <1>5, Zenon DEF Converges
<1> DEFINE c == Will(p)  A == <<a>>
<1>7. A \in Seq(AnyFrame)
  BY <1>4, OneFrame, Zenon
<1>8. c \in Clients /\ Will(p)' = AfterAll(c, p, A)
  BY <1>1, <1>2, <1>5, <1>7, HostWrites, Zenon
<1>9. Will(p)' = After(c, p, a)
  BY <1>4, <1>8, AfterOne, Zenon
<1> HIDE DEF c, A
<1>10. CASE p # q
  <2>1. After(c, p, a) = c
    BY <1>4, <1>10, Zenon DEF After
  <2>2. Goal(p)' = Goal(p)
    BY <1>1, <1>10, Zenon DEF Goal
  <2> QED
    BY <1>1, <1>6, <1>9, <2>1, <2>2, Zenon DEF c
<1>11. CASE p = q /\ p \in pairwise
  <2>1. c = [phase |-> "keyed", key |-> fresh - 1]
    BY <1>6, <1>11, Zenon DEF c, Goal
  <2>2. After(c, p, a) = [phase |-> "keyed", key |-> fresh]
    BY <1>3, <1>4, <1>11, <2>1 DEF After
  <2>3. Goal(p)' = [phase |-> "keyed", key |-> fresh]
    BY <1>1, <1>3, <1>11, Zenon DEF Goal
  <2> QED
    BY <1>1, <1>9, <1>11, <2>2, <2>3, Zenon
<1>12. CASE p \notin pairwise
  <2>1. c.phase = "joining"
    BY <1>6, <1>12, Zenon DEF c
  <2>2. After(c, p, a) = c
    BY <1>4, <2>1, Zenon DEF After
  <2> QED
    BY <1>1, <1>9, <1>12, <2>1, <2>2, Zenon
<1> QED
  BY <1>10, <1>11, <1>12, Zenon

\* The host seals under a key it has handed out.
LEMMA HostSealedConverges ==
  ASSUME Types, Gone, Links, HostKeys, Converges, WriteSealed(Host)
  PROVE  Converges'
<1> USE HostInP
<1> DEFINE a == ToAll("sealed", Host, sealed[Host])
<1>1. UNCHANGED <<session, linked, outages, phase, key, pairwise, todo, fresh, down>>
  BY Zenon DEF WriteSealed, keyVars, hostVars
<1>2. Writes(Host, <<a>>)
  BY Zenon DEF WriteSealed
<1>3. key[Host] \in Nat /\ fresh \in Nat /\ sealed[Host] \in Nat /\ sealed[Host] <= key[Host]
  BY Zenon DEF Types, HostKeys
<1>4. a \in AnyFrame /\ a.kind = "sealed" /\ a.key = sealed[Host]
  BY <1>3, ToAllType, Zenon DEF Kinds, ToAll
<1> HIDE DEF a
<1> SUFFICES ASSUME NEW p \in Members, Live(p)'
             PROVE  Live(p) /\ Will(p)' = Will(p)
  BY <1>1, Zenon DEF Converges, Goal
<1>5. Live(p) /\ Host \in linked
  BY <1>1, Zenon DEF Live, Steady, HostKeys
<1>6. IF p \in pairwise THEN Will(p) = Goal(p) ELSE Will(p).phase = "joining"
  BY <1>5, Zenon DEF Converges
<1> DEFINE c == Will(p)  A == <<a>>
<1>7. A \in Seq(AnyFrame)
  BY <1>4, OneFrame, Zenon
<1>8. c \in Clients /\ Will(p)' = AfterAll(c, p, A)
  BY <1>1, <1>2, <1>5, <1>7, HostWrites, Zenon
<1>9. Will(p)' = After(c, p, a)
  BY <1>4, <1>8, AfterOne, Zenon
<1>10. p \in pairwise => c.phase = "keyed" /\ key[Host] <= c.key /\ c.key \in Nat
  <2>1. p \in todo => fresh # 0
    BY Zenon DEF HostKeys
  <2>2. fresh # 0 => fresh = key[Host] + 1
    BY Zenon DEF HostKeys
  <2> QED
    BY <1>3, <1>6, <2>1, <2>2 DEF Goal
<1> HIDE DEF c, A
<1>11. After(c, p, a) = c
  <2>1. CASE p \in pairwise
    BY <1>3, <1>4, <1>10, <2>1 DEF After
  <2>2. CASE p \notin pairwise
    <3>1. c.phase = "joining"
      BY <1>6, <2>2, Zenon DEF c
    <3> QED
      BY <1>4, <3>1, Zenon DEF After
  <2> QED
    BY <2>1, <2>2, Zenon
<1> QED
  BY <1>5, <1>9, <1>11, Zenon DEF c

\* A joiner finds nothing on its way that could be an answer.
LEMMA JoinConverges ==
  ASSUME Types, Gone, Links, HostKeys, Converges, NEW q \in Members, Join(q)
  PROVE  Converges'
<1> USE HostInP
<1> DEFINE r == Direct("result", Host, q, 0)
<1>1. UNCHANGED <<up, key, outages, pairwise, todo, fresh>> /\ session' = session \cup {q} /\ phase[q] = "out"
  BY Zenon DEF Join, hostVars
<1>2. phase' = [phase EXCEPT ![q] = "joining"] /\ down' = [down EXCEPT ![q] = <<r>>]
  BY Zenon DEF Join
<1>3. r \in AnyFrame /\ r.kind = "result"
  BY DirectType DEF Kinds
<1> HIDE DEF r
<1> SUFFICES ASSUME NEW p \in Members, Live(p)'
             PROVE  IF p \in pairwise' THEN Will(p)' = Goal(p)' ELSE Will(p)'.phase = "joining"
  BY Zenon DEF Converges
<1>4. CASE p # q
  <2>1. phase'[p] = phase[p] /\ down'[p] = down[p]
    BY <1>2, <1>4, Zenon DEF Types
  <2>2. Live(p) /\ Will(p)' = Will(p) /\ Goal(p)' = Goal(p)
    BY <1>1, <1>4, <2>1, Zenon DEF Live, Steady, Will, Goal
  <2> QED
    BY <1>1, <2>2, Zenon DEF Converges
<1>5. CASE p = q
  <2>1. p \notin pairwise'
    BY <1>1, <1>5, Zenon DEF Links
  <2> DEFINE c == [phase |-> "joining", key |-> key[p]]  d == <<r>>  u == up[Host]
  <2>2. c \in Clients /\ d \in Seq(AnyFrame) /\ u \in Seq(AnyFrame)
    BY <1>3, OneFrame, Zenon DEF Types, Clients, Phases
  <2>3. Will(p)' = AfterAll(c, p, d \o u)
    BY <1>1, <1>2, <1>5, Zenon DEF Will, Types
  <2>4. c.phase = "joining"
    BY Zenon
  <2>5. AfterAll(c, p, d) = After(c, p, r)
    BY <1>3, <2>2, AfterOne, Zenon
  <2>6. \A i \in 1..Len(u) : u[i].kind \in KeyKinds => u[i].to # {p}
    <3>1. u \in Seq(FromHost)
      BY Zenon DEF Links
    <3>2. \A i \in 1..Len(u) : u[i] \in FromHost
      BY <3>1
    <3> HIDE DEF u
    <3> QED
      BY <1>1, <1>5, <3>2, Zenon DEF FromHost
  <2> HIDE DEF c, d, u
  <2>7. After(c, p, r) = c
    BY <1>3, Zenon DEF After
  <2>8. AfterAll(c, p, d \o u) = AfterAll(AfterAll(c, p, d), p, u)
    BY <2>2, AfterBoth
  <2>9. AfterAll(c, p, u) = c
    BY <2>2, <2>4, <2>6, AfterOthers, Zenon
  <2> QED
    BY <2>1, <2>3, <2>4, <2>5, <2>7, <2>8, <2>9, Zenon
<1> QED
  BY <1>4, <1>5, Zenon

\* A departure begins a new key for everybody who has the last one.
LEMMA HandleLeftConverges ==
  ASSUME Types, Gone, Links, HostKeys, Converges, HandleLeft
  PROVE  Converges'
<1> USE HostInP
<1> DEFINE q == Head(down[Host]).from
<1>1. UNCHANGED <<session, up, outages, phase, key>> /\ fresh = 0 /\ pairwise' = pairwise \ {q}
      /\ down' = [down EXCEPT ![Host] = Tail(@)]
  BY Zenon DEF HandleLeft, HostReceives, Receive, keyVars
<1>2. \/ pairwise' = {} /\ fresh' = fresh /\ todo' = todo
      \/ fresh' = minted + 1 /\ todo' = pairwise'
  BY Zenon DEF HandleLeft
<1>3. q \notin session
  <2>1. Head(down[Host]) \in Departures /\ Head(down[Host]).kind = "left"
    BY HeadFrame, Zenon DEF HandleLeft, HostReceives, Receive, Gone
  <2> QED
    BY <2>1, Zenon DEF Departures
<1>4. todo = {} /\ key[Host] = minted /\ minted \in Nat
  BY <1>1, Zenon DEF HostKeys, Types
<1> HIDE DEF q
<1> SUFFICES ASSUME NEW p \in Members, Live(p)'
             PROVE  IF p \in pairwise' THEN Will(p)' = Goal(p)' ELSE Will(p)'.phase = "joining"
  BY Zenon DEF Converges
<1>5. down'[p] = down[p]
  BY <1>1, Zenon DEF Types
<1>6. Live(p) /\ Will(p)' = Will(p)
  BY <1>1, <1>5, Zenon DEF Live, Steady, Will
<1>7. p \in pairwise' <=> p \in pairwise
  BY <1>1, <1>3, <1>6, Zenon DEF Live
<1>8. p \in pairwise => Goal(p)' = Goal(p)
  BY <1>1, <1>2, <1>4, <1>7 DEF Goal
<1> QED
  BY <1>6, <1>7, <1>8, Zenon DEF Converges

\* Nothing else changes what a member will read.
LEMMA OthersConverge ==
  ASSUME Types, Gone, Links, HostKeys, Converges,
         NEW p \in Members, Live(p)',
         p \in session, outages \subseteq outages', phase'[p] = phase[p], key'[p] = key[p], down'[p] = down[p],
         Host \notin outages' => up'[Host] = up[Host],
         pairwise' = pairwise, Goal(p)' = Goal(p)
  PROVE  IF p \in pairwise' THEN Will(p)' = Goal(p)' ELSE Will(p)'.phase = "joining"
<1>1. up'[Host] = up[Host]
  BY Zenon DEF Live, Steady
<1>2. Live(p) /\ Will(p)' = Will(p)
  BY <1>1, Zenon DEF Live, Steady, Will
<1> QED
  BY <1>2, Zenon DEF Converges

\* So whoever the host answered will have its key, whatever happens.
LEMMA ConvergesStep ==
  ASSUME Types, Gone, Links, HostKeys, Converges, [Next]_vars
  PROVE  Converges'
<1> USE HostInP
<1>1. ASSUME \A p \in Members : Live(p)' => /\ p \in session /\ outages \subseteq outages' /\ phase'[p] = phase[p]
                                            /\ key'[p] = key[p] /\ down'[p] = down[p]
                                            /\ Host \notin outages' => up'[Host] = up[Host]
                                            /\ pairwise' = pairwise /\ Goal(p)' = Goal(p)
      PROVE  Converges'
  BY <1>1, OthersConverge, Zenon DEF Converges
<1>2. CASE SwapKey
  <2>1. UNCHANGED <<session, up, down, outages, phase, pairwise, todo>> /\ fresh' = 0 /\ fresh # 0 /\ todo = {}
    BY <1>2, Zenon DEF SwapKey, netVars
  <2>2. key'[Host] = fresh /\ \A p \in Members : key'[p] = key[p]
    BY <1>2, Zenon DEF SwapKey, Install, Types
  <2>3. \A p \in Members : Goal(p)' = Goal(p)
    BY <2>1, <2>2, Zenon DEF Goal
  <2> QED
    BY <1>1, <2>1, <2>2, <2>3, Zenon DEF Live
<1>3. CASE HostIgnores
  <2>1. UNCHANGED <<session, up, outages, phase, key, pairwise, todo, fresh>> /\ down' = [down EXCEPT ![Host] = Tail(@)]
    BY <1>3, Zenon DEF HostIgnores, HostReceives, Receive, keyVars, hostVars
  <2>2. \A p \in Members : down'[p] = down[p] /\ Goal(p)' = Goal(p)
    BY <2>1, Zenon DEF Goal, Types
  <2> QED
    BY <1>1, <2>1, <2>2, Zenon DEF Live
<1>4. ASSUME NEW q \in P, Drop(q) PROVE Converges'
  <2>1. UNCHANGED <<session, phase, key, pairwise, todo, fresh>> /\ outages' = outages \cup {q}
        /\ up' = [up EXCEPT ![q] = <<>>]
    BY <1>4, Zenon DEF Drop, keyVars, hostVars
  <2>2. \A p \in P \ {q} : down'[p] = down[p]
    BY <1>4, Zenon DEF Drop, Types
  <2>3. \A p \in Members : Goal(p)' = Goal(p)
    BY <2>1, Zenon DEF Goal
  <2>4. Host \notin outages' => up'[Host] = up[Host]
    BY <2>1, Zenon DEF Types
  <2>5. \A p \in Members : Live(p)' => p # q /\ p \in session
    BY <2>1, Zenon DEF Live, Steady
  <2> QED
    BY <1>1, <2>1, <2>2, <2>3, <2>4, <2>5, Zenon
<1>5. ASSUME NEW q \in P, Resume(q) \/ Seal(q) PROVE Converges'
  <2>1. UNCHANGED <<session, up, down, outages, phase, key, pairwise, todo, fresh>>
    BY <1>5, Zenon DEF Resume, Seal, keyVars, hostVars, netVars
  <2> QED
    BY <1>1, <2>1, Zenon DEF Live, Goal
<1>6. ASSUME NEW q \in Members, WriteSealed(q) PROVE Converges'
  <2>1. UNCHANGED <<session, down, outages, phase, key, pairwise, todo, fresh>>
    BY <1>6, Zenon DEF WriteSealed, keyVars, hostVars
  <2>2. up'[Host] = up[Host]
    BY <1>6, WritesAt, Zenon DEF WriteSealed
  <2> QED
    BY <1>1, <2>1, <2>2, Zenon DEF Live, Goal
<1>7. ASSUME NEW q \in Members, Leave(q) \/ GiveUp(q) \/ Evict(q) \/ Disconnect(q) \/ GraceExpires(q)
      PROVE  Converges'
  <2>1. UNCHANGED <<outages, key, pairwise, todo, fresh>> /\ session' \subseteq session
    BY <1>7, Zenon DEF Leave, GiveUp, Evict, Disconnect, GraceExpires, keyVars, hostVars
  <2>2. \A p \in P \ {q} : down'[p] = down[p] \/ p = Host
    BY <1>7, Zenon DEF Leave, GiveUp, Evict, Disconnect, GraceExpires, Announce, Types
  <2>3. \A p \in P \ {q} : phase'[p] = phase[p] /\ up'[p] = up[p]
    BY <1>7, Zenon DEF Leave, GiveUp, Evict, Disconnect, GraceExpires, keyVars, Types
  <2>4. q \notin session' \/ phase'[q] = "over"
    BY <1>7, Zenon DEF Leave, GiveUp, Evict, Disconnect, GraceExpires, Types
  <2>5. \A p \in Members : Live(p)' => p # q /\ p \in session
    BY <2>1, <2>4, Zenon DEF Live
  <2>6. \A p \in Members : Goal(p)' = Goal(p)
    BY <2>1, Zenon DEF Goal
  <2>7. up'[Host] = up[Host]
    BY <2>3, Zenon
  <2> QED
    BY <1>1, <2>1, <2>2, <2>3, <2>5, <2>6, <2>7, Zenon
<1>8. CASE UNCHANGED vars
  <2>1. UNCHANGED <<session, up, down, outages, phase, key, pairwise, todo, fresh>>
    BY <1>8, Zenon DEF vars, keyVars, hostVars, netVars
  <2> QED
    BY <1>1, <2>1, Zenon DEF Live, Goal
<1> QED
  BY <1>2, <1>3, <1>4, <1>5, <1>6, <1>7, <1>8, RouteConverges, ReadsConverges, HandlePake1Converges,
     SendRekeyConverges,
     HostSealedConverges, JoinConverges, HandleLeftConverges, Zenon DEF Next, HostRuns, P

\* At first nobody has joined.
LEMMA ConvergesInit == Init => Converges
  BY HostInP, Zenon DEF Init, Converges, Live

-----------------------------------------------------------------------------
(* The ring of superseded keys.                                            *)

\* A member the host can reach keeps each key from its first on, as far back
\* as the ring goes, at its place.
Rings ==
  first \in [P -> Nat] /\ \A p \in Members : Live(p) /\ phase[p] = "keyed" =>
    \A k \in Nat : first[p] <= k /\ k < key[p] /\ key[p] - k <= PrevKeyRing =>
      key[p] - k <= Len(prev[p]) /\ prev[p][key[p] - k] = k

\* pushPrevKeyLocked: the new key comes first, the others move up by one, the
\* last falls off a full ring.
LEMMA PushedIs ==
  ASSUME NEW ring \in Seq(Nat), NEW k \in Nat
  PROVE  /\ Len(Pushed(ring, k)) >= 1 /\ Pushed(ring, k)[1] = k
         /\ \A i \in 1..Len(ring) : i + 1 <= PrevKeyRing =>
              i + 1 <= Len(Pushed(ring, k)) /\ Pushed(ring, k)[i + 1] = ring[i]
<1> DEFINE all == <<k>> \o ring
           len == IF Len(ring) < PrevKeyRing THEN Len(ring) + 1 ELSE PrevKeyRing
<1>1. /\ all \in Seq(Nat) /\ Len(all) = Len(ring) + 1 /\ all[1] = k
      /\ \A i \in 1..Len(ring) : all[i + 1] = ring[i]
  OBVIOUS
<1>2. len \in Nat /\ len <= Len(all) /\ len >= 1 /\ Len(ring) \in Nat
      /\ \A i \in 1..Len(ring) : i + 1 <= PrevKeyRing => i + 1 <= len
  BY <1>1, GroupAssumption
<1>3. Pushed(ring, k) = SubSeq(all, 1, len)
  BY Zenon DEF Pushed
<1> HIDE DEF all, len
<1>4. Len(SubSeq(all, 1, len)) = len /\ \A i \in 1..len : SubSeq(all, 1, len)[i] = all[i]
  BY <1>1, <1>2
<1>5. ASSUME NEW i \in 1..Len(ring), i + 1 <= PrevKeyRing PROVE i + 1 \in 1..len
  BY <1>2, <1>5
<1> QED
  BY <1>1, <1>2, <1>3, <1>4, <1>5

\* A rekey in its turn keeps the ring in order.
LEMMA RingTurns ==
  ASSUME NEW ring \in Seq(Nat), NEW n \in Nat, NEW m,
         \A k \in Nat : m <= k /\ k < n /\ n - k <= PrevKeyRing => n - k <= Len(ring) /\ ring[n - k] = k,
         NEW k \in Nat, m <= k, k < n + 1, (n + 1) - k <= PrevKeyRing
  PROVE  (n + 1) - k <= Len(Pushed(ring, n)) /\ Pushed(ring, n)[(n + 1) - k] = k
<1>1. PrevKeyRing \in Nat /\ Len(ring) \in Nat
  BY GroupAssumption
<1>2. CASE k = n
  <2>1. (n + 1) - k = 1
    BY <1>2
  <2> QED
    BY <1>2, <2>1, PushedIs
<1>3. CASE k # n
  <2>1. k < n /\ n - k <= PrevKeyRing /\ n - k \in Nat \ {0} /\ (n + 1) - k = (n - k) + 1
    BY <1>1, <1>3
  <2>2. n - k <= Len(ring) /\ ring[n - k] = k
    BY <2>1, Zenon
  <2>3. n - k \in 1..Len(ring) /\ (n - k) + 1 <= PrevKeyRing
    BY <1>1, <2>1, <2>2
  <2> QED
    BY <2>1, <2>2, <2>3, PushedIs, SMTT(30)
<1> QED
  BY <1>2, <1>3, Zenon

\* The ring holds what the host's frames may still be sealed with.
LEMMA RingsStep ==
  ASSUME Types, Gone, Links, HostKeys, Converges, Rings, [Next]_vars
  PROVE  Rings'
<1> USE HostInP
<1> SUFFICES ASSUME NEW p \in Members, Live(p)', phase'[p] = "keyed",
                    NEW k \in Nat, first'[p] <= k, k < key'[p], key'[p] - k <= PrevKeyRing
             PROVE  key'[p] - k <= Len(prev'[p]) /\ prev'[p][key'[p] - k] = k
  <2>1. first' \in [P -> Nat]
    BY FirstType, Zenon DEF Rings
  <2> QED
    BY <2>1, Zenon DEF Rings
<1>1. ASSUME p \in session, outages \subseteq outages', phase[p] = "keyed", key'[p] = key[p], prev'[p] = prev[p], first' = first
      PROVE  key'[p] - k <= Len(prev'[p]) /\ prev'[p][key'[p] - k] = k
  <2>1. Live(p)
    BY <1>1, Zenon DEF Live, Steady
  <2> QED
    BY <1>1, <2>1, Zenon DEF Rings
<1>2. CASE HostRuns
  <2>1. UNCHANGED <<session, outages, phase, first>>
    BY <1>2, Zenon DEF HostRuns, HandlePake1, HandleLeft, HostIgnores, SendRekey, SwapKey, netVars, keyVars
  <2>2. key'[p] = key[p] /\ prev'[p] = prev[p]
    <3>1. HandlePake1 \/ HandleLeft \/ HostIgnores \/ (\E q \in todo : SendRekey(q)) => key' = key /\ prev' = prev
      BY Zenon DEF HandlePake1, HandleLeft, HostIgnores, SendRekey, keyVars
    <3>2. SwapKey => key'[p] = key[p] /\ prev'[p] = prev[p]
      BY Zenon DEF SwapKey, Install, Types
    <3> QED
      BY <1>2, <3>1, <3>2, Zenon DEF HostRuns
  <2> QED
    BY <1>1, <2>1, <2>2, Zenon DEF Live
<1>3. ASSUME NEW q \in P, Route(q) \/ Drop(q) \/ Resume(q) \/ Seal(q) \/ WriteSealed(q)
      PROVE  key'[p] - k <= Len(prev'[p]) /\ prev'[p][key'[p] - k] = k
  <2>1. UNCHANGED <<session, phase, key, prev, first>> /\ outages \subseteq outages'
    BY <1>3, Zenon DEF Route, Drop, Resume, Seal, WriteSealed, netVars, keyVars
  <2> QED
    BY <1>1, <2>1, Zenon DEF Live
<1>4. ASSUME NEW q \in Members,
             Join(q) \/ Leave(q) \/ GiveUp(q) \/ Evict(q) \/ Disconnect(q) \/ GraceExpires(q)
      PROVE  key'[p] - k <= Len(prev'[p]) /\ prev'[p][key'[p] - k] = k
  <2>1. UNCHANGED <<outages, key, prev, first>> /\ session' \subseteq session \cup {q}
    BY <1>4, Zenon DEF Join, Leave, GiveUp, Evict, Disconnect, GraceExpires, keyVars
  <2>2. phase'[p] = phase[p] /\ (Join(q) => p # q)
    BY <1>4, Zenon DEF Join, Leave, GiveUp, Evict, Disconnect, GraceExpires, keyVars, Types
  <2>3. p \in session' => p \in session
    BY <1>4, <2>1, <2>2, Zenon DEF Leave, GiveUp, Evict, Disconnect, GraceExpires
  <2> QED
    BY <1>1, <2>1, <2>2, <2>3, Zenon DEF Live
<1>5. ASSUME NEW q \in Members, Reads(q)
      PROVE  key'[p] - k <= Len(prev'[p]) /\ prev'[p][key'[p] - k] = k
  <2>1. UNCHANGED <<session, outages>>
    BY <1>5, Zenon DEF Reads, SendPake1, DriveHandshake, MemberReads
  <2> DEFINE f == Head(down[q])
  <2>2. CASE SendPake1(q)
    <3>1. UNCHANGED <<phase, key, prev, first>>
      BY <2>2, Zenon DEF SendPake1, keyVars
    <3> QED
      BY <1>1, <2>1, <3>1, Zenon DEF Live
  <2>3. CASE DriveHandshake(q)
    <3>1. f \in AnyFrame
      BY <2>3, HeadFrame, Zenon DEF DriveHandshake, Receive, Types
    <3> HIDE DEF f
    <3>2. f.key \in Nat
      BY <3>1, Zenon DEF AnyFrame
    <3>3. CASE p # q
      <4>1. phase'[p] = phase[p] /\ key'[p] = key[p] /\ prev' = prev /\ first'[p] = first[p]
        <5>1. \/ UNCHANGED <<phase, key, prev, first>>
              \/ \E ph \in Phases : phase' = [phase EXCEPT ![q] = ph] /\ UNCHANGED <<key, prev, first>>
              \/ \E ph \in Phases : /\ phase' = [phase EXCEPT ![q] = ph] /\ key' = [key EXCEPT ![q] = f.key]
                                    /\ first' = [first EXCEPT ![q] = f.key] /\ prev' = prev
          BY <2>3, Zenon DEF DriveHandshake, f, Phases, keyVars
        <5> QED
          BY <3>3, <5>1, Zenon DEF Types, Rings
      <4>2. Live(p) /\ phase[p] = "keyed"
        BY <2>1, <4>1, Zenon DEF Live, Steady
      <4> QED
        BY <4>1, <4>2, Zenon DEF Rings
    <3>4. CASE p = q
      <4>1. phase[p] # "keyed"
        BY <2>3, <3>4, Zenon DEF DriveHandshake
      <4>2. key'[p] = f.key /\ first' = [first EXCEPT ![p] = f.key]
        BY <2>3, <3>4, <4>1, Zenon DEF DriveHandshake, f, Types, keyVars
      <4>3. first'[p] = f.key
        BY <4>2, Zenon DEF Rings
      <4> QED
        BY <3>2, <4>2, <4>3
    <3> QED
      BY <3>3, <3>4, Zenon
  <2>4. CASE MemberReads(q)
    <3>1. UNCHANGED <<phase, first>> /\ down[q] # <<>>
      BY <2>4, Zenon DEF MemberReads, Receive
    <3>2. Live(p) /\ phase[p] = "keyed"
      BY <2>1, <3>1, Zenon DEF Live, Steady
    <3>3. CASE p # q \/ f.kind # "rekey"
      <4>1. key'[p] = key[p] /\ prev'[p] = prev[p]
        BY <2>4, <3>3, Zenon DEF MemberReads, Install, Types
      <4> QED
        BY <1>1, <2>1, <3>1, <3>2, <4>1, Zenon DEF Live
    <3>4. CASE p = q /\ f.kind = "rekey"
      <4>1. f.key = key[p] + 1
        BY <3>1, <3>2, <3>4, InTurn, Zenon
      <4>2. key'[p] = key[p] + 1 /\ prev'[p] = Pushed(prev[p], key[p])
        BY <2>4, <3>4, <4>1, Zenon DEF MemberReads, Install, Types
      <4>3. prev[p] \in Seq(Nat) /\ key[p] \in Nat
        BY Zenon DEF Types
      <4>4. \A j \in Nat : first[p] <= j /\ j < key[p] /\ key[p] - j <= PrevKeyRing =>
              key[p] - j <= Len(prev[p]) /\ prev[p][key[p] - j] = j
        BY <3>2, Zenon DEF Rings
      <4>5. first[p] <= k /\ k < key[p] + 1 /\ (key[p] + 1) - k <= PrevKeyRing
        BY <3>1, <4>2, Zenon
      <4>6. (key[p] + 1) - k <= Len(Pushed(prev[p], key[p])) /\ Pushed(prev[p], key[p])[(key[p] + 1) - k] = k
        <5> DEFINE ring == prev[p]  n == key[p]  m == first[p]
        <5>1. ring \in Seq(Nat) /\ n \in Nat
          BY <4>3, Zenon
        <5>2. \A j \in Nat : m <= j /\ j < n /\ n - j <= PrevKeyRing => n - j <= Len(ring) /\ ring[n - j] = j
          BY <4>4, Zenon
        <5>3. m <= k /\ k < n + 1 /\ (n + 1) - k <= PrevKeyRing
          BY <4>5, Zenon
        <5> HIDE DEF ring, n, m
        <5>4. (n + 1) - k <= Len(Pushed(ring, n)) /\ Pushed(ring, n)[(n + 1) - k] = k
          BY <5>1, <5>2, <5>3, RingTurns, Zenon
        <5> QED
          BY <5>4, Zenon DEF ring, n
      <4> QED
        BY <4>2, <4>6, Zenon
    <3> QED
      BY <3>3, <3>4, Zenon
  <2> QED
    BY <1>5, <2>2, <2>3, <2>4, Zenon DEF Reads
<1>6. CASE UNCHANGED vars
  <2>1. UNCHANGED <<session, outages, phase, key, prev, first>>
    BY <1>6, Zenon DEF vars, keyVars, netVars
  <2> QED
    BY <1>1, <2>1, Zenon DEF Live
<1> QED
  BY <1>2, <1>3, <1>4, <1>5, <1>6, Zenon DEF Next

-----------------------------------------------------------------------------
(* Survivors converge, and can open what they read.                        *)

KeysInv == Types /\ Gone /\ Links /\ HostKeys /\ Converges /\ Rings

\* All of it holds.
LEMMA KeysInvariance == Spec => []KeysInv
<1>1. Init => KeysInv
  <2>1. Init => Rings
    BY HostInP DEF Init, Rings
  <2> QED
    BY <2>1, TypesInit, GoneInit, LinksInit, HostKeysInit, ConvergesInit, Zenon DEF KeysInv
<1>2. KeysInv /\ [Next]_vars => KeysInv'
  BY TypesStep, GoneStep, LinksStep, HostKeysStep, ConvergesStep, RingsStep, Zenon DEF KeysInv
<1> QED
  BY <1>1, <1>2, PTL DEF Spec

\* rekeyAfterLeave, handleHandshakeDirect and handleRekey together: whoever the
\* host answered or is keyed, and whose link and the host's held, will have read
\* each key in turn, none after the host used it, up to the host's own.
THEOREM SurvivorsConverge == Spec => []KeyOnItsWay
<1>1. KeysInv => KeyOnItsWay
  <2> SUFFICES ASSUME KeysInv, NEW p \in Members, p \in session, Steady(p), phase[p] # "over",
                      p \in pairwise \/ phase[p] = "keyed"
               PROVE  Will(p) = Goal(p)
    BY Zenon DEF KeyOnItsWay, Goal
  <2>1. Live(p)
    BY Zenon DEF Live
  <2>2. IF p \in pairwise THEN Will(p) = Goal(p) ELSE Will(p).phase = "joining"
    BY <2>1, Zenon DEF KeysInv, Converges
  <2>3. phase[p] = "keyed" => Will(p).phase # "joining"
    <3>1. /\ Start(p) \in Clients /\ up[Host] \in Seq(AnyFrame) /\ down[p] \in Seq(AnyFrame)
          /\ Will(p) = AfterAll(Start(p), p, down[p] \o up[Host])
      BY Parts, Zenon DEF KeysInv
    <3> DEFINE c == Start(p)  s == down[p] \o up[Host]
    <3>2. s \in Seq(AnyFrame)
      BY <3>1, TwoQueues, Zenon
    <3>3. c \in Clients /\ c.phase = phase[p]
      BY <3>1, Zenon DEF Start
    <3> HIDE DEF c, s
    <3>4. c.phase # "joining" => AfterAll(c, p, s).phase # "joining"
      BY <3>2, <3>3, NoWayBack, Zenon
    <3> QED
      BY <3>1, <3>3, <3>4, Zenon DEF c, s
  <2> QED
    BY <2>2, <2>3, Zenon
<1> QED
  BY <1>1, KeysInvariance, PTL

\* handlePayload: what a keyed member reads it can open, under its own key or
\* one in the ring, unless the sender is ahead of it or the ring does not reach
\* back; what the host sends always.
THEOREM FramesCanBeOpened == Spec => []FramesOpen
<1>1. KeysInv => FramesOpen
  <2> SUFFICES ASSUME KeysInv, NEW p \in Members, phase[p] = "keyed", p \in session, Steady(p),
                      down[p] # <<>>, Head(down[p]).kind = "sealed",
                      first[p] <= Head(down[p]).key, key[p] - Head(down[p]).key <= PrevKeyRing,
                      Head(down[p]).from # Host => Head(down[p]).key <= key[p]
               PROVE  Head(down[p]).key \in Keys(p)
    BY Zenon DEF FramesOpen
  <2> DEFINE f == Head(down[p])
  <2>1. Live(p)
    BY Zenon DEF Live
  <2>2. f \in AnyFrame
    BY HostInP, HeadFrame, Zenon DEF KeysInv, Types
  <2>3. f.from = Host => f.key <= key[p]
    BY <2>1, InTurn, Zenon DEF KeysInv
  <2> HIDE DEF f
  <2>4. f.key \in Nat /\ key[p] \in Nat /\ f.key <= key[p] /\ prev[p] \in Seq(Nat)
    BY <2>2, <2>3, HostInP, Zenon DEF AnyFrame, KeysInv, Types, f
  <2>5. CASE f.key = key[p]
    BY <2>5, Zenon DEF Keys, f
  <2>6. CASE f.key < key[p]
    <3>1. key[p] - f.key <= Len(prev[p]) /\ prev[p][key[p] - f.key] = f.key
      BY <2>1, <2>4, <2>6, Zenon DEF KeysInv, Rings, f
    <3>2. key[p] - f.key \in 1..Len(prev[p])
      BY <2>4, <2>6, <3>1
    <3>3. f.key \in Range(prev[p])
      BY <2>4, <3>1, <3>2 DEF Range
    <3> QED
      BY <3>3, Zenon DEF Keys, f
  <2> QED
    BY <2>4, <2>5, <2>6
<1> QED
  BY <1>1, KeysInvariance, PTL
==============================================================================
