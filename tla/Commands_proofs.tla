--------------------------- MODULE Commands_proofs ---------------------------
(***************************************************************************)
(* Proofs about Commands for any command lines and any machines.           *)
(*                                                                         *)
(* First the fields of a message, for any texts, then what becomes of the  *)
(* client's message and what a handler and its answer can be, then one     *)
(* inductive invariant, CommandInv, that ties what is on its way, what was *)
(* run and what the client has to the words that were typed.               *)
(***************************************************************************)
EXTENDS Commands, SequenceRecursion, TLAPS

Str == Seq(Token)

-----------------------------------------------------------------------------
(* Fields *)

\* A field and what is behind it, by their positions.
LEMMA JoinedIs ==
  ASSUME NEW f \in Str, NEW r \in Str
  PROVE  /\ Joined(f, r) \in Str /\ Len(Joined(f, r)) = Len(f) + 1 + Len(r)
         /\ \A i \in 1..Len(f) : Joined(f, r)[i] = f[i]
         /\ Joined(f, r)[Len(f) + 1] = Sep
         /\ \A i \in 1..Len(r) : Joined(f, r)[Len(f) + 1 + i] = r[i]
<1> DEFINE g == f \o <<Sep>>
<1>1. /\ g \in Seq(Token) /\ Len(g) = Len(f) + 1 /\ Len(f) \in Nat
      /\ \A i \in 1..Len(f) : g[i] = f[i]
      /\ g[Len(f) + 1] = Sep
  <2>1. Sep \in Token
    BY TokensAssumption
  <2> QED BY <2>1 DEF Str
<1>2. r \in Seq(Token) /\ Len(r) \in Nat
  BY DEF Str
<1>3. Joined(f, r) = g \o r
  BY DEF Joined
<1> HIDE DEF g
<1>4. /\ g \o r \in Seq(Token) /\ Len(g \o r) = Len(g) + Len(r)
      /\ \A i \in 1..Len(g) : (g \o r)[i] = g[i]
      /\ \A i \in 1..Len(r) : (g \o r)[Len(g) + i] = r[i]
  BY <1>1, <1>2
<1>5. \A i \in 1..Len(f) : i \in 1..Len(g)
  BY <1>1
<1>6. Len(f) + 1 \in 1..Len(g)
  BY <1>1
<1> QED BY <1>1, <1>3, <1>4, <1>5, <1>6 DEF Str

\* A field without a separator is taken off what is behind it.
LEMMA TakenOff ==
  ASSUME NEW f \in Str, ~Contains(f, Sep), NEW r \in Str
  PROVE  /\ Joined(f, r) \in Str /\ Contains(Joined(f, r), Sep)
         /\ Before(Joined(f, r)) = f /\ Behind(Joined(f, r)) = r
<1> DEFINE t == Joined(f, r)
           n == Len(f) + 1
<1>1. /\ t \in Str /\ Len(t) = n + Len(r) /\ n \in 1..Len(t) /\ n \in Nat /\ Len(r) \in Nat
      /\ \A i \in 1..n - 1 : t[i] = f[i]
      /\ t[n] = Sep
      /\ \A i \in 1..Len(r) : t[n + i] = r[i]
  <2>1. Len(f) \in Nat /\ Len(r) \in Nat
    BY DEF Str
  <2> HIDE DEF t
  <2>2. /\ t \in Str /\ Len(t) = Len(f) + 1 + Len(r)
        /\ \A i \in 1..Len(f) : t[i] = f[i]
        /\ t[Len(f) + 1] = Sep
        /\ \A i \in 1..Len(r) : t[Len(f) + 1 + i] = r[i]
    BY JoinedIs DEF t
  <2> QED BY <2>1, <2>2
<1>2. \A i \in 1..n - 1 : t[i] # Sep
  <2>1. \A i \in 1..n - 1 : f[i] # Sep
    BY DEF Contains, Str
  <2> QED BY <1>1, <2>1
<1> HIDE DEF t, n
<1>3. Contains(t, Sep)
  BY <1>1 DEF Contains
<1>4. FirstCut(t) = n
  <2>1. DOMAIN t = 1..Len(t)
    BY <1>1 DEF Str
  <2>2. ASSUME NEW i \in DOMAIN t, t[i] = Sep, \A j \in 1..i - 1 : t[j] # Sep
        PROVE  i = n
    <3>1. i \in Nat /\ i >= 1
      BY <1>1, <2>1
    <3>2. ~(i < n)
      BY <1>1, <1>2, <2>2, <3>1
    <3>3. ~(n < i)
      BY <1>1, <2>2, <3>1
    <3> QED BY <1>1, <3>1, <3>2, <3>3
  <2>3. n \in DOMAIN t /\ t[n] = Sep /\ \A j \in 1..n - 1 : t[j] # Sep
    BY <1>1, <1>2, <2>1
  <2>4. \A i \in DOMAIN t : (t[i] = Sep /\ \A j \in 1..i - 1 : t[j] # Sep) <=> i = n
    BY <2>2, <2>3
  <2> QED BY <2>3, <2>4, Zenon DEF FirstCut
<1>5. SubSeq(t, 1, n - 1) = f /\ SubSeq(t, n + 1, Len(t)) = r
  <2>1. f = SubSeq(t, 1, n - 1)
    BY <1>1 DEF Str, n
  <2>2. r = SubSeq(t, n + 1, Len(t))
    BY <1>1 DEF Str
  <2> QED BY <2>1, <2>2
<1> QED BY <1>1, <1>3, <1>4, <1>5 DEF Before, Behind, t

\* A text with a separator has a first one.
LEMMA FirstOne ==
  ASSUME NEW t \in Str, Contains(t, Sep)
  PROVE  \E f \in Str, r \in Str :
           /\ t = Joined(f, r) /\ ~Contains(f, Sep)
           /\ \A e : Contains(f, e) \/ Contains(r, e) => Contains(t, e)
<1> DEFINE T == {i \in Nat : i \in 1..Len(t) /\ t[i] = Sep}
<1>1. T \subseteq Nat /\ T # {}
  BY DEF Contains, Str
<1>2. PICK n \in T : \A i \in T : n <= i
  BY <1>1, LeastNumber
<1>3. n \in 1..Len(t) /\ t[n] = Sep /\ Len(t) \in Nat
  BY DEF Str
<1>4. \A j \in 1..n - 1 : t[j] # Sep
  <2> SUFFICES ASSUME NEW j \in 1..n - 1, t[j] = Sep PROVE FALSE
    OBVIOUS
  <2>1. j \in T
    BY <1>3
  <2> QED BY <1>2, <1>3, <2>1
<1> DEFINE f == SubSeq(t, 1, n - 1)
           r == SubSeq(t, n + 1, Len(t))
<1>5. /\ f \in Str /\ Len(f) = n - 1 /\ \A i \in 1..n - 1 : f[i] = t[i]
      /\ r \in Str /\ Len(r) = Len(t) - n /\ \A i \in 1..Len(t) - n : r[i] = t[n + i]
  BY <1>3 DEF Str
<1> HIDE DEF f, r, T
<1>6. ~Contains(f, Sep)
  BY <1>4, <1>5 DEF Contains
<1>7. \A e : Contains(f, e) \/ Contains(r, e) => Contains(t, e)
  <2>1. \A i \in 1..n - 1 : i \in 1..Len(t)
    BY <1>3
  <2>2. \A i \in 1..Len(t) - n : n + i \in 1..Len(t)
    BY <1>3
  <2> QED BY <1>5, <2>1, <2>2 DEF Contains
<1>8. t = Joined(f, r)
  <2> DEFINE u == Joined(f, r)
  <2>1. /\ u \in Str /\ Len(u) = Len(f) + 1 + Len(r)
        /\ \A i \in 1..Len(f) : u[i] = f[i]
        /\ u[Len(f) + 1] = Sep
        /\ \A i \in 1..Len(r) : u[Len(f) + 1 + i] = r[i]
    BY <1>5, JoinedIs
  <2> HIDE DEF u
  <2>2. Len(u) = Len(t) /\ Len(f) + 1 = n
    BY <1>3, <1>5, <2>1
  <2>3. ASSUME NEW i \in 1..Len(t) PROVE u[i] = t[i]
    <3>1. CASE i < n
      BY <1>3, <1>5, <2>1, <3>1
    <3>2. CASE i = n
      BY <1>3, <2>1, <2>2, <3>2
    <3>3. CASE i > n
      <4> DEFINE j == i - n
      <4>1. j \in 1..Len(t) - n /\ n + j = i
        BY <1>3, <3>3
      <4> HIDE DEF j
      <4> QED BY <1>5, <2>1, <2>2, <4>1
    <3> QED BY <1>3, <3>1, <3>2, <3>3
  <2>4. u = t
    BY <2>1, <2>2, <2>3 DEF Str
  <2> QED BY <2>4 DEF u
<1> QED BY <1>5, <1>6, <1>7, <1>8

\* What a field and the remainder are made of.
LEMMA BeforeBehind ==
  ASSUME NEW t \in Str
  PROVE  /\ Before(t) \in Str /\ Behind(t) \in Str /\ ~Contains(Before(t), Sep)
         /\ \A e : Contains(Before(t), e) \/ Contains(Behind(t), e) => Contains(t, e)
<1>1. CASE Contains(t, Sep)
  <2>1. PICK f \in Str, r \in Str :
           /\ t = Joined(f, r) /\ ~Contains(f, Sep)
           /\ \A e : Contains(f, e) \/ Contains(r, e) => Contains(t, e)
    BY <1>1, FirstOne
  <2>2. Before(t) = f /\ Behind(t) = r
    BY <2>1, TakenOff
  <2> QED BY <2>1, <2>2
<1>2. CASE ~Contains(t, Sep)
  <2>1. Before(t) = t /\ Behind(t) = <<>>
    BY <1>2 DEF Before, Behind
  <2>2. <<>> \in Str /\ \A e : ~Contains(<<>>, e)
    BY DEF Contains, Str
  <2> QED BY <1>2, <2>1, <2>2
<1> QED BY <1>1, <1>2

\* A field with a separator is two.
LEMMA JoinedTwice ==
  ASSUME NEW a \in Str, NEW b \in Str, NEW r \in Str
  PROVE  Joined(Joined(a, b), r) = Joined(a, Joined(b, r))
BY DEF Joined, Str, Sep

LEMMA ContainsEither ==
  ASSUME NEW a \in Str, NEW b \in Str, NEW e
  PROVE  Contains(a \o b, e) <=> Contains(a, e) \/ Contains(b, e)
<1> DEFINE w == a \o b
<1>1. /\ Len(w) = Len(a) + Len(b) /\ Len(a) \in Nat /\ Len(b) \in Nat
      /\ \A i \in 1..Len(a) : w[i] = a[i]
      /\ \A i \in 1..Len(b) : w[Len(a) + i] = b[i]
  BY DEF Str
<1> HIDE DEF w
<1>2. ASSUME NEW i \in 1..Len(w), w[i] = e PROVE Contains(a, e) \/ Contains(b, e)
  <2>1. CASE i <= Len(a)
    BY <1>1, <1>2, <2>1 DEF Contains
  <2>2. CASE i > Len(a)
    <3> DEFINE j == i - Len(a)
    <3>1. j \in 1..Len(b) /\ Len(a) + j = i
      BY <1>1, <2>2
    <3> HIDE DEF j
    <3> QED BY <1>1, <1>2, <3>1 DEF Contains
  <2> QED BY <1>1, <2>1, <2>2
<1>3. ASSUME NEW i \in 1..Len(a), a[i] = e PROVE Contains(w, e)
  BY <1>1, <1>3 DEF Contains
<1>4. ASSUME NEW i \in 1..Len(b), b[i] = e PROVE Contains(w, e)
  <2>1. Len(a) + i \in 1..Len(w)
    BY <1>1
  <2> QED BY <1>1, <1>4, <2>1 DEF Contains
<1>5. Contains(w, e) <=> Contains(a, e) \/ Contains(b, e)
  BY <1>2, <1>3, <1>4 DEF Contains
<1> QED BY <1>5 DEF w

\* One token is a text.
LEMMA OneToken ==
  ASSUME NEW x \in Token
  PROVE  <<x>> \in Str /\ <<x>> # <<>> /\ \A e : Contains(<<x>>, e) <=> e = x
BY DEF Contains, Str

\* The first field of a text that begins with f is made of f, and what is behind
\* it is the other text, if f holds no separator, or else it begins with a part of f.
LEMMA Heads ==
  ASSUME NEW f \in Str, NEW r \in Str
  PROVE  /\ \A e : Contains(Before(Joined(f, r)), e) => Contains(f, e)
         /\ ~Contains(f, Sep) => Behind(Joined(f, r)) = r
         /\ Contains(f, Sep) =>
              \E b \in Str : /\ Behind(Joined(f, r)) = Joined(b, r)
                             /\ \A e : Contains(b, e) => Contains(f, e)
<1>1. CASE ~Contains(f, Sep)
  BY <1>1, TakenOff
<1>2. CASE Contains(f, Sep)
  <2>1. PICK a \in Str, b \in Str :
          /\ f = Joined(a, b) /\ ~Contains(a, Sep)
          /\ \A e : Contains(a, e) \/ Contains(b, e) => Contains(f, e)
    BY <1>2, FirstOne
  <2>2. Joined(f, r) = Joined(a, Joined(b, r)) /\ Joined(b, r) \in Str
    BY <2>1, JoinedTwice, JoinedIs
  <2>3. Before(Joined(f, r)) = a /\ Behind(Joined(f, r)) = Joined(b, r)
    BY <2>1, <2>2, TakenOff
  <2> QED BY <1>2, <2>1, <2>3
<1> QED BY <1>1, <1>2

\* With a separator in its id or its target, the fifth field of a message is made
\* of their tokens.
LEMMA Shifted ==
  ASSUME NEW id \in Str, NEW target \in Str, NEW r \in Str,
         Contains(id, Sep) \/ Contains(target, Sep),
         NEW e, Contains(Before(Behind(Behind(Joined(id, Joined(target, r))))), e)
  PROVE  Contains(id, e) \/ Contains(target, e)
<1> DEFINE t == Joined(target, r)
<1>1. t \in Str /\ \A b \in Str : Joined(b, t) \in Str
  BY JoinedIs
<1>2. CASE Contains(id, Sep)
  <2>1. PICK b \in Str : /\ Behind(Joined(id, t)) = Joined(b, t)
                         /\ \A x : Contains(b, x) => Contains(id, x)
    BY <1>1, <1>2, Heads
  <2>2. CASE Contains(b, Sep)
    <3>1. PICK c \in Str : /\ Behind(Joined(b, t)) = Joined(c, t)
                           /\ \A x : Contains(c, x) => Contains(b, x)
      BY <1>1, <2>2, Heads
    <3>2. Contains(Before(Joined(c, t)), e)
      BY <2>1, <3>1
    <3>3. Contains(c, e)
      BY <1>1, <3>2, Heads
    <3> QED BY <2>1, <3>1, <3>3
  <2>3. CASE ~Contains(b, Sep)
    <3>1. Behind(Joined(b, t)) = t
      BY <1>1, <2>3, Heads
    <3>2. Contains(Before(t), e)
      BY <2>1, <3>1
    <3> QED BY <3>2, Heads
  <2> QED BY <2>2, <2>3
<1>3. CASE ~Contains(id, Sep) /\ Contains(target, Sep)
  <2>1. Behind(Joined(id, t)) = t
    BY <1>1, <1>3, Heads
  <2>2. PICK b \in Str : /\ Behind(t) = Joined(b, r)
                         /\ \A x : Contains(b, x) => Contains(target, x)
    BY <1>3, Heads
  <2>3. Contains(Before(Joined(b, r)), e)
    BY <2>1, <2>2
  <2>4. Contains(b, e)
    BY <2>3, Heads
  <2> QED BY <2>2, <2>4
<1> QED BY <1>2, <1>3

Message(a, b, c, d, h, p) == Joined(a, Joined(b, Joined(c, Joined(d, Joined(h, p)))))

\* A message is taken apart as it was put together, when no field in front of the
\* payload holds a separator.
LEMMA RoundTrip ==
  ASSUME NEW a \in Str, NEW b \in Str, NEW c \in Str, NEW d \in Str, NEW h \in Str, NEW p \in Str,
         ~Contains(a, Sep), ~Contains(b, Sep), ~Contains(c, Sep), ~Contains(d, Sep), ~Contains(h, Sep)
  PROVE  /\ Message(a, b, c, d, h, p) \in Str
         /\ Contains(Remaining(Message(a, b, c, d, h, p))[5], Sep)
         /\ Deserialized(Message(a, b, c, d, h, p)) =
              [cmd |-> a, kind |-> b, id |-> c, targetOrStatus |-> d,
                                 chunk |-> h, payload |-> p]
<1> DEFINE m5 == Joined(h, p)
           m4 == Joined(d, m5)
           m3 == Joined(c, m4)
           m2 == Joined(b, m3)
           msg == Message(a, b, c, d, h, p)
<1>1. m5 \in Str /\ Contains(m5, Sep) /\ Before(m5) = h /\ Behind(m5) = p
  BY TakenOff
<1> HIDE DEF m5
<1>2. m4 \in Str /\ Before(m4) = d /\ Behind(m4) = m5
  BY <1>1, TakenOff
<1> HIDE DEF m4
<1>3. m3 \in Str /\ Before(m3) = c /\ Behind(m3) = m4
  BY <1>2, TakenOff
<1> HIDE DEF m3
<1>4. m2 \in Str /\ Before(m2) = b /\ Behind(m2) = m3
  BY <1>3, TakenOff
<1>5. msg = Joined(a, m2)
  BY DEF m2, m3, m4, m5, Message
<1> HIDE DEF m2, msg
<1>6. msg \in Str /\ Before(msg) = a /\ Behind(msg) = m2
  BY <1>4, <1>5, TakenOff
<1>7. Remaining(msg) = <<msg, m2, m3, m4, m5, p>>
  BY <1>1, <1>2, <1>3, <1>4, <1>6 DEF Remaining
<1>8. /\ msg \in Str /\ Contains(Remaining(msg)[5], Sep)
      /\ Deserialized(msg) = [cmd |-> a, kind |-> b, id |-> c, targetOrStatus |-> d,
                              chunk |-> h, payload |-> p]
  BY <1>1, <1>2, <1>3, <1>4, <1>6, <1>7 DEF Deserialized, Field, Rest
<1> QED BY <1>8 DEF msg

\* The fields of any message.
LEMMA FieldsAre ==
  ASSUME NEW msg \in Str
  PROVE  /\ \A k \in 1..5 : Field(msg, k) \in Str /\ ~Contains(Field(msg, k), Sep)
         /\ Rest(msg) \in Str
         /\ \A e : Contains(Rest(msg), e) \/ (\E k \in 1..5 : Contains(Field(msg, k), e)) => Contains(msg, e)
<1> DEFINE m2 == Behind(msg)
           m3 == Behind(m2)
           m4 == Behind(m3)
           m5 == Behind(m4)
           m6 == Behind(m5)
<1>1. Remaining(msg) = <<msg, m2, m3, m4, m5, m6>>
  BY DEF Remaining
<1>2. m2 \in Str /\ \A e : Contains(m2, e) => Contains(msg, e)
  BY BeforeBehind
<1>3. m3 \in Str /\ \A e : Contains(m3, e) => Contains(m2, e)
  BY <1>2, BeforeBehind
<1>4. m4 \in Str /\ \A e : Contains(m4, e) => Contains(m3, e)
  BY <1>3, BeforeBehind
<1>5. m5 \in Str /\ \A e : Contains(m5, e) => Contains(m4, e)
  BY <1>4, BeforeBehind
<1>6. m6 \in Str /\ \A e : Contains(m6, e) => Contains(m5, e)
  BY <1>5, BeforeBehind
<1> HIDE DEF m2, m3, m4, m5, m6
<1>7. ASSUME NEW k \in 1..5
      PROVE  /\ Remaining(msg)[k] \in Str
             /\ \A e : Contains(Remaining(msg)[k], e) => Contains(msg, e)
  BY <1>1, <1>2, <1>3, <1>4, <1>5
<1>8. ASSUME NEW k \in 1..5
      PROVE  /\ Field(msg, k) \in Str /\ ~Contains(Field(msg, k), Sep)
             /\ \A e : Contains(Field(msg, k), e) => Contains(msg, e)
  BY <1>7, BeforeBehind DEF Field
<1>9. Rest(msg) = m6
  BY <1>1 DEF Rest
<1> QED BY <1>2, <1>3, <1>4, <1>5, <1>6, <1>8, <1>9

-----------------------------------------------------------------------------
(* The words of a command line *)

\* Without one of its words a command line is still made of texts.
LEMMA Removed ==
  ASSUME NEW s \in Seq(Text), NEW e
  PROVE  RemoveFirst(s, e) \in Seq(Text)
<1>1. CASE \E i \in 1..Len(s) : s[i] = e
  <2> DEFINE I == {i \in 1..Len(s) : s[i] = e}
             m == SelectInSeq(s, LAMBDA v : v = e)
  <2>1. m = Min(I)
    BY <1>1 DEF SelectInSeq
  <2>2. m \in I
    <3>1. I \subseteq Nat /\ I # {}
      BY <1>1
    <3> HIDE DEF I
    <3>2. \E k \in I : \A n \in I : k <= n
      BY <3>1, LeastNumber
    <3>3. (CHOOSE k \in I : \A n \in I : k <= n) \in I
      BY <3>2
    <3> QED BY <2>1, <3>3 DEF Min
  <2> HIDE DEF m
  <2>3. RemoveFirst(s, e) = SubSeq(s, 1, m - 1) \o SubSeq(s, m + 1, Len(s))
    BY <1>1 DEF RemoveFirst, RemoveAt, m
  <2>4. m \in 1..Len(s) /\ Len(s) \in Nat
    BY <2>2
  <2>5. SubSeq(s, 1, m - 1) \in Seq(Text) /\ SubSeq(s, m + 1, Len(s)) \in Seq(Text)
    BY <2>4
  <2> QED BY <2>3, <2>5
<1>2. CASE ~ \E i \in 1..Len(s) : s[i] = e
  <2>1. RemoveFirst(s, e) = s
    BY <1>2, Zenon DEF RemoveFirst
  <2> QED BY <2>1
<1> QED BY <1>1, <1>2

\* A line and a machine as they may be.
Given == line \in Lines /\ world \in World

LEMMA WordsAre ==
  ASSUME Given
  PROVE  Words \in Seq(Text) /\ line.me \in Text
<1>1. line.me \in Text /\ line.words \in Seq(Text)
  BY CommandsAssumption DEF Given
<1>2. RemoveFirst(line.words, Json) \in Seq(Text)
  BY <1>1, Removed
<1> QED BY <1>1, <1>2, Removed DEF Words

LEMMA Texts ==
  /\ Text \subseteq Str
  /\ \A s \in Text : ~Contains(s, "zstd")
  /\ \A s, t \in Text : s \o t \in Text
  /\ \A x \in Token : x # "zstd" => <<x>> \in Text
  /\ <<>> \in Text
<1>1. Text \subseteq Str
  BY DEF Text, Str
<1>2. \A s \in Text : ~Contains(s, "zstd")
  BY DEF Text, Contains
<1>3. \A s, t \in Text : s \o t \in Text
  BY DEF Text
<1>4. \A x \in Token : x # "zstd" => <<x>> \in Text
  BY DEF Text
<1>5. <<>> \in Text
  BY DEF Text
<1> QED BY <1>1, <1>2, <1>3, <1>4, <1>5

\* The words that a readable command needs are there.
LEMMA ReadableWords ==
  ASSUME Given, Readable
  PROVE  /\ Word \in {"ls", "download", "cp", "glob", "http", "tcp", "scripts"}
         /\ Shell \in Text /\ NumArgs \in Nat
         /\ \A i \in 1..NumArgs : Arg(i) \in Text
         /\ NumArgs >= 1
         /\ Word = "http" => NumArgs >= 2 /\ Arg(1) \in HttpVerbs
         /\ Word = "tcp" => NumArgs >= 3
<1>1. Words \in Seq(Text) /\ Len(Words) \in Nat
  BY WordsAre
<1>2. Len(Words) >= 2 /\ NumArgs >= ArgsNeeded[Word] /\ Word \in DOMAIN ArgsNeeded
  BY DEF Readable, Known
<1>3. DOMAIN ArgsNeeded = {"ls", "download", "cp", "glob", "http", "tcp", "scripts"}
  BY DEF ArgsNeeded
<1>4. /\ ArgsNeeded["ls"] = 1 /\ ArgsNeeded["download"] = 1 /\ ArgsNeeded["cp"] = 1
      /\ ArgsNeeded["glob"] = 1 /\ ArgsNeeded["http"] = 2 /\ ArgsNeeded["tcp"] = 3
      /\ ArgsNeeded["scripts"] = 1
  BY DEF ArgsNeeded
<1>5. NumArgs = Len(Words) - 2
  BY DEF NumArgs
<1>6. /\ NumArgs >= 1
      /\ Word = "http" => NumArgs >= 2
      /\ Word = "tcp" => NumArgs >= 3
  <2>1. ArgsNeeded[Word] \in {1, 2, 3}
    BY <1>2, <1>3, <1>4
  <2> QED BY <1>1, <1>2, <1>4, <1>5, <2>1
<1>7. \A i \in 1..NumArgs : Words[i + 2] \in Text
  <2>1. \A i \in 1..NumArgs : i + 2 \in 1..Len(Words)
    BY <1>1, <1>5
  <2> HIDE DEF Words, NumArgs
  <2> QED BY <1>1, <2>1
<1>8. Word = "http" => Arg(1) \in HttpVerbs
  BY DEF Readable
<1>9. Words[1] \in Text
  BY <1>1, <1>2
<1> QED BY <1>1, <1>2, <1>3, <1>5, <1>6, <1>7, <1>8, <1>9 DEF Arg, Shell

-----------------------------------------------------------------------------
(* The request *)

LEMMA PayloadIs ==
  ASSUME Given, Readable
  PROVE  RequestPayload \in Text
<1>1. /\ Word \in {"ls", "download", "cp", "glob", "http", "tcp", "scripts"}
      /\ NumArgs \in Nat /\ NumArgs >= 1
      /\ \A i \in 1..NumArgs : Arg(i) \in Text
      /\ Word = "http" => NumArgs >= 2
      /\ Word = "tcp" => NumArgs >= 3
  BY ReadableWords
<1>2. <<"{">> \in Text /\ <<>> \in Text
  BY Texts, TokensAssumption
<1>3. CASE Word \in {"ls", "download", "cp", "glob"}
  <2>1. RequestPayload = Arg(1)
    BY <1>3 DEF RequestPayload
  <2> QED BY <1>1, <2>1
<1>4. CASE Word = "http"
  <2> DEFINE body == IF NumArgs > 2 THEN Arg(3) ELSE <<>>
  <2>1. RequestPayload = <<"{">> \o Arg(1) \o Arg(2) \o body
    BY <1>4 DEF RequestPayload
  <2>2. Arg(1) \in Text /\ Arg(2) \in Text /\ body \in Text
    <3>1. 1 \in 1..NumArgs /\ 2 \in 1..NumArgs /\ (NumArgs > 2 => 3 \in 1..NumArgs)
      BY <1>1, <1>4
    <3> QED BY <1>1, <1>2, <3>1
  <2> HIDE DEF body
  <2>3. <<"{">> \o Arg(1) \in Text
    BY <1>2, <2>2, Texts
  <2>4. <<"{">> \o Arg(1) \o Arg(2) \in Text
    BY <2>2, <2>3, Texts
  <2> QED BY <2>1, <2>2, <2>4, Texts
<1>5. CASE Word = "tcp"
  <2>1. RequestPayload = <<"{">> \o Arg(1) \o Arg(2) \o Arg(3)
    BY <1>5 DEF RequestPayload
  <2>2. Arg(1) \in Text /\ Arg(2) \in Text /\ Arg(3) \in Text
    BY <1>1, <1>5
  <2>3. <<"{">> \o Arg(1) \in Text
    BY <1>2, <2>2, Texts
  <2>4. <<"{">> \o Arg(1) \o Arg(2) \in Text
    BY <2>2, <2>3, Texts
  <2> QED BY <2>1, <2>2, <2>4, Texts
<1>6. CASE Word = "scripts"
  <2>1. RequestPayload = <<"{">> \o Arg(1)
    BY <1>6 DEF RequestPayload
  <2>2. 1 \in 1..NumArgs
    BY <1>1
  <2>3. Arg(1) \in Text
    BY <1>1, <2>2
  <2>4. <<"{">> \o Arg(1) \in Text
    BY <1>2, <2>3, Texts
  <2> QED BY <2>1, <2>4
<1> QED BY <1>1, <1>3, <1>4, <1>5, <1>6

\* The message a client makes of its words.
Typed == RequestMessage(RequestCmd, MessageId(line.me), ShellTarget(Shell), RequestPayload)

\* The fields of it that a text from elsewhere can only be.
LEMMA TypedFields ==
  ASSUME Given, Readable
  PROVE  /\ RequestCmd \in Str /\ ~Contains(RequestCmd, Sep)
         /\ MessageId(line.me) \in Str /\ ShellTarget(Shell) \in Str /\ RequestPayload \in Str
         /\ \A e : Contains(MessageId(line.me), e) <=> Contains(line.me, e) \/ e = ":random"
         /\ \A e : Contains(ShellTarget(Shell), e) <=> e = "shell:" \/ Contains(Shell, e)
<1>1. line.me \in Str /\ Shell \in Str /\ RequestPayload \in Str
  BY WordsAre, ReadableWords, PayloadIs, Texts
<1>2. ":random" \in Token /\ "shell:" \in Token
  BY TokensAssumption
<1>3. /\ MessageId(line.me) \in Str
      /\ \A e : Contains(MessageId(line.me), e) <=> Contains(line.me, e) \/ e = ":random"
  <2>1. /\ <<":random">> \in Str
        /\ \A e : Contains(<<":random">>, e) <=> e = ":random"
    BY <1>2, OneToken
  <2>2. \A e : Contains(line.me \o <<":random">>, e) <=> Contains(line.me, e) \/ Contains(<<":random">>, e)
    BY <1>1, <2>1, ContainsEither
  <2>3. line.me \o <<":random">> \in Str
    BY <1>1, <2>1 DEF Str
  <2> QED BY <2>1, <2>2, <2>3 DEF MessageId
<1>4. /\ ShellTarget(Shell) \in Str
      /\ \A e : Contains(ShellTarget(Shell), e) <=> e = "shell:" \/ Contains(Shell, e)
  <2>1. /\ <<"shell:">> \in Str
        /\ \A e : Contains(<<"shell:">>, e) <=> e = "shell:"
    BY <1>2, OneToken
  <2>2. \A e : Contains(<<"shell:">> \o Shell, e) <=> Contains(<<"shell:">>, e) \/ Contains(Shell, e)
    BY <1>1, <2>1, ContainsEither
  <2>3. <<"shell:">> \o Shell \in Str
    BY <1>1, <2>1 DEF Str
  <2> QED BY <2>1, <2>2, <2>3 DEF ShellTarget
<1>5. RequestCmd \in Str /\ ~Contains(RequestCmd, Sep)
  <2>1. Word \in {"ls", "download", "cp", "glob", "http", "tcp", "scripts"}
    BY ReadableWords
  <2>2. Word \in Token /\ "download" \in Token
    BY <2>1, TokensAssumption DEF ArgsNeeded
  <2>3. RequestCmd = <<Word>> \/ RequestCmd = <<"download">>
    BY DEF RequestCmd
  <2>4. Word # Sep /\ "download" # Sep
    BY <2>1 DEF Sep
  <2> QED BY <2>2, <2>3, <2>4, OneToken
<1> QED BY <1>1, <1>3, <1>4, <1>5

\* The command and the kind of a request come out as they went in, whatever is
\* behind them.
LEMMA FirstFields ==
  ASSUME NEW cmd \in Str, ~Contains(cmd, Sep), NEW id \in Str, NEW target \in Str, NEW p \in Str
  PROVE  /\ RequestMessage(cmd, id, target, p) \in Str
         /\ Field(RequestMessage(cmd, id, target, p), 1) = cmd
         /\ Field(RequestMessage(cmd, id, target, p), 2) = <<"req">>
         /\ Field(RequestMessage(cmd, id, target, p), 5)
              = Before(Behind(Behind(Joined(id, Joined(target, Joined(<<"last">>, p))))))
<1>1. <<"req">> \in Str /\ ~Contains(<<"req">>, Sep) /\ <<"last">> \in Str
  BY OneToken, TokensAssumption DEF Sep
<1> DEFINE m == RequestMessage(cmd, id, target, p)
           m3 == Joined(id, Joined(target, Joined(<<"last">>, p)))
           m2 == Joined(<<"req">>, m3)
<1>2. m3 \in Str
  BY <1>1, JoinedIs
<1> HIDE DEF m3
<1>3. m2 \in Str /\ Before(m2) = <<"req">> /\ Behind(m2) = m3
  BY <1>1, <1>2, TakenOff
<1>4. m = Joined(cmd, m2)
  BY DEF RequestMessage, m3
<1> HIDE DEF m2, m
<1>5. m \in Str /\ Before(m) = cmd /\ Behind(m) = m2
  BY <1>3, <1>4, TakenOff
<1>6. /\ Remaining(m)[1] = m /\ Remaining(m)[2] = Behind(m)
      /\ Remaining(m)[5] = Behind(Behind(Behind(Behind(m))))
  BY DEF Remaining
<1>7. Field(m, 1) = cmd /\ Field(m, 2) = <<"req">> /\ Field(m, 5) = Before(Behind(Behind(m3)))
  BY <1>3, <1>5, <1>6 DEF Field
<1> QED BY <1>5, <1>7 DEF m, m3

\* What becomes of the message: its first fields always arrive; all of it does when
\* no id holds a separator; and an id that holds one spoils the mark of the last
\* chunk, unless it brings one of its own.
LEMMA TypedArrives ==
  ASSUME Given, Readable
  PROVE  /\ Typed \in Str /\ Typed # <<>>
         /\ Deserialized(Typed).cmd = RequestCmd /\ Deserialized(Typed).kind = <<"req">>
         /\ ~Contains(line.me, Sep) /\ ~Contains(Shell, Sep) =>
              /\ Deserializes(Typed)
              /\ Deserialized(Typed) =
                   [cmd |-> RequestCmd, kind |-> <<"req">>, id |-> MessageId(line.me),
                    targetOrStatus |-> ShellTarget(Shell), chunk |-> <<"last">>,
                    payload |-> RequestPayload]
         /\ Deserialized(Typed).chunk = <<"last">> =>
              \/ ~Contains(line.me, Sep) /\ ~Contains(Shell, Sep)
              \/ Contains(line.me, "last") \/ Contains(Shell, "last")
<1> DEFINE cmd == RequestCmd
           id == MessageId(line.me)
           target == ShellTarget(Shell)
           p == RequestPayload
<1>1. /\ cmd \in Str /\ ~Contains(cmd, Sep)
      /\ id \in Str /\ target \in Str /\ p \in Str
      /\ \A e : Contains(id, e) <=> Contains(line.me, e) \/ e = ":random"
      /\ \A e : Contains(target, e) <=> e = "shell:" \/ Contains(Shell, e)
  BY TypedFields
<1>2. Typed = RequestMessage(cmd, id, target, p)
  BY DEF Typed
<1>3. /\ <<"req">> \in Str /\ ~Contains(<<"req">>, Sep)
      /\ <<"last">> \in Str /\ ~Contains(<<"last">>, Sep) /\ Contains(<<"last">>, "last")
  BY OneToken, TokensAssumption DEF Sep
<1>4. (~Contains(line.me, Sep) => ~Contains(id, Sep)) /\ (~Contains(Shell, Sep) => ~Contains(target, Sep))
  BY <1>1 DEF Sep
<1>5. /\ (Contains(line.me, Sep) => Contains(id, Sep))
      /\ (Contains(Shell, Sep) => Contains(target, Sep))
  BY <1>1
<1>6. /\ Contains(id, "last") => Contains(line.me, "last")
      /\ Contains(target, "last") => Contains(Shell, "last")
  BY <1>1
<1> HIDE DEF cmd, id, target, p
<1>7. /\ Typed \in Str /\ Field(Typed, 1) = cmd /\ Field(Typed, 2) = <<"req">>
      /\ Field(Typed, 5) = Before(Behind(Behind(Joined(id, Joined(target, Joined(<<"last">>, p))))))
  BY <1>1, <1>2, FirstFields
<1>8. Deserialized(Typed).cmd = cmd /\ Deserialized(Typed).kind = <<"req">>
  BY <1>7 DEF Deserialized
<1>9. Typed # <<>>
  <2>1. ~Contains(<<>>, Sep)
    BY DEF Contains
  <2>2. Before(<<>>) = <<>> /\ Behind(<<>>) = <<>>
    BY <2>1 DEF Before, Behind
  <2>3. Field(<<>>, 2) = <<>>
    BY <2>2 DEF Field, Remaining
  <2>4. <<"req">> # <<>>
    OBVIOUS
  <2> QED BY <1>7, <2>3, <2>4
<1>10. ASSUME ~Contains(line.me, Sep), ~Contains(Shell, Sep)
       PROVE  /\ Deserializes(Typed)
              /\ Deserialized(Typed) =
                   [cmd |-> cmd, kind |-> <<"req">>, id |-> id,
                    targetOrStatus |-> target, chunk |-> <<"last">>, payload |-> p]
  <2>1. ~Contains(id, Sep) /\ ~Contains(target, Sep)
    BY <1>4, <1>10
  <2>2. Typed = Message(cmd, <<"req">>, id, target, <<"last">>, p)
    BY <1>2 DEF RequestMessage, Message
  <2>3. /\ Contains(Remaining(Typed)[5], Sep)
        /\ Deserialized(Typed) =
             [cmd |-> cmd, kind |-> <<"req">>, id |-> id,
              targetOrStatus |-> target, chunk |-> <<"last">>, payload |-> p]
    BY <1>1, <1>3, <2>1, <2>2, RoundTrip
  <2>4. Field(Typed, 5) = <<"last">>
    <3>1. Deserialized(Typed).chunk = Field(Typed, 5)
      BY DEF Deserialized
    <3> QED BY <2>3, <3>1
  <2>5. Field(Typed, 2) # <<"res">>
    BY <1>7
  <2> QED BY <1>7, <2>3, <2>4, <2>5 DEF Deserializes
<1>11. ASSUME Deserialized(Typed).chunk = <<"last">>,
              Contains(line.me, Sep) \/ Contains(Shell, Sep)
       PROVE  Contains(line.me, "last") \/ Contains(Shell, "last")
  <2>1. Contains(id, Sep) \/ Contains(target, Sep)
    BY <1>5, <1>11
  <2>2. Field(Typed, 5) = <<"last">>
    BY <1>11 DEF Deserialized
  <2> DEFINE r == Joined(<<"last">>, p)
  <2>3. r \in Str
    BY <1>1, <1>3, JoinedIs
  <2>4. Contains(Before(Behind(Behind(Joined(id, Joined(target, r))))), "last")
    BY <1>3, <1>7, <2>2
  <2> HIDE DEF r
  <2>5. Contains(id, "last") \/ Contains(target, "last")
    BY <1>1, <2>1, <2>3, <2>4, Shifted
  <2> QED BY <1>6, <2>5
<1> QED BY <1>7, <1>8, <1>9, <1>10, <1>11 DEF cmd, id, target, p

-----------------------------------------------------------------------------
(* The answer *)

LEMMA Bodies ==
  ASSUME Given
  PROVE  Contents(world.body) \in Text
<1>1. world.body \in Token /\ world.body # "zstd"
  BY DEF Given, World
<1>2. Contents(world.body) = <<>> \/ Contents(world.body) = <<world.body>>
  BY DEF Contents
<1> QED BY <1>1, <1>2, Texts

LEMMA Added ==
  ASSUME NEW s \in Str, NEW x \in Token
  PROVE  /\ s \o <<x>> \in Str /\ Len(s \o <<x>>) = Len(s) + 1 /\ Len(s) \in Nat
         /\ \A i \in 1..Len(s) : (s \o <<x>>)[i] = s[i]
         /\ (s \o <<x>>)[Len(s) + 1] = x
BY DEF Str

\* Odd names are replaced where they stand.
LEMMA Replaced ==
  ASSUME NEW s \in Str, ~Contains(s, "odd")
  PROVE  /\ ReplaceAll(s, "odd", "") = s
         /\ ReplaceAll(s \o <<"odd">>, "odd", "") = s \o <<"">>
<1>1. \A i \in 1..Len(s) : s[i] # "odd"
  BY DEF Contains
<1>2. s = [i \in 1..Len(s) |-> s[i]] /\ Len(s) \in Nat
  BY DEF Str
<1>3. ReplaceAll(s, "odd", "") = s
  BY <1>1, <1>2 DEF ReplaceAll
<1> DEFINE u == s \o <<"odd">>
           v == s \o <<"">>
           n == Len(s)
<1>4. /\ u \in Str /\ v \in Str /\ Len(u) = n + 1 /\ Len(v) = n + 1 /\ n \in Nat
      /\ \A i \in 1..n : u[i] = s[i] /\ v[i] = s[i]
      /\ u[n + 1] = "odd" /\ v[n + 1] = ""
  <2>1. "odd" \in Token /\ "" \in Token
    BY TokensAssumption
  <2> QED BY <2>1, Added
<1>5. \A i \in 1..n + 1 : i \in 1..n \/ i = n + 1
  BY <1>2
<1> HIDE DEF u, v
<1>6. \A i \in 1..n + 1 : v[i] = IF u[i] = "odd" THEN "" ELSE u[i]
  BY <1>1, <1>4, <1>5
<1>7. v = [i \in 1..Len(v) |-> v[i]]
  <2>1. v \in Seq(Token)
    BY <1>4 DEF Str
  <2> QED BY <2>1
<1>8. ReplaceAll(u, "odd", "") = v
  BY <1>4, <1>6, <1>7 DEF ReplaceAll
<1> QED BY <1>3, <1>8 DEF u, v

\* A listing with its odd names, and with nothing in their place.
LEMMA Listings ==
  ASSUME Given
  PROVE  /\ Listed("file") \in Text /\ Listed("folder") \in Text /\ Listing \in Text
         /\ ReplaceAll(Listing, "odd", "") =
              Listed("file") \o Listed("folder") \o (IF "odd" \in world.match THEN <<"">> ELSE <<>>)
         /\ ReplaceAll(Listing, "odd", "") \in Text
         /\ "odd" \notin world.match => Listing = Listed("file") \o Listed("folder")
<1>1. /\ "file" \in Token /\ "folder" \in Token /\ "odd" \in Token /\ "" \in Token
  BY TokensAssumption
<1> DEFINE a == Listed("file")
           b == Listed("folder")
           c == Listed("odd")
           d == IF "odd" \in world.match THEN <<"">> ELSE <<>>
<1>2. /\ a \in {<<>>, <<"file">>} /\ b \in {<<>>, <<"folder">>}
      /\ c \in {<<>>, <<"odd">>} /\ d = (IF c = <<>> THEN <<>> ELSE <<"">>)
      /\ "odd" \notin world.match => c = <<>>
  <2>1. <<"odd">> # <<>>
    OBVIOUS
  <2> QED BY <2>1 DEF Listed
<1>3. Listing = a \o b \o c
  BY DEF Listing
<1> HIDE DEF a, b, c, d
<1>4. a \in Text /\ b \in Text /\ c \in Text /\ d \in Text
  <2>1. <<"file">> \in Text /\ <<"folder">> \in Text /\ <<"odd">> \in Text /\ <<"">> \in Text /\ <<>> \in Text
    BY <1>1, Texts
  <2> QED BY <1>2, <2>1
<1>5. a \o b \in Text /\ a \o b \o c \in Text /\ a \o b \o d \in Text
  BY <1>4, Texts
<1>6. ReplaceAll(a \o b \o c, "odd", "") = a \o b \o d
  <2> DEFINE ab == a \o b
  <2>1. ab \in Str
    BY <1>5, Texts
  <2>2. ~Contains(ab, "odd")
    <3>1. ~Contains(<<>>, "odd") /\ ~Contains(<<"file">>, "odd") /\ ~Contains(<<"folder">>, "odd")
      <4>1. ~Contains(<<>>, "odd")
        BY DEF Contains
      <4> QED BY <1>1, <4>1, OneToken
    <3>2. ~Contains(a, "odd") /\ ~Contains(b, "odd")
      BY <1>2, <3>1
    <3>3. a \in Str /\ b \in Str
      BY <1>4, Texts
    <3> QED BY <3>2, <3>3, ContainsEither
  <2> HIDE DEF ab
  <2>3. CASE c = <<>>
    <3>1. d = <<>> /\ ab \o <<>> = ab
      BY <1>2, <2>1, <2>3 DEF Str
    <3> QED BY <2>1, <2>2, <2>3, <3>1, Replaced DEF ab
  <2>4. CASE c = <<"odd">>
    <3>1. d = <<"">>
      BY <1>2, <2>4
    <3> QED BY <2>1, <2>2, <2>4, <3>1, Replaced DEF ab
  <2> QED BY <1>2, <2>3, <2>4
<1>7. c = <<>> => a \o b \o c = a \o b
  <2>1. a \o b \in Seq(Token)
    BY <1>5 DEF Text
  <2> QED BY <2>1
<1> QED BY <1>2, <1>3, <1>4, <1>5, <1>6, <1>7 DEF a, b, d

LEMMA Joins ==
  ASSUME NEW a \in Str, NEW b \in Str, NEW c \in Str
  PROVE  a \o (b \o c) = (a \o b) \o c /\ a \o b \in Str
BY DEF Str

\* What a handler gives: a result or an error of some text.
IsResult(r) == r.status \in {"200", "400", "panic"} /\ r.data \in Text

LEMMA Results ==
  /\ \A data \in Text : IsResult(Ok(data)) /\ IsResult(Bad(data))
  /\ IsResult(Panic)
  /\ \A data : /\ Ok(data).status = "200" /\ Ok(data).data = data
               /\ Bad(data).status = "400" /\ Panic.status = "panic"
BY Texts DEF IsResult, Ok, Bad, Panic

LEMMA Codes ==
  ASSUME Given
  PROVE  ScriptCode \in 0..255 /\ Code4(ScriptCode) \in Text
<1>1. world.code \in 0..255
  BY DEF Given, World
<1>2. ScriptCode \in 0..255
  BY <1>1 DEF ScriptCode
<1> DEFINE t == ToString(ScriptCode)
<1>3. t \in Token \ {"zstd"} /\ "0" \in Token \ {"zstd"}
  BY <1>2, BytesAssumption, TokensAssumption
<1> HIDE DEF t
<1>4. <<t, "0", "0", "0">> \in Seq(Token \ {"zstd"})
  BY <1>3
<1> QED BY <1>2, <1>4 DEF Code4, Text, t

LEMMA Errors == Error \in Text /\ <<"0", "0", "0", "1">> \o Error \in Text
<1>1. "{error}" \in Token \ {"zstd"} /\ "0" \in Token \ {"zstd"} /\ "1" \in Token \ {"zstd"}
  BY TokensAssumption
<1>2. Error \in Text
  BY <1>1, Texts DEF Error
<1>3. <<"0", "0", "0", "1">> \in Text
  <2> DEFINE z == "0"
             n == "1"
  <2>1. z \in Token \ {"zstd"} /\ n \in Token \ {"zstd"}
    BY <1>1
  <2> HIDE DEF z, n
  <2>2. <<z, z, z, n>> \in Seq(Token \ {"zstd"})
    BY <2>1
  <2> QED BY <2>2 DEF Text, z, n
<1> QED BY <1>2, <1>3, Texts

\* What each handler can give.
LEMMA HandlersGive ==
  ASSUME Given
  PROVE  /\ IsResult(RunLs) /\ IsResult(RunGlob) /\ IsResult(RunDownload)
         /\ IsResult(RunTcp) /\ IsResult(RunScripts)
         /\ \A verb : IsResult(RunHttp(verb))
         /\ RunLs.status = "200" => RunLs.data = <<"{">> \o Listed("file") \o Listed("folder")
         /\ RunLs.status = "panic" => "odd" \in world.match \/ "ancient" \in world.match
         /\ RunGlob.status = "200" =>
              RunGlob.data = <<"{">> \o Listed("file") \o Listed("folder")
                               \o (IF "odd" \in world.match THEN <<"">> ELSE <<>>)
         /\ RunGlob.status = "panic" => "ancient" \in world.match
         /\ RunDownload.status = "200" => RunDownload.data = Contents(world.body) /\ world.path = "file"
         /\ RunDownload.status # "panic"
         /\ \A verb : /\ RunHttp(verb).status = "200" => RunHttp(verb).data = Contents(world.body)
                      /\ RunHttp(verb).status # "panic"
         /\ RunTcp.status = "200" => RunTcp.data = Contents(world.body)
         /\ RunTcp.status = "panic" => world.peer = "refused"
         /\ RunScripts.status = "200" => RunScripts.data = Code4(ScriptCode) \o Contents(world.body)
         /\ RunScripts.status # "panic"
<1> DEFINE f == Listed("file")
           d == Listed("folder")
           o == IF "odd" \in world.match THEN <<"">> ELSE <<>>
           body == Contents(world.body)
           code == Code4(ScriptCode)
           all == ReplaceAll(Listing, "odd", "")
           failed == <<"0", "0", "0", "1">> \o Error
<1>1. /\ f \in Text /\ d \in Text /\ Listing \in Text /\ all \in Text /\ body \in Text /\ code \in Text
      /\ Error \in Text /\ <<"{">> \in Text /\ failed \in Text /\ o \in Text
      /\ all = f \o d \o o
      /\ "odd" \notin world.match => Listing = f \o d
  <2>1. <<"{">> \in Text /\ <<"">> \in Text
    BY Texts, TokensAssumption
  <2> QED BY <2>1, Listings, Bodies, Codes, Errors, Texts
<1> HIDE DEF f, d, o, body, code, all, failed
<1>2. \A s, t \in Text : s \o t \in Text /\ s \in Str
  BY Texts
<1>3. /\ IsResult(RunLs)
      /\ RunLs.status = "panic" => "odd" \in world.match \/ "ancient" \in world.match
      /\ RunLs.status = "200" => RunLs.data = <<"{">> \o f \o d
  <2>1. <<"{">> \o Listing \in Text
    BY <1>1, <1>2
  <2>2. "odd" \notin world.match => <<"{">> \o Listing = <<"{">> \o f \o d
    <3>1. f \in Str /\ d \in Str /\ <<"{">> \in Str
      BY <1>1, <1>2
    <3>2. <<"{">> \o (f \o d) = <<"{">> \o f \o d
      BY <3>1, Joins
    <3> QED BY <1>1, <3>2
  <2>3. \/ RunLs = Bad(Error)
        \/ RunLs = Panic /\ ("odd" \in world.match \/ "ancient" \in world.match)
        \/ RunLs = Ok(<<"{">> \o Listing) /\ "odd" \notin world.match
    BY DEF RunLs
  <2> QED BY <1>1, <2>1, <2>2, <2>3, Results
<1>4. /\ IsResult(RunGlob)
      /\ RunGlob.status = "panic" => "ancient" \in world.match
      /\ RunGlob.status = "200" => RunGlob.data = <<"{">> \o f \o d \o o
  <2>1. <<"{">> \o all \in Text
    BY <1>1, <1>2
  <2>2. <<"{">> \o all = <<"{">> \o f \o d \o o
    <3>1. f \o d \in Str /\ f \in Str /\ d \in Str /\ o \in Str /\ <<"{">> \in Str
      BY <1>1, <1>2
    <3>2. <<"{">> \o (f \o d) = <<"{">> \o f \o d
      BY <3>1, Joins
    <3>3. <<"{">> \o ((f \o d) \o o) = (<<"{">> \o (f \o d)) \o o
      BY <3>1, Joins
    <3> QED BY <1>1, <3>2, <3>3
  <2>3. \/ RunGlob = Bad(Error)
        \/ RunGlob = Panic /\ "ancient" \in world.match
        \/ RunGlob = Ok(<<"{">> \o all)
    BY DEF RunGlob, all
  <2> QED BY <1>1, <2>1, <2>2, <2>3, Results
<1>5. /\ IsResult(RunDownload) /\ RunDownload.status # "panic"
      /\ RunDownload.status = "200" => RunDownload.data = body /\ world.path = "file"
  <2>1. \/ RunDownload = Bad(Error)
        \/ RunDownload = Ok(body) /\ world.path = "file"
    BY DEF RunDownload, body
  <2> QED BY <1>1, <2>1, Results
<1>6. ASSUME NEW verb
      PROVE  /\ IsResult(RunHttp(verb)) /\ RunHttp(verb).status # "panic"
             /\ RunHttp(verb).status = "200" => RunHttp(verb).data = body
  <2>1. RunHttp(verb) = Bad(Error) \/ RunHttp(verb) = Ok(body)
    BY DEF RunHttp, body
  <2> QED BY <1>1, <2>1, Results
<1>7. /\ IsResult(RunTcp)
      /\ RunTcp.status = "panic" => world.peer = "refused"
      /\ RunTcp.status = "200" => RunTcp.data = body
  <2>1. \/ RunTcp = Bad(Error)
        \/ RunTcp = Ok(body)
        \/ RunTcp = Panic /\ world.peer = "refused"
    BY DEF RunTcp, body
  <2> QED BY <1>1, <2>1, Results
<1>8. /\ IsResult(RunScripts) /\ RunScripts.status # "panic"
      /\ RunScripts.status = "200" => RunScripts.data = code \o body
  <2>1. RunScripts = Bad(failed) \/ RunScripts = Ok(code \o body)
    BY DEF RunScripts, body, code, failed
  <2>2. code \o body \in Text
    BY <1>1, <1>2
  <2> QED BY <1>1, <2>1, <2>2, Results
<1> QED BY <1>3, <1>4, <1>5, <1>6, <1>7, <1>8 DEF f, d, o, body, code

LEMMA HandledGives ==
  ASSUME Given, NEW req
  PROVE  IsResult(Handled(req))
<1>1. Error \in Text
  BY Errors
<1>2. \/ Handled(req) \in {RunLs, RunDownload, RunGlob, RunTcp, RunScripts, Bad(Error)}
      \/ Handled(req) = RunHttp(req.payload[2])
  BY DEF Handled
<1> QED BY <1>1, <1>2, HandlersGive, Results

\* Which handler runs the command of a word.
LEMMA HandlerOf ==
  ASSUME Given, Readable, NEW req, req.cmd = RequestCmd
  PROVE  /\ Word = "ls" => Handled(req) = RunLs
         /\ Word \in {"download", "cp"} => Handled(req) = RunDownload
         /\ Word = "glob" => Handled(req) = RunGlob
         /\ Word = "http" => Handled(req) = RunHttp(req.payload[2])
         /\ Word = "tcp" => Handled(req) = RunTcp
         /\ Word = "scripts" => Handled(req) = RunScripts
<1> DEFINE h == Handled(req)
           p == RunHttp(req.payload[2])
<1>1. /\ req.cmd = <<"ls">> => h = RunLs
      /\ req.cmd = <<"download">> => h = RunDownload
      /\ req.cmd = <<"glob">> => h = RunGlob
      /\ req.cmd = <<"http">> => h = p
      /\ req.cmd = <<"tcp">> => h = RunTcp
      /\ req.cmd = <<"scripts">> => h = RunScripts
  BY DEF Handled
<1> HIDE DEF h, p
<1>2. /\ Word = "ls" => req.cmd = <<"ls">>
      /\ Word \in {"download", "cp"} => req.cmd = <<"download">>
      /\ Word = "glob" => req.cmd = <<"glob">>
      /\ Word = "http" => req.cmd = <<"http">>
      /\ Word = "tcp" => req.cmd = <<"tcp">>
      /\ Word = "scripts" => req.cmd = <<"scripts">>
  BY DEF RequestCmd
<1> QED BY <1>1, <1>2 DEF h, p

\* What comes of a request that succeeds, and which end the thread.
LEMMA HandledIs ==
  ASSUME Given, Readable, NEW req, req.cmd = RequestCmd
  PROVE  /\ Handled(req).status = "200" =>
              /\ Word \in {"ls", "glob"} => Handled(req).data = Printed
              /\ Word = "scripts" => Handled(req).data = Code4(ScriptCode) \o Contents(world.body)
              /\ Word \in {"http", "tcp", "download", "cp"} => Handled(req).data = Contents(world.body)
              /\ Word \in {"download", "cp"} => world.path = "file"
         /\ Handled(req).status = "panic" =>
              \/ Word = "tcp" /\ world.peer = "refused"
              \/ Word = "ls" /\ "odd" \in world.match
              \/ Word \in {"ls", "glob"} /\ "ancient" \in world.match
<1>1. Word \in {"ls", "download", "cp", "glob", "http", "tcp", "scripts"}
  BY ReadableWords
<1>2. CASE Word = "ls"
  <2>1. Handled(req) = RunLs
    BY <1>2, HandlerOf
  <2>2. Printed = <<"{">> \o Listed("file") \o Listed("folder")
    BY <1>2 DEF Printed
  <2> QED BY <1>2, <2>1, <2>2, HandlersGive
<1>3. CASE Word = "glob"
  <2>1. Handled(req) = RunGlob
    BY <1>3, HandlerOf
  <2>2. Printed = <<"{">> \o Listed("file") \o Listed("folder")
                    \o (IF "odd" \in world.match THEN <<"">> ELSE <<>>)
    BY <1>3 DEF Printed
  <2> QED BY <1>3, <2>1, <2>2, HandlersGive
<1>4. CASE Word \in {"download", "cp"}
  <2>1. Handled(req) = RunDownload
    BY <1>4, HandlerOf
  <2> QED BY <1>4, <2>1, HandlersGive
<1>5. CASE Word = "http"
  <2>1. Handled(req) = RunHttp(req.payload[2])
    BY <1>5, HandlerOf
  <2>2. /\ RunHttp(req.payload[2]).status = "200" => RunHttp(req.payload[2]).data = Contents(world.body)
        /\ RunHttp(req.payload[2]).status # "panic"
    BY HandlersGive
  <2> QED BY <1>5, <2>1, <2>2
<1>6. CASE Word = "tcp"
  <2>1. Handled(req) = RunTcp
    BY <1>6, HandlerOf
  <2> QED BY <1>6, <2>1, HandlersGive
<1>7. CASE Word = "scripts"
  <2>1. Handled(req) = RunScripts
    BY <1>7, HandlerOf
  <2> QED BY <1>7, <2>1, HandlersGive
<1> QED BY <1>1, <1>2, <1>3, <1>4, <1>5, <1>6, <1>7

LEMMA Unzips ==
  ASSUME NEW data \in Str
  PROVE  Compressed(data) \in Str /\ Decompressed(Compressed(data)) = data
<1>1. "zstd" \in Token /\ Sep \in Token
  BY TokensAssumption
<1> DEFINE z == "zstd"
           s == Sep
           u == <<z, s>> \o data
<1>2. z \in Token /\ s \in Token
  BY <1>1
<1> HIDE DEF z, s
<1>3. /\ u \in Seq(Token) /\ Len(u) = 2 + Len(data) /\ Len(data) \in Nat
      /\ \A i \in 1..Len(data) : u[i + 2] = data[i]
  BY <1>2 DEF Str
<1> HIDE DEF u
<1>4. SubSeq(u, 3, Len(u)) = data
  BY <1>3 DEF Str
<1> QED BY <1>3, <1>4 DEF Compressed, Decompressed, u, z, s, Str

\* An answer is taken apart as the shell put it together.
LEMMA Answered ==
  ASSUME Given, NEW req, Handled(req).status # "panic",
         req.cmd \in Str, ~Contains(req.cmd, Sep), req.id \in Str, ~Contains(req.id, Sep)
  PROVE  /\ Answer(req) \in Str /\ Answer(req) # <<>> /\ Deserializes(Answer(req))
         /\ Deserialized(Answer(req)).id = req.id
         /\ Deserialized(Answer(req)).targetOrStatus = <<"200">> <=> Handled(req).status = "200"
         /\ Handled(req).status = "200" =>
              Decompressed(Deserialized(Answer(req)).payload) = Handled(req).data
<1> DEFINE res == Handled(req)
           p == IF res.status = "200" THEN Compressed(res.data) ELSE res.data
           st == res.status
           a == Answer(req)
<1>1. Answer(req) = Message(req.cmd, <<"res">>, req.id, <<st>>, <<"last">>, p)
  BY DEF Answer, ResponseMessage, Message
<1>2. st \in {"200", "400"} /\ res.data \in Str
  BY HandledGives, Texts DEF IsResult
<1>3. p \in Str /\ (st = "200" => Decompressed(p) = res.data)
  BY <1>2, Unzips
<1> HIDE DEF res, p, a
<1>4. /\ <<st>> \in Str /\ ~Contains(<<st>>, Sep)
      /\ <<"res">> \in Str /\ ~Contains(<<"res">>, Sep)
      /\ <<"last">> \in Str /\ ~Contains(<<"last">>, Sep)
  BY <1>2, OneToken, TokensAssumption DEF Sep
<1>5. /\ a \in Str
      /\ Contains(Remaining(a)[5], Sep)
      /\ Deserialized(a) = [cmd |-> req.cmd, kind |-> <<"res">>, id |-> req.id,
                            targetOrStatus |-> <<st>>, chunk |-> <<"last">>, payload |-> p]
  <2> DEFINE k == <<"res">>
             l == <<"last">>
             t == <<st>>
             c == req.cmd
             i == req.id
  <2> HIDE DEF k, l, t, c, i
  <2>1. a = Message(c, k, i, t, l, p)
    BY <1>1 DEF a, k, l, t, c, i
  <2>2. /\ k \in Str /\ l \in Str /\ t \in Str /\ ~Contains(k, Sep) /\ ~Contains(l, Sep) /\ ~Contains(t, Sep)
        /\ c \in Str /\ i \in Str /\ ~Contains(c, Sep) /\ ~Contains(i, Sep)
    BY <1>4 DEF k, l, t, c, i
  <2>3. /\ a \in Str
        /\ Contains(Remaining(a)[5], Sep)
        /\ Deserialized(a) = [cmd |-> c, kind |-> k, id |-> i,
                              targetOrStatus |-> t, chunk |-> l, payload |-> p]
    <3> DEFINE m == Message(c, k, i, t, l, p)
    <3>1. p \in Str
      BY <1>3
    <3>2. /\ m \in Str
          /\ Contains(Remaining(m)[5], Sep)
          /\ Deserialized(m) = [cmd |-> c, kind |-> k, id |-> i,
                                targetOrStatus |-> t, chunk |-> l, payload |-> p]
      BY <2>2, <3>1, RoundTrip
    <3> QED BY <2>1, <3>2
  <2> QED BY <2>3 DEF k, l, t, c, i
<1>6. /\ Field(a, 2) = <<"res">> /\ Field(a, 4) = <<st>> /\ Field(a, 5) = <<"last">>
  BY <1>5 DEF Deserialized
<1>7. Deserializes(a)
  BY <1>2, <1>5, <1>6 DEF Deserializes
<1>8. a # <<>>
  <2>1. ~Contains(<<>>, Sep)
    BY DEF Contains
  <2>2. Behind(<<>>) = <<>>
    BY <2>1 DEF Behind
  <2>3. Remaining(<<>>)[5] = <<>>
    BY <2>2 DEF Remaining
  <2> QED BY <1>5, <2>1, <2>3
<1>9. Deserialized(a).targetOrStatus = <<"200">> <=> st = "200"
  BY <1>5
<1> QED BY <1>3, <1>5, <1>7, <1>8, <1>9 DEF a, res

-----------------------------------------------------------------------------
(* Exit codes *)

LEMMA BytesAre ==
  ASSUME NEW n \in 0..255
  PROVE  Byte(ToString(n)) = n
<1>1. \A m \in 0..255 : ToString(m) = ToString(n) <=> m = n
  BY BytesAssumption
<1> QED BY <1>1 DEF Byte

\* A code and an output are told from each other, and the code is read as it was
\* written.
LEMMA CodeIs ==
  ASSUME NEW n \in 0..255, NEW b \in Str
  PROVE  /\ Code(Code4(n) \o b) = n
         /\ SubSeq(Code4(n) \o b, 5, Len(Code4(n) \o b)) = b
<1> DEFINE t == ToString(n)
           z == "0"
           u == <<t, z, z, z>> \o b
<1>1. t \in Token /\ z \in Token /\ Byte(t) = n /\ Byte(z) = 0
  <2>1. Byte(ToString(0)) = 0 /\ ToString(0) = "0"
    <3>1. 0 \in 0..255
      OBVIOUS
    <3>2. Byte(ToString(0)) = 0
      BY <3>1, BytesAre, Zenon
    <3> QED BY <3>2, BytesAssumption
  <2>2. Byte(ToString(n)) = n /\ ToString(n) \in Token /\ "0" \in Token
    BY BytesAre, BytesAssumption, TokensAssumption
  <2> QED BY <2>1, <2>2
<1>2. Code4(n) = <<t, z, z, z>>
  BY DEF Code4
<1> HIDE DEF t, z
<1>3. /\ u[1] = t /\ u[2] = z /\ u[3] = z /\ u[4] = z
      /\ u \in Seq(Token) /\ Len(u) = Len(b) + 4 /\ Len(b) \in Nat
      /\ \A i \in 1..Len(b) : u[i + 4] = b[i]
  BY <1>1 DEF Str
<1> HIDE DEF u
<1>4. SubSeq(u, 5, Len(u)) = b
  BY <1>3 DEF Str
<1>5. Code(u) = n + 256 * (0 + 256 * (0 + 256 * 0))
  BY <1>1, <1>3 DEF Code
<1>6. Code(u) = n
  BY <1>5
<1> QED BY <1>2, <1>4, <1>6 DEF u

-----------------------------------------------------------------------------
(* Paths *)

Name == Token \ {Sep, "."}

\* The names of a path, read from its beginning.
LEMMA ResolvedSteps ==
  /\ \A s \in Str : Resolved(s) \in Seq(Name)
  /\ \A s \in Str, m \in Token :
       Resolved(Append(s, m)) = IF m \in {Sep, "."} THEN Resolved(s) ELSE Append(Resolved(s), m)
<1> DEFINE A == Seq(Name)
           Left(m) == m \in {Sep, "."}
           g == [x \in A \X Token |-> IF Left(x[2]) THEN x[1] ELSE Append(x[1], x[2])]
<1>1. <<>> \in A
  OBVIOUS
<1>2. g \in [A \X Token -> A]
  <2>1. ASSUME NEW x \in A, NEW m \in Token, ~Left(m) PROVE Append(x, m) \in A
    <3>1. m \in Name
      BY <2>1 DEF Name
    <3> QED BY <3>1
  <2> HIDE DEF Left
  <2> QED BY <2>1
<1>3. \A x \in A, m \in Token : g[<<x, m>>] = IF Left(m) THEN x ELSE Append(x, m)
  <2> HIDE DEF Left
  <2> QED OBVIOUS
<1>0. Recursion(A, Token, <<>>, g)
  BY <1>1, <1>2 DEF Recursion
<1>4. ASSUME NEW s \in Seq(Token) PROVE Resolved(s) = Result(<<>>, g, s)
  <2> DEFINE IsThem(f) == f = [n \in 0..Len(s) |->
                                  IF n = 0 THEN <<>>
                                  ELSE IF Left(s[n]) THEN f[n - 1] ELSE Append(f[n - 1], s[n])]
             k == CHOOSE f : IsThem(f)
  <2>1. Resolved(s) = k[Len(s)]
    BY DEF Resolved
  <2> HIDE DEF Left
  <2>2. PICK f \in [0..Len(s) -> A] : Runs(f, <<>>, g, s)
    BY <1>1, <1>2, RunExists
  <2>3. Len(s) \in Nat /\ \A n \in 1..Len(s) : s[n] \in Token
    OBVIOUS
  <2>4. \A n \in 0..Len(s) : f[n] = IF n = 0 THEN <<>>
                                    ELSE IF Left(s[n]) THEN f[n - 1] ELSE Append(f[n - 1], s[n])
    <3> SUFFICES ASSUME NEW n \in 0..Len(s), n # 0
                 PROVE  f[n] = IF Left(s[n]) THEN f[n - 1] ELSE Append(f[n - 1], s[n])
      BY <2>2 DEF Runs
    <3>1. n \in 1..Len(s) /\ n - 1 \in 0..Len(s)
      BY <2>3
    <3>2. f[n] = g[<<f[n - 1], s[n]>>]
      BY <2>2, <3>1 DEF Runs
    <3> HIDE DEF g, A
    <3> QED BY <1>3, <2>2, <2>3, <3>1, <3>2
  <2>5. IsThem(f)
    BY <2>2, <2>4
  <2>6. IsThem(k)
    BY <2>5
  <2> HIDE DEF k
  <2>7. /\ DOMAIN k = 0..Len(s) /\ k[0] = <<>>
        /\ \A n \in 1..Len(s) : k[n] = IF Left(s[n]) THEN k[n - 1] ELSE Append(k[n - 1], s[n])
    <3>1. DOMAIN k = 0..Len(s) /\ k[0] = <<>>
      BY <2>3, <2>6
    <3>2. ASSUME NEW n \in 1..Len(s)
          PROVE  k[n] = IF Left(s[n]) THEN k[n - 1] ELSE Append(k[n - 1], s[n])
      <4>1. n \in 0..Len(s) /\ n # 0
        BY <2>3
      <4> QED BY <2>6, <4>1, Zenon
    <3> QED BY <3>1, <3>2
  <2> HIDE DEF g, A
  <2>8. \A n \in 1..Len(s) : k[n - 1] \in A => k[n] = g[<<k[n - 1], s[n]>>]
    BY <1>3, <2>3, <2>7
  <2> QED BY <1>0, <2>1, <2>7, <2>8, RunIs
<1> HIDE DEF g
<1>5. /\ \A s \in Seq(Token) : Result(<<>>, g, s) \in A
      /\ \A s \in Seq(Token), m \in Token :
           Result(<<>>, g, Append(s, m)) = g[<<Result(<<>>, g, s), m>>]
  BY <1>0, ResultSteps DEF Computed
<1>6. \A s \in Seq(Token), m \in Token : Append(s, m) \in Seq(Token)
  OBVIOUS
<1>7. \A s \in Seq(Token) : Resolved(s) \in A
  BY <1>4, <1>5
<1>8. ASSUME NEW s \in Seq(Token), NEW m \in Token
      PROVE  Resolved(Append(s, m)) = IF Left(m) THEN Resolved(s) ELSE Append(Resolved(s), m)
  <2> DEFINE x == Resolved(s)
  <2>1. x = Result(<<>>, g, s) /\ x \in A
    BY <1>4, <1>7
  <2>2. Resolved(Append(s, m)) = g[<<x, m>>]
    BY <1>4, <1>5, <1>6, <2>1
  <2> HIDE DEF x, A, Left
  <2>3. g[<<x, m>>] = IF Left(m) THEN x ELSE Append(x, m)
    BY <1>3, <2>1
  <2> QED BY <2>2, <2>3 DEF x
<1> QED BY <1>7, <1>8 DEF Str

\* A name in a folder is the folder's path and the name.
LEMMA WithinIs ==
  ASSUME NEW dir \in Str, NEW name \in Name
  PROVE  Resolved(Within(dir, name)) = Append(Resolved(dir), name) /\ Within(dir, name) # <<>>
<1>1. name \in Token /\ name \notin {Sep, "."} /\ Sep \in Token
  BY TokensAssumption DEF Name
<1>2. CASE Last(dir) = Sep
  <2>1. Within(dir, name) = Append(dir, name)
    BY <1>2 DEF Within
  <2>2. Append(dir, name) # <<>>
    BY <1>1 DEF Str
  <2> QED BY <1>1, <2>1, <2>2, ResolvedSteps
<1>3. CASE Last(dir) # Sep
  <2> DEFINE s == Sep
             d == Append(dir, s)
  <2>1. s \in Token /\ s \in {Sep, "."}
    BY <1>1
  <2>2. Within(dir, name) = dir \o <<s, name>>
    BY <1>3 DEF Within
  <2> HIDE DEF s
  <2>3. d \in Str /\ Append(d, name) # <<>> /\ dir \o <<s, name>> = Append(d, name)
    BY <1>1, <2>1 DEF Str
  <2>4. Resolved(d) = Resolved(dir)
    BY <2>1, ResolvedSteps
  <2> HIDE DEF d
  <2>5. Resolved(Append(d, name)) = Append(Resolved(d), name)
    BY <1>1, <2>3, ResolvedSteps
  <2> QED BY <2>2, <2>3, <2>4, <2>5
<1> QED BY <1>2, <1>3

-----------------------------------------------------------------------------
(* The inductive invariant *)

\* What has a contents to download has a name.
Named == (Readable /\ world.path # "none") => HasFileName(Arg(1))

\* A request is on its way until the shell has seen it, and nothing else is then.
Asked ==
  /\ pc \in {"typed", "waiting", "show", "done", "exited", "panicked", "refused", "unwritten"}
  /\ pc \notin {"typed", "exited", "panicked"} => Readable
  /\ pc = "typed" => up = <<>> /\ down = <<>> /\ ran = NotRun /\ stdinAlive
  /\ up # <<>> => /\ pc = "waiting" /\ up = Typed
                  /\ down = <<>> /\ ran = NotRun /\ stdinAlive

\* What was run is what the shell makes of the client's message.
RanIt ==
  ran # NotRun =>
    /\ Readable /\ up = <<>>
    /\ Deserializes(Typed) /\ ran = Deserialized(Typed) /\ ran.chunk = <<"last">>

\* An answer on its way is that to the request that was run.
DownIs ==
  down # <<>> =>
    /\ pc = "waiting" /\ ran # NotRun
    /\ Handled(ran).status # "panic" /\ down = Answer(ran)

Dead ==
  /\ stdinAlive \in BOOLEAN
  /\ ~stdinAlive => ran # NotRun /\ Handled(ran).status = "panic"

\* What a client shows is the data of a success.
GotIt ==
  /\ got \in Text /\ shown \in Text
  /\ (pc \in {"show", "done", "refused", "unwritten"} \/ (pc = "panicked" /\ Readable)) =>
       ran # NotRun /\ Handled(ran).status = "200" /\ got = Handled(ran).data

\* Until it saves a download a client leaves the files alone.
Kept ==
  /\ \A p \in DOMAIN files : files[p] \in Text
  /\ pc \notin {"done", "unwritten"} => files = [p \in world.files |-> <<"old">>]

CommandInv ==
  Given /\ Named /\ Asked /\ RanIt /\ DownIs /\ Dead /\ GotIt /\ Kept
    /\ WaitsOnlyWhen /\ ShowsTheShellsAnswer /\ DownloadLands

\* The command line and the machines stay what they are.
Stays ==
  /\ Words' = Words /\ Known' = Known /\ Readable' = Readable /\ Word' = Word /\ Format' = Format
  /\ Shell' = Shell /\ RequestPayload' = RequestPayload /\ RequestCmd' = RequestCmd
  /\ LocalPath' = LocalPath /\ RemotePath' = RemotePath /\ IsDownload' = IsDownload
  /\ Typed' = Typed /\ Printed' = Printed /\ ScriptCode' = ScriptCode
  /\ \A req : Handled(req)' = Handled(req) /\ Answer(req)' = Answer(req)
  /\ Given' = Given /\ Named' = Named

LEMMA StaysSo ==
  ASSUME UNCHANGED <<line, world>>
  PROVE  Stays
<1>1. Words' = Words
  BY DEF Words
<1>2. Word' = Word /\ Shell' = Shell /\ NumArgs' = NumArgs /\ \A i : Arg(i)' = Arg(i)
  BY <1>1 DEF Word, Shell, NumArgs, Arg
<1>3. Known' = Known
  BY <1>1, <1>2 DEF Known
<1>4. Readable' = Readable
  BY <1>2, <1>3 DEF Readable
<1>5. RequestPayload' = RequestPayload /\ RequestCmd' = RequestCmd
  BY <1>2 DEF RequestPayload, RequestCmd
<1>6. Typed' = Typed
  BY <1>2, <1>5 DEF Typed
<1>7. LocalPath' = LocalPath /\ RemotePath' = RemotePath /\ IsDownload' = IsDownload
  BY <1>2 DEF LocalPath, RemotePath, IsDownload
<1>8. Format' = Format
  BY DEF Format
<1>9. ScriptCode' = ScriptCode
  BY DEF ScriptCode
<1>10. Listing' = Listing /\ \A e : Listed(e)' = Listed(e)
  BY DEF Listing, Listed
<1>11. Printed' = Printed
  BY <1>2, <1>9, <1>10 DEF Printed
<1>12. /\ RunLs' = RunLs /\ RunGlob' = RunGlob /\ RunDownload' = RunDownload
       /\ \A verb : RunHttp(verb)' = RunHttp(verb)
       /\ RunTcp' = RunTcp /\ RunScripts' = RunScripts
  BY <1>9, <1>10 DEF RunLs, RunGlob, RunDownload, RunHttp, RunTcp, RunScripts
<1>13. \A req : Handled(req)' = Handled(req)
  BY <1>12 DEF Handled
<1>14. \A req : Answer(req)' = Answer(req)
  BY <1>13 DEF Answer
<1>15. Given' = Given
  BY DEF Given
<1>16. Named' = Named
  BY <1>2, <1>4 DEF Named
<1> QED BY <1>1, <1>2, <1>3, <1>4, <1>5, <1>6, <1>7, <1>8, <1>9, <1>11, <1>13, <1>14, <1>15, <1>16
     DEF Stays

-----------------------------------------------------------------------------
(* Its steps *)

\* While nothing is printed or saved there is nothing to see of the answer.
LEMMA NothingSaved ==
  ASSUME Kept, pc \notin {"done", "unwritten"}, (pc = "panicked" /\ Readable) => ~IsDownload
  PROVE  ShowsTheShellsAnswer /\ DownloadLands
<1>1. files = [p \in world.files |-> <<"old">>]
  BY DEF Kept
<1>2. \A p \in DOMAIN files \cup world.files : p \in world.files /\ files[p] = <<"old">>
  BY <1>1
<1> QED BY <1>2 DEF ShowsTheShellsAnswer, DownloadLands

LEMMA OldText == <<"old">> \in Text /\ <<"cut">> \in Text /\ <<>> \in Text
BY Texts, TokensAssumption

LEMMA InitInv ==
  ASSUME Init
  PROVE  CommandInv
<1>1. Given
  <2>1. \A w \in DOMAIN ArgsNeeded \cup {"none"} : Worlds(w) \subseteq World
    BY CommandsAssumption
  <2>2. (IF Known THEN Word ELSE "none") \in DOMAIN ArgsNeeded \cup {"none"}
    BY DEF Known
  <2>3. line \in Lines /\ world \in Worlds(IF Known THEN Word ELSE "none")
    BY DEF Init
  <2> QED BY <2>1, <2>2, <2>3, Zenon DEF Given
<1>2. /\ pc = "typed" /\ up = <<>> /\ down = <<>> /\ ran = NotRun /\ got = <<>> /\ shown = <<>>
      /\ files = [p \in world.files |-> <<"old">>] /\ stdinAlive = TRUE /\ Named
  BY DEF Init, Named
<1>3. Asked /\ RanIt /\ DownIs /\ Dead
  BY <1>2 DEF Asked, RanIt, DownIs, Dead
<1>4. GotIt /\ Kept
  BY <1>2, OldText DEF GotIt, Kept
<1>5. WaitsOnlyWhen
  BY <1>2 DEF WaitsOnlyWhen
<1>6. ShowsTheShellsAnswer /\ DownloadLands
  BY <1>2, <1>4, NothingSaved
<1> QED BY <1>1, <1>2, <1>3, <1>4, <1>5, <1>6 DEF CommandInv

\* The same after a step.
LEMMA NothingSavedNow ==
  ASSUME Kept', pc' \notin {"done", "unwritten"}, (pc' = "panicked" /\ Readable') => ~IsDownload'
  PROVE  ShowsTheShellsAnswer' /\ DownloadLands'
<1>1. files' = [p \in world'.files |-> <<"old">>]
  BY DEF Kept
<1>2. \A p \in DOMAIN files' \cup world'.files : p \in world'.files /\ files'[p] = <<"old">>
  BY <1>1
<1> QED BY <1>2 DEF ShowsTheShellsAnswer, DownloadLands

\* A step of the client before it has an answer.
LEMMA ClientStarts ==
  ASSUME CommandInv, Misread \/ NoServer \/ Send
  PROVE  CommandInv'
<1>0. /\ Given /\ Named /\ Asked /\ RanIt /\ DownIs /\ Dead /\ GotIt /\ Kept
      /\ WaitsOnlyWhen /\ ShowsTheShellsAnswer /\ DownloadLands
  BY DEF CommandInv
<1>1. /\ pc = "typed" /\ UNCHANGED <<line, world, ran, down, got, shown, files, stdinAlive>>
      /\ pc' \in {"waiting", "exited", "panicked"}
      /\ pc' = "waiting" => Readable
      /\ pc' = "panicked" => ~Readable
      /\ up' # <<>> => up' = Typed /\ pc' = "waiting"
      /\ pc' = "waiting" /\ up' = <<>> => RequestPayload = <<>>
  <2>1. Readable => Typed # <<>>
    BY <1>0, TypedArrives
  <2>2. pc = "typed" => up = <<>>
    BY <1>0 DEF Asked
  <2> QED BY <2>1, <2>2 DEF Misread, NoServer, Send, Typed
<1>2. Stays
  BY <1>1, StaysSo
<1>3. Given' /\ Named'
  BY <1>0, <1>2 DEF Stays
<1>4. ran' = NotRun /\ down' = <<>> /\ stdinAlive' = TRUE /\ stdinAlive
  BY <1>0, <1>1 DEF Asked, Dead
<1>5. Asked'
  BY <1>1, <1>2, <1>4 DEF Asked, Stays
<1>6. RanIt' /\ DownIs' /\ Dead'
  BY <1>4 DEF RanIt, DownIs, Dead
<1>7. GotIt' /\ Kept'
  <2>1. Readable' = Readable
    BY <1>2 DEF Stays
  <2> QED BY <1>0, <1>1, <2>1 DEF GotIt, Kept
<1>8. WaitsOnlyWhen'
  BY <1>1, <1>2 DEF WaitsOnlyWhen, Stays
<1>9. ShowsTheShellsAnswer' /\ DownloadLands'
  BY <1>1, <1>2, <1>7, NothingSavedNow DEF Stays
<1> QED BY <1>3, <1>5, <1>6, <1>7, <1>8, <1>9 DEF CommandInv

\* The shell drops a message or runs it.
LEMMA ShellSteps ==
  ASSUME CommandInv, ShellDrops \/ ShellRuns
  PROVE  CommandInv'
<1>0. /\ Given /\ Named /\ Asked /\ RanIt /\ DownIs /\ Dead /\ GotIt /\ Kept
      /\ WaitsOnlyWhen /\ ShowsTheShellsAnswer /\ DownloadLands
  BY DEF CommandInv
<1>1. /\ up # <<>> /\ up' = <<>> /\ UNCHANGED <<pc, line, world, got, shown, files>>
  BY DEF ShellDrops, ShellRuns
<1>2. /\ pc = "waiting" /\ up = Typed /\ down = <<>> /\ ran = NotRun /\ stdinAlive /\ stdinAlive = TRUE
      /\ Readable
  BY <1>0, <1>1 DEF Asked, Dead
<1>3. Stays
  BY <1>1, StaysSo
<1>4. Given' /\ Named'
  BY <1>0, <1>3 DEF Stays
<1>5. Asked'
  BY <1>1, <1>2, <1>3 DEF Asked, Stays
<1>6. GotIt' /\ Kept'
  <2>1. Readable' = Readable
    BY <1>3 DEF Stays
  <2> QED BY <1>0, <1>1, <1>2, <2>1 DEF GotIt, Kept
<1>7. ShowsTheShellsAnswer' /\ DownloadLands'
  BY <1>1, <1>2, <1>6, NothingSavedNow
<1>8. CASE ShellDrops
  <2>1. UNCHANGED <<ran, down, stdinAlive>> /\ (~Deserializes(Typed) \/ Deserialized(Typed).chunk # <<"last">>)
    BY <1>2, <1>8 DEF ShellDrops
  <2>2. RanIt' /\ DownIs' /\ Dead'
    BY <1>2, <2>1 DEF RanIt, DownIs, Dead
  <2>3. Contains(line.me, Sep) \/ Contains(Shell, Sep)
    <3>1. SUFFICES ASSUME ~Contains(line.me, Sep), ~Contains(Shell, Sep) PROVE FALSE
      OBVIOUS
    <3>2. Deserializes(Typed) /\ Deserialized(Typed).chunk = <<"last">>
      BY <1>0, <1>2, <3>1, TypedArrives
    <3> QED BY <2>1, <3>2
  <2>4. Contains(line.me \o Shell, Sep)
    <3>1. line.me \in Str /\ Shell \in Str
      BY <1>0, <1>2, WordsAre, ReadableWords, Texts
    <3> QED BY <2>3, <3>1, ContainsEither
  <2>5. WaitsOnlyWhen'
    <3>1. Contains(line'.me \o Shell', Sep)
      BY <1>1, <1>3, <2>4 DEF Stays
    <3> QED BY <3>1 DEF WaitsOnlyWhen
  <2> QED BY <1>4, <1>5, <1>6, <1>7, <2>2, <2>5 DEF CommandInv
<1>9. CASE ShellRuns
  <2> DEFINE r == Deserialized(Typed)
  <2>1. /\ ran' = r /\ Deserializes(Typed) /\ r.chunk = <<"last">>
        /\ Handled(r).status = "panic" => stdinAlive' = FALSE /\ down' = down
        /\ Handled(r).status # "panic" => down' = Answer(r) /\ stdinAlive' = stdinAlive
    BY <1>2, <1>9 DEF ShellRuns
  <2>2. r # NotRun /\ Typed \in Str
    <3>1. r.kind = <<"req">> /\ Typed \in Str
      BY <1>0, <1>2, TypedArrives
    <3>2. NotRun.kind = <<>>
      BY DEF NotRun
    <3> QED BY <3>1, <3>2
  <2>3. Handled(r).status # "panic" => Answer(r) # <<>>
    <3>1. /\ Field(Typed, 1) \in Str /\ ~Contains(Field(Typed, 1), Sep)
          /\ Field(Typed, 3) \in Str /\ ~Contains(Field(Typed, 3), Sep)
      BY <2>2, FieldsAre
    <3>2. r.cmd = Field(Typed, 1) /\ r.id = Field(Typed, 3)
      BY DEF Deserialized
    <3> HIDE DEF r
    <3> QED BY <1>0, <3>1, <3>2, Answered
  <2>4. Handled(ran)' = Handled(r) /\ Answer(ran)' = Answer(r) /\ Typed' = Typed /\ Readable' = Readable
    BY <1>3, <2>1 DEF Stays
  <2> HIDE DEF r
  <2>5. RanIt'
    <3>1. ran' = Deserialized(Typed)
      BY <2>1 DEF r
    <3> QED BY <1>1, <1>2, <2>1, <2>4, <3>1 DEF RanIt
  <2>6. DownIs' /\ Dead'
    BY <1>1, <1>2, <2>1, <2>2, <2>4 DEF DownIs, Dead
  <2>7. WaitsOnlyWhen'
    BY <2>1, <2>3 DEF WaitsOnlyWhen
  <2> QED BY <1>4, <1>5, <1>6, <1>7, <2>5, <2>6, <2>7 DEF CommandInv
<1> QED BY <1>8, <1>9

\* The client takes an answer.
LEMMA AnswerTaken ==
  ASSUME CommandInv, TakeAnswer
  PROVE  CommandInv'
<1>0. /\ Given /\ Named /\ Asked /\ RanIt /\ DownIs /\ Dead /\ GotIt /\ Kept
      /\ WaitsOnlyWhen /\ ShowsTheShellsAnswer /\ DownloadLands
  BY DEF CommandInv
<1>1. /\ pc = "waiting" /\ down # <<>> /\ down' = <<>>
      /\ UNCHANGED <<line, world, up, ran, shown, files, stdinAlive>>
  BY DEF TakeAnswer
<1>2. /\ Readable /\ up = <<>> /\ ran # NotRun /\ ran = Deserialized(Typed)
      /\ Handled(ran).status # "panic" /\ down = Answer(ran)
  BY <1>0, <1>1 DEF DownIs, RanIt
<1>3. Stays
  BY <1>1, StaysSo
<1>4. /\ Deserializes(down) /\ Deserialized(down).id = ran.id
      /\ Deserialized(down).targetOrStatus = <<"200">> <=> Handled(ran).status = "200"
      /\ Handled(ran).status = "200" => Decompressed(Deserialized(down).payload) = Handled(ran).data
  <2>1. /\ Field(Typed, 1) \in Str /\ ~Contains(Field(Typed, 1), Sep)
        /\ Field(Typed, 3) \in Str /\ ~Contains(Field(Typed, 3), Sep)
    BY <1>0, <1>2, TypedArrives, FieldsAre
  <2>2. ran.cmd = Field(Typed, 1) /\ ran.id = Field(Typed, 3)
    BY <1>2 DEF Deserialized
  <2>3. ran.cmd \in Str /\ ~Contains(ran.cmd, Sep) /\ ran.id \in Str /\ ~Contains(ran.id, Sep)
    BY <2>1, <2>2
  <2> QED BY <1>0, <1>2, <2>3, Answered
<1>5. \/ ran.id # MessageId(line.me) /\ pc' = "waiting" /\ got' = got
      \/ Handled(ran).status # "200" /\ pc' = "exited" /\ got' = got
      \/ Handled(ran).status = "200" /\ pc' = "show" /\ got' = Handled(ran).data
  BY <1>1, <1>4 DEF TakeAnswer
<1>6. Handled(ran).data \in Text
  BY <1>0, HandledGives DEF IsResult
<1>7. Given' /\ Named'
  BY <1>0, <1>3 DEF Stays
<1>8. Asked'
  BY <1>1, <1>2, <1>3, <1>5 DEF Asked, Stays
<1>9. RanIt' /\ DownIs' /\ Dead'
  <2>1. Readable' = Readable /\ Typed' = Typed /\ Handled(ran)' = Handled(ran)
    BY <1>1, <1>3 DEF Stays
  <2> QED BY <1>0, <1>1, <2>1 DEF RanIt, DownIs, Dead
<1>10. GotIt' /\ Kept'
  <2>1. Readable' = Readable /\ Handled(ran)' = Handled(ran)
    BY <1>1, <1>3 DEF Stays
  <2> QED BY <1>0, <1>1, <1>2, <1>5, <1>6, <2>1 DEF GotIt, Kept
<1>11. WaitsOnlyWhen'
  <2>1. SUFFICES ASSUME pc' = "waiting" PROVE Contains(line.me \o Shell, Sep)
    <3>1. line' = line /\ Shell' = Shell
      BY <1>1, <1>3 DEF Stays
    <3> QED BY <3>1 DEF WaitsOnlyWhen
  <2>2. ran.id # MessageId(line.me)
    BY <1>5, <2>1
  <2>3. Contains(line.me, Sep) \/ Contains(Shell, Sep)
    <3>1. SUFFICES ASSUME ~Contains(line.me, Sep), ~Contains(Shell, Sep) PROVE FALSE
      OBVIOUS
    <3>2. Deserialized(Typed).id = MessageId(line.me)
      BY <1>0, <1>2, <3>1, TypedArrives
    <3> QED BY <1>2, <2>2, <3>2
  <2>4. line.me \in Str /\ Shell \in Str
    BY <1>0, <1>2, WordsAre, ReadableWords, Texts
  <2> QED BY <2>3, <2>4, ContainsEither
<1>12. ShowsTheShellsAnswer' /\ DownloadLands'
  BY <1>1, <1>5, <1>10, NothingSavedNow
<1> QED BY <1>7, <1>8, <1>9, <1>10, <1>11, <1>12 DEF CommandInv

\* What a client that has its answer knows.
LEMMA Knows ==
  ASSUME CommandInv, pc = "show"
  PROVE  /\ Given /\ Readable /\ up = <<>> /\ down = <<>> /\ ran # NotRun
         /\ Word \in {"ls", "download", "cp", "glob", "http", "tcp", "scripts"}
         /\ got \in Text /\ got \in Str
         /\ Word \in {"ls", "glob"} => got = Printed
         /\ Word = "scripts" => got = Code4(ScriptCode) \o Contents(world.body)
         /\ Word \in {"http", "tcp", "download", "cp"} => got = Contents(world.body)
         /\ IsDownload => world.path = "file" /\ HasFileName(RemotePath)
         /\ files = [p \in world.files |-> <<"old">>]
<1>0. /\ Given /\ Named /\ Asked /\ RanIt /\ DownIs /\ GotIt /\ Kept
  BY DEF CommandInv
<1>1. /\ Readable /\ up = <<>> /\ down = <<>> /\ ran # NotRun
      /\ got \in Text /\ Handled(ran).status = "200" /\ got = Handled(ran).data
      /\ ran = Deserialized(Typed) /\ files = [p \in world.files |-> <<"old">>]
  BY <1>0 DEF Asked, RanIt, DownIs, GotIt, Kept
<1>2. ran.cmd = RequestCmd
  BY <1>0, <1>1, TypedArrives
<1>3. /\ Word \in {"ls", "glob"} => got = Printed
      /\ Word = "scripts" => got = Code4(ScriptCode) \o Contents(world.body)
      /\ Word \in {"http", "tcp", "download", "cp"} => got = Contents(world.body)
      /\ Word \in {"download", "cp"} => world.path = "file"
  BY <1>0, <1>1, <1>2, HandledIs
<1>4. IsDownload => world.path = "file" /\ HasFileName(RemotePath)
  <2>1. IsDownload => world.path = "file"
    BY <1>3 DEF IsDownload
  <2>2. "file" # "none" /\ RemotePath = Arg(1)
    BY DEF RemotePath
  <2> QED BY <1>0, <1>1, <2>1, <2>2 DEF Named
<1> QED BY <1>0, <1>1, <1>3, <1>4, ReadableWords, Texts

\* A step of a client that has its answer.
LEMMA ClientEnds ==
  ASSUME CommandInv, pc = "show",
         UNCHANGED <<line, world, up, ran, down, got, stdinAlive>>,
         pc' \in {"done", "refused", "panicked", "unwritten"},
         shown' \in Text, Kept', ShowsTheShellsAnswer', DownloadLands'
  PROVE  CommandInv'
<1>0. /\ Given /\ Named /\ Asked /\ RanIt /\ DownIs /\ Dead /\ GotIt
  BY DEF CommandInv
<1>1. Stays
  BY StaysSo
<1>2. Readable' = Readable /\ Typed' = Typed /\ Handled(ran)' = Handled(ran) /\ Answer(ran)' = Answer(ran)
  BY <1>1 DEF Stays
<1>3. Given' /\ Named'
  BY <1>0, <1>1 DEF Stays
<1>4. Readable /\ up = <<>> /\ down = <<>>
  BY Knows
<1>5. Asked'
  BY <1>2, <1>4 DEF Asked
<1>6. RanIt' /\ DownIs' /\ Dead'
  BY <1>0, <1>2, <1>4 DEF RanIt, DownIs, Dead
<1>7. GotIt'
  BY <1>0, <1>2 DEF GotIt
<1>8. WaitsOnlyWhen'
  BY DEF WaitsOnlyWhen
<1> QED BY <1>3, <1>5, <1>6, <1>7, <1>8 DEF CommandInv

\* A step that leaves the files as they were.
LEMMA LeftAlone ==
  ASSUME CommandInv, pc = "show", UNCHANGED <<line, world, files>>,
         IsDownload => pc' \in {"refused", "unwritten"} \/ (pc' = "done" /\ LocalPath = <<"-">>)
  PROVE  DownloadLands' /\ Kept'
<1>1. files = [p \in world.files |-> <<"old">>] /\ Kept
  BY Knows DEF CommandInv
<1>2. Kept'
  BY <1>1 DEF Kept
<1>3. \A p \in DOMAIN files' \cup world'.files : p \in world'.files /\ files'[p] = <<"old">>
  BY <1>1
<1>4. IsDownload' = IsDownload /\ LocalPath' = LocalPath
  BY StaysSo DEF Stays
<1> QED BY <1>2, <1>3, <1>4 DEF DownloadLands

\* What one write took of a text is a text, and its beginning.
LEMMA Beginnings ==
  ASSUME NEW text \in Text, NEW n \in 0..Len(text)
  PROVE  SubSeq(text, 1, n) \in Text /\ IsPrefix(SubSeq(text, 1, n), text)
<1> DEFINE s == SubSeq(text, 1, n)
<1>1. s \in Text /\ Len(s) = n /\ n \in Nat /\ Len(text) \in Nat
  BY DEF Text
<1>2. SubSeq(s, 1, n) = s
  <2>1. \A i \in 1..n : SubSeq(s, 1, n)[i] = s[i]
    BY <1>1 DEF Text
  <2>2. SubSeq(s, 1, n) \in Seq(Token \ {"zstd"}) /\ Len(SubSeq(s, 1, n)) = n
    BY <1>1 DEF Text
  <2> QED BY <1>1, <2>1, <2>2 DEF Text
<1>3. IsPrefix(s, text)
  BY <1>1, <1>2 DEF IsPrefix
<1> QED BY <1>1, <1>3

LEMMA Shows ==
  ASSUME CommandInv, ShowListing \/ ShowPage \/ ShowDownload
  PROVE  CommandInv'
<1>1. /\ pc = "show" /\ pc' = "done"
      /\ UNCHANGED <<line, world, up, ran, down, got, files, stdinAlive>>
  BY DEF ShowListing, ShowPage, ShowDownload
<1>2. Stays
  BY <1>1, StaysSo
<1>3. got \in Text /\ <<>> \in Text /\ (Word \in {"ls", "glob"} => got = Printed)
      /\ (Word \in {"http", "tcp", "download", "cp"} => got = Contents(world.body))
  BY <1>1, Knows, OldText
<1>4. shown' \in Text
  <2>1. CASE ShowListing \/ ShowPage
    BY <1>3, <2>1 DEF ShowListing, ShowPage
  <2>2. CASE ShowDownload
    BY <1>3, <2>2, Beginnings DEF ShowDownload
  <2> QED BY <2>1, <2>2
<1>5. CASE ShowListing
  <2>1. Word \in {"ls", "glob"} /\ shown' = Printed
    BY <1>3, <1>5 DEF ShowListing
  <2>2. ~IsDownload
    BY <2>1 DEF IsDownload
  <2>3. DownloadLands' /\ Kept'
    BY <1>1, <2>2, LeftAlone
  <2>4. ShowsTheShellsAnswer'
    BY <1>2, <2>1 DEF ShowsTheShellsAnswer, Stays
  <2> QED BY <1>1, <1>4, <2>3, <2>4, ClientEnds
<1>6. CASE ShowPage
  <2>1. /\ Word = "http" /\ (shown' = got \/ shown' = <<>>)
        /\ Format = "raw" => shown' = got
    BY <1>6 DEF ShowPage
  <2>2. ~IsDownload
    BY <2>1 DEF IsDownload
  <2>3. DownloadLands' /\ Kept'
    BY <1>1, <2>2, LeftAlone
  <2>4. Printed = Contents(world.body)
    BY <2>1 DEF Printed
  <2>5. got = Contents(world.body)
    BY <1>3, <2>1
  <2>6. shown' = Printed' \/ (Word' = "http" /\ Format' # "raw" /\ shown' = <<>>)
    BY <1>2, <2>1, <2>4, <2>5 DEF Stays
  <2>7. ShowsTheShellsAnswer'
    BY <2>6 DEF ShowsTheShellsAnswer
  <2> QED BY <1>1, <1>4, <2>3, <2>7, ClientEnds
<1>7. CASE ShowDownload
  <2>1. IsDownload /\ LocalPath = <<"-">> /\ IsPrefix(shown', got)
    BY <1>3, <1>7, Beginnings DEF ShowDownload
  <2>2. DownloadLands' /\ Kept'
    BY <1>1, <2>1, LeftAlone
  <2>3. Printed = Contents(world.body)
    BY <2>1 DEF Printed, IsDownload
  <2>4. got = Contents(world.body)
    BY <1>3, <2>1 DEF IsDownload
  <2>5. ShowsTheShellsAnswer'
    BY <1>2, <2>1, <2>3, <2>4 DEF ShowsTheShellsAnswer, Stays
  <2> QED BY <1>1, <1>4, <2>2, <2>5, ClientEnds
<1> QED BY <1>5, <1>6, <1>7

LEMMA OutputShown ==
  ASSUME CommandInv, ShowOutput
  PROVE  CommandInv'
<1>1. /\ pc = "show" /\ pc' \in {"done", "panicked"} /\ Word \in {"tcp", "scripts"}
      /\ UNCHANGED <<line, world, up, ran, down, got, files, stdinAlive>>
  BY DEF ShowOutput
<1>2. Stays
  BY <1>1, StaysSo
<1>3. /\ Given /\ got \in Text
      /\ Word = "scripts" => got = Code4(ScriptCode) \o Contents(world.body)
      /\ Word = "tcp" => got = Contents(world.body)
  BY <1>1, Knows
<1>4. ~IsDownload
  BY <1>1 DEF IsDownload
<1>5. DownloadLands' /\ Kept'
  BY <1>1, <1>4, LeftAlone
<1> DEFINE prefix == IF Word = "tcp" \/ Code(got) = 0 THEN <<>> ELSE <<ToString(Code(got))>>
           output == IF Word = "tcp" THEN got ELSE SubSeq(got, 5, Len(got))
           body == Contents(world.body)
           exit == IF ScriptCode = 0 THEN <<>> ELSE <<ToString(ScriptCode)>>
<1>6. \/ shown' = prefix \o output /\ pc' = "done"
      \/ shown' = prefix /\ pc' = "panicked"
  BY DEF ShowOutput
<1>7. body \in Text /\ ScriptCode \in 0..255 /\ exit \in Text
  <2>1. ScriptCode \in 0..255 /\ body \in Text
    BY <1>3, Bodies, Codes
  <2>2. ToString(ScriptCode) \in Token /\ ToString(ScriptCode) # "zstd"
    BY <2>1, BytesAssumption
  <2> QED BY <2>1, <2>2, Texts, OldText
<1>8. CASE Word = "tcp"
  <2>1. prefix = <<>> /\ output = body
    BY <1>3, <1>8
  <2>2. <<>> \o body = body
    BY <1>7 DEF Text
  <2>3. Printed = body
    BY <1>8 DEF Printed
  <2>4. \/ shown' = body /\ pc' = "done"
        \/ shown' = <<>> /\ pc' = "panicked"
    BY <1>6, <2>1, <2>2
  <2>5. shown' \in Text
    BY <1>7, <2>4, OldText
  <2>6. ShowsTheShellsAnswer'
    BY <1>2, <2>3, <2>4 DEF ShowsTheShellsAnswer, Stays
  <2> QED BY <1>1, <1>5, <2>5, <2>6, ClientEnds
<1>9. CASE Word = "scripts"
  <2>1. Code(got) = ScriptCode /\ SubSeq(got, 5, Len(got)) = body
    <3>1. got = Code4(ScriptCode) \o body /\ body \in Str
      BY <1>3, <1>7, <1>9, Texts
    <3> QED BY <1>7, <3>1, CodeIs
  <2>2. prefix = exit /\ output = body
    BY <1>9, <2>1
  <2>3. Printed = exit \o body
    BY <1>9 DEF Printed
  <2> HIDE DEF prefix, output, body, exit
  <2>4. \/ shown' = exit \o body /\ pc' = "done"
        \/ shown' = exit /\ pc' = "panicked"
    BY <1>6, <2>2
  <2>5. shown' \in Text
    BY <1>7, <2>4, Texts
  <2>6. ShowsTheShellsAnswer'
    BY <1>2, <2>3, <2>4 DEF ShowsTheShellsAnswer, Stays
  <2> QED BY <1>1, <1>5, <2>5, <2>6, ClientEnds
<1> QED BY <1>1, <1>8, <1>9

\* Where a download goes: to the path that was named, or into the folder.
LEMMA DestinationIs ==
  ASSUME Given, Readable, HasFileName(RemotePath), Destination # <<>>
  PROVE  \/ Resolved(Destination) = Resolved(LocalPath)
         \/ /\ Resolved(LocalPath) \in world.dirs
            /\ Resolved(Destination) = Append(Resolved(LocalPath), FileName(RemotePath))
<1>1. NumArgs \in Nat /\ NumArgs >= 1 /\ \A i \in 1..NumArgs : Arg(i) \in Str
  BY ReadableWords, Texts
<1>2. RemotePath \in Str
  <2>1. 1 \in 1..NumArgs
    BY <1>1
  <2> QED BY <1>1, <2>1 DEF RemotePath
<1>3. LocalPath \in Str
  <2>1. NumArgs < 2 \/ 2 \in 1..NumArgs
    BY <1>1
  <2>2. <<".", Sep>> \in Str
    <3> DEFINE a == "."
               b == Sep
    <3>1. a \in Token /\ b \in Token
      BY TokensAssumption
    <3> HIDE DEF a, b
    <3>2. <<a, b>> \in Seq(Token)
      BY <3>1
    <3> QED BY <3>2 DEF Str, a, b
  <2> QED BY <1>1, <2>1, <2>2 DEF LocalPath
<1>4. FileName(RemotePath) \in Name
  <2> DEFINE s == Resolved(RemotePath)
  <2>1. s \in Seq(Name) /\ s # <<>>
    BY <1>2, ResolvedSteps DEF HasFileName
  <2> HIDE DEF s
  <2>2. s[Len(s)] \in Name
    BY <2>1
  <2> QED BY <2>2 DEF FileName, Last, s
<1>5. CASE IsDir(LocalPath)
  <2>1. Destination = Within(LocalPath, FileName(RemotePath))
    BY <1>5 DEF Destination
  <2>2. Resolved(LocalPath) \in world.dirs
    BY <1>5 DEF IsDir
  <2> QED BY <1>3, <1>4, <2>1, <2>2, WithinIs
<1>6. CASE ~IsDir(LocalPath)
  <2>1. Destination = LocalPath
    BY <1>6 DEF Destination
  <2> QED BY <2>1
<1> QED BY <1>5, <1>6

\* A write changes the one file that was named.
LEMMA Written ==
  ASSUME CommandInv, pc = "show", UNCHANGED <<line, world, got>>,
         IsDownload, LocalPath # <<"-">>, HasFileName(RemotePath), Destination # <<>>,
         CanWrite(Destination), pc' \in {"done", "unwritten"},
         NEW c \in Text, pc' = "done" => c = got,
         files' = [p \in DOMAIN files \cup {Resolved(Destination)} |->
                     IF p = Resolved(Destination) THEN c ELSE files[p]]
  PROVE  Kept' /\ DownloadLands'
<1> DEFINE R == Resolved(Destination)
           L == Resolved(LocalPath)
           N == FileName(RemotePath)
<1>1. /\ Given /\ Readable /\ files = [p \in world.files |-> <<"old">>]
      /\ world.path = "file" /\ got = Contents(world.body)
      /\ \A p \in DOMAIN files : files[p] \in Text
  <2>1. Word \in {"http", "tcp", "download", "cp"}
    BY DEF IsDownload
  <2> QED BY <2>1, Knows DEF CommandInv, Kept
<1>2. R = L \/ (L \in world.dirs /\ R = Append(L, N))
  BY <1>1, DestinationIs
<1>3. R \notin world.dirs /\ Front(R) \in world.dirs
  BY DEF CanWrite
<1>4. IsDownload' = IsDownload /\ LocalPath' = LocalPath /\ RemotePath' = RemotePath
  BY StaysSo DEF Stays
<1> HIDE DEF R
<1>5. files' = [p \in DOMAIN files \cup {R} |-> IF p = R THEN c ELSE files[p]]
  BY DEF R
<1>6. DOMAIN files' = world.files \cup {R} /\ files'[R] = c
  BY <1>1, <1>5
<1>7. \A p \in DOMAIN files' : p # R => p \in world.files /\ files'[p] = <<"old">>
  BY <1>1, <1>5
<1>8. Kept'
  <2>1. \A p \in DOMAIN files' : files'[p] \in Text
    BY <1>6, <1>7, OldText
  <2> QED BY <2>1 DEF Kept
<1>9. ASSUME NEW p \in DOMAIN files' \cup world'.files, p \notin world'.files \/ files'[p] # <<"old">>
      PROVE  /\ IsDownload' /\ world'.path = "file" /\ pc' \in {"done", "unwritten"}
             /\ p \notin world'.dirs /\ Front(p) \in world'.dirs
             /\ \/ p = Resolved(LocalPath')
                \/ /\ Resolved(LocalPath') \in world'.dirs
                   /\ p = Append(Resolved(LocalPath'), FileName(RemotePath'))
             /\ pc' = "done" => files'[p] = Contents(world'.body)
  <2>1. p \in DOMAIN files'
    BY <1>6
  <2>2. p = R
    BY <1>7, <1>9, <2>1
  <2>3. pc' = "done" => files'[p] = Contents(world.body)
    BY <1>1, <1>6, <2>2
  <2> QED BY <1>1, <1>2, <1>3, <1>4, <2>2, <2>3
<1>10. (pc' = "done" /\ IsDownload' /\ LocalPath' # <<"-">>) => \E p \in DOMAIN files' : files'[p] = got'
  <2>1. pc' = "done" => R \in DOMAIN files' /\ files'[R] = got'
    BY <1>6
  <2> QED BY <2>1
<1>11. ~(pc' = "panicked")
  OBVIOUS
<1>12. DownloadLands'
  BY <1>9, <1>10, <1>11 DEF DownloadLands
<1> QED BY <1>8, <1>12

LEMMA Downloads ==
  ASSUME CommandInv, RefuseDestination \/ SaveDownload \/ WriteFails
  PROVE  CommandInv'
<1>1. /\ pc = "show" /\ IsDownload /\ LocalPath # <<"-">>
      /\ UNCHANGED <<line, world, up, ran, down, got, shown, stdinAlive>>
  BY DEF RefuseDestination, SaveDownload, WriteFails
<1>2. HasFileName(RemotePath) /\ got \in Text /\ shown' \in Text
  BY <1>1, Knows DEF CommandInv, GotIt
<1>3. ShowsTheShellsAnswer'
  <2>1. IsDownload' = IsDownload /\ LocalPath' = LocalPath
    BY <1>1, StaysSo DEF Stays
  <2> QED BY <1>1, <2>1 DEF ShowsTheShellsAnswer
<1>4. CASE RefuseDestination
  <2>1. pc' = "refused" /\ files' = files
    BY <1>2, <1>4 DEF RefuseDestination
  <2>2. DownloadLands' /\ Kept'
    BY <1>1, <2>1, LeftAlone
  <2> QED BY <1>1, <1>2, <1>3, <2>1, <2>2, ClientEnds
<1>5. CASE SaveDownload
  <2>1. /\ pc' = "done" /\ Destination # <<>> /\ CanWrite(Destination)
        /\ files' = [p \in DOMAIN files \cup {Resolved(Destination)} |->
                       IF p = Resolved(Destination) THEN got ELSE files[p]]
    BY <1>5 DEF SaveDownload
  <2>2. DownloadLands' /\ Kept'
    BY <1>1, <1>2, <2>1, Written
  <2> QED BY <1>1, <1>2, <1>3, <2>1, <2>2, ClientEnds
<1>6. CASE WriteFails
  <2>1. pc' = "unwritten" /\ Destination # <<>>
    BY <1>6 DEF WriteFails
  <2>2. CASE CanWrite(Destination)
    <3>1. files' = [p \in DOMAIN files \cup {Resolved(Destination)} |->
                      IF p = Resolved(Destination) THEN <<"cut">> ELSE files[p]]
      BY <1>6, <2>2 DEF WriteFails
    <3>2. DownloadLands' /\ Kept'
      BY <1>1, <1>2, <2>1, <2>2, <3>1, OldText, Written
    <3> QED BY <1>1, <1>2, <1>3, <2>1, <3>2, ClientEnds
  <2>3. CASE ~CanWrite(Destination)
    <3>1. files' = files
      BY <1>6, <2>3 DEF WriteFails
    <3>2. DownloadLands' /\ Kept'
      BY <1>1, <2>1, <3>1, LeftAlone
    <3> QED BY <1>1, <1>2, <1>3, <2>1, <3>2, ClientEnds
  <2> QED BY <2>2, <2>3
<1> QED BY <1>4, <1>5, <1>6

\* A step that changes nothing.
LEMMA NoStep ==
  ASSUME CommandInv, UNCHANGED vars
  PROVE  CommandInv'
<1>0. /\ Given /\ Named /\ Asked /\ RanIt /\ DownIs /\ Dead /\ GotIt /\ Kept
      /\ WaitsOnlyWhen /\ ShowsTheShellsAnswer /\ DownloadLands
  BY DEF CommandInv
<1>1. UNCHANGED <<pc, line, world, up, ran, down, got, shown, files, stdinAlive>>
  BY DEF vars
<1>2. Stays
  BY <1>1, StaysSo
<1>3. Handled(ran)' = Handled(ran) /\ Answer(ran)' = Answer(ran)
  BY <1>1, <1>2 DEF Stays
<1>4. Given' /\ Named'
  BY <1>0, <1>2 DEF Stays
<1>5. Asked' /\ RanIt' /\ DownIs' /\ Dead' /\ GotIt' /\ Kept'
  BY <1>0, <1>1, <1>2, <1>3 DEF Asked, RanIt, DownIs, Dead, GotIt, Kept, Stays
<1>6. WaitsOnlyWhen' /\ ShowsTheShellsAnswer'
  BY <1>0, <1>1, <1>2 DEF WaitsOnlyWhen, ShowsTheShellsAnswer, Stays
<1>7. DownloadLands'
  BY <1>0, <1>1, <1>2 DEF DownloadLands, Stays
<1> QED BY <1>4, <1>5, <1>6, <1>7 DEF CommandInv

LEMMA CommandInvariant == Spec => []CommandInv
<1>1. ASSUME CommandInv, [Next]_vars PROVE CommandInv'
  <2>1. CASE Misread \/ NoServer \/ Send
    BY <1>1, <2>1, ClientStarts
  <2>2. CASE ShellDrops \/ ShellRuns
    BY <1>1, <2>2, ShellSteps
  <2>3. CASE TakeAnswer
    BY <1>1, <2>3, AnswerTaken
  <2>4. CASE ShowListing \/ ShowPage \/ ShowDownload
    BY <1>1, <2>4, Shows
  <2>5. CASE ShowOutput
    BY <1>1, <2>5, OutputShown
  <2>6. CASE RefuseDestination \/ SaveDownload \/ WriteFails
    BY <1>1, <2>6, Downloads
  <2>7. CASE UNCHANGED vars
    BY <1>1, <2>7, NoStep
  <2> QED BY <1>1, <2>1, <2>2, <2>3, <2>4, <2>5, <2>6, <2>7 DEF Next
<1> QED BY <1>1, InitInv, PTL DEF Spec

-----------------------------------------------------------------------------
(* The theorems *)

LEMMA StrTokens ==
  ASSUME NEW t \in Str
  PROVE  \A i \in DOMAIN t : t[i] \in Token
BY DEF Str

LEMMA TypesFollow ==
  ASSUME CommandInv
  PROVE  TypeOK
<1>0. /\ Given /\ Asked /\ RanIt /\ DownIs /\ Dead /\ GotIt /\ Kept
  BY DEF CommandInv
<1>1. up \in Str
  <2>1. up # <<>> => Readable /\ up = Typed
    BY <1>0 DEF Asked
  <2>2. <<>> \in Str
    BY DEF Str
  <2> QED BY <1>0, <2>1, <2>2, TypedArrives
<1>2. ran # NotRun => Typed \in Str /\ ran = Deserialized(Typed) /\ ran.kind = <<"req">> /\ ran.chunk = <<"last">>
  BY <1>0, TypedArrives DEF RanIt
<1>3. down \in Str
  <2>1. CASE down = <<>>
    BY <2>1 DEF Str
  <2>2. CASE down # <<>>
    <3>1. ran # NotRun /\ Handled(ran).status # "panic" /\ down = Answer(ran)
      BY <1>0, <2>2 DEF DownIs
    <3>2. ran.cmd = Field(Typed, 1) /\ ran.id = Field(Typed, 3) /\ Typed \in Str
      BY <1>2, <3>1 DEF Deserialized
    <3>3. ran.cmd \in Str /\ ~Contains(ran.cmd, Sep) /\ ran.id \in Str /\ ~Contains(ran.id, Sep)
      BY <3>2, FieldsAre
    <3> QED BY <1>0, <3>1, <3>3, Answered
  <2> QED BY <2>1, <2>2
<1>4. got \in Text /\ shown \in Text /\ \A p \in DOMAIN files : files[p] \in Text
  BY <1>0 DEF GotIt, Kept
<1>5. \A t \in {up, down, got, shown} : \A i \in DOMAIN t : t[i] \in Token
  BY <1>1, <1>3, <1>4, Texts, StrTokens
<1>6. \A t \in {got, shown} \cup {files[p] : p \in DOMAIN files} : ~Contains(t, "zstd")
  BY <1>4, Texts
<1>7. /\ pc \in {"typed", "waiting", "show", "done", "exited", "panicked", "refused", "unwritten"}
      /\ line \in Lines /\ stdinAlive \in BOOLEAN
  BY <1>0 DEF Asked, Given, Dead
<1> QED BY <1>2, <1>5, <1>6, <1>7 DEF TypeOK

\* The types, and that no compressed bytes are shown or saved: what is taken from
\* an answer is always what a handler has given (send_command, handle_command_response).
THEOREM TypeCorrect == Spec => []TypeOK
BY CommandInvariant, TypesFollow, PTL

\* A command that ends well has printed what the machine had to say, or the
\* beginning of it for a download to "-", whatever the ids, the words and the
\* machines: even where a separator in an id shifts the
\* fields of a request, the command is still the one that was typed, and the
\* answer carries an id that is one field (to_message_payload, deserialize,
\* show_command_response of scripts).
THEOREM AnswersAreShown == Spec => []ShowsTheShellsAnswer
<1>1. CommandInv => ShowsTheShellsAnswer
  BY DEF CommandInv
<1> QED BY <1>1, CommandInvariant, PTL

\* A download changes the file that was named, or the one in the folder that was
\* named, and no other, for any files and folders (compute_destination, save_file).
THEOREM DownloadsLand == Spec => []DownloadLands
<1>1. CommandInv => DownloadLands
  BY DEF CommandInv
<1> QED BY <1>1, CommandInvariant, PTL

\* A command is left waiting only for an empty request, for an id with a separator,
\* or because the stdin thread is gone (Request::chunk, deserialize).
THEOREM WaitsForAReason == Spec => []WaitsOnlyWhen
<1>1. CommandInv => WaitsOnlyWhen
  BY DEF CommandInv
<1> QED BY <1>1, CommandInvariant, PTL

\* Only a refused connection, a name that is not UTF-8 in an ls, and a time before
\* 1970 in an ls or a glob end the stdin thread (process_tcp_command,
\* process_ls_command, process_glob_command, FileInfos::from_metadata).
THEOREM ThreadSurvives == Spec => []StdinSurvives
<1>1. ASSUME CommandInv PROVE StdinSurvives
  <2>1. Given /\ Dead /\ RanIt
    BY <1>1 DEF CommandInv
  <2>2. SUFFICES ASSUME ~stdinAlive
                 PROVE  \/ Word = "tcp" /\ world.peer = "refused"
                        \/ Word = "ls" /\ "odd" \in world.match
                        \/ Word \in {"ls", "glob"} /\ "ancient" \in world.match
    BY DEF StdinSurvives
  <2>3. Readable /\ ran = Deserialized(Typed) /\ Handled(ran).status = "panic"
    BY <2>1, <2>2 DEF Dead, RanIt
  <2>4. ran.cmd = RequestCmd
    BY <2>1, <2>3, TypedArrives
  <2> QED BY <2>1, <2>3, <2>4, HandledIs
<1> QED BY <1>1, CommandInvariant, PTL

\* A command line that says nothing twice: no id holds the mark of a last chunk as
\* a name between separators, which would stand for the mark of the message when
\* the separators shift its fields; and the first parameter does not begin with an
\* output flag, as it does when the flag was given twice.
PlainLine ==
  Readable =>
    /\ ~Contains(line.me, "last") /\ ~Contains(Shell, "last")
    /\ \A w \in {Json, Raw} : ~IsPrefix(w, Arg(1))

LEMMA JoinsThree ==
  ASSUME NEW a \in Str, NEW b \in Str, NEW c \in Str, NEW d \in Str
  PROVE  \E s \in Str : a \o b \o c \o d = a \o s
<1>1. a \o b \o c \o d = a \o (b \o c \o d)
  BY DEF Str
<1>2. b \o c \o d \in Str
  BY DEF Str
<1> QED BY <1>1, <1>2, Zenon

LEMMA FirstKept ==
  ASSUME NEW u \in Str, Len(u) >= 1
  PROVE  SubSeq(u, 1, 1)[1] = u[1]
BY DEF Str

LEMMA NotAFlag ==
  ASSUME NEW s \in Str, NEW w \in {Json, Raw}
  PROVE  ~IsPrefix(w, <<"{">> \o s)
<1> DEFINE u == <<"{">> \o s
<1>1. u[1] = "{" /\ Len(u) = 1 + Len(s) /\ Len(s) \in Nat /\ u \in Seq(Token)
  <2> DEFINE b == "{"
  <2>1. b \in Token
    BY TokensAssumption
  <2> HIDE DEF b
  <2>2. (<<b>> \o s)[1] = b /\ Len(<<b>> \o s) = 1 + Len(s) /\ Len(s) \in Nat /\ <<b>> \o s \in Seq(Token)
    BY <2>1 DEF Str
  <2> QED BY <2>2 DEF b
<1> HIDE DEF u
<1>2. PICK f \in {"--json", "--raw"} : w = <<f>>
  BY DEF Json, Raw
<1>3. f # "{"
  OBVIOUS
<1> HIDE DEF Json, Raw
<1>4. SubSeq(u, 1, 1)[1] = u[1]
  <2>1. Len(u) >= 1
    <3>1. Len(u) = 1 + Len(s) /\ Len(s) \in Nat
      BY <1>1
    <3> QED BY <3>1
  <2>2. u \in Str
    BY <1>1, Zenon DEF Str
  <2> QED BY <2>1, <2>2, FirstKept
<1>5. Len(<<f>>) = 1 /\ SubSeq(<<f>>, 1, 1)[1] = f
  OBVIOUS
<1>6. ~IsPrefix(<<f>>, u)
  BY <1>1, <1>3, <1>4, <1>5 DEF IsPrefix
<1> QED BY <1>2, <1>6 DEF u

LEMMA PayloadNoFlag ==
  ASSUME Given, Readable, \A w \in {Json, Raw} : ~IsPrefix(w, Arg(1))
  PROVE  \A w \in {Json, Raw} : ~IsPrefix(w, RequestPayload)
<1>1. /\ Word \in {"ls", "download", "cp", "glob", "http", "tcp", "scripts"}
      /\ NumArgs \in Nat /\ NumArgs >= 1
      /\ \A i \in 1..NumArgs : Arg(i) \in Str
      /\ Word = "http" => NumArgs >= 2
      /\ Word = "tcp" => NumArgs >= 3
  BY ReadableWords, Texts
<1>2. CASE Word \in {"ls", "download", "cp", "glob"}
  <2>1. RequestPayload = Arg(1)
    BY <1>2 DEF RequestPayload
  <2> QED BY <2>1
<1>3. CASE Word \in {"http", "tcp", "scripts"}
  <2>1. \E s \in Str : RequestPayload = <<"{">> \o s
    <3>1. Arg(1) \in Str
      <4>1. 1 \in 1..NumArgs
        BY <1>1
      <4> QED BY <1>1, <4>1
    <3>2. <<"{">> \in Str
      BY TokensAssumption, OneToken
    <3>3. CASE Word = "scripts"
      <4>1. RequestPayload = <<"{">> \o Arg(1)
        BY <3>3 DEF RequestPayload
      <4> QED BY <3>1, <4>1
    <3>4. CASE Word = "tcp"
      <4>1. RequestPayload = <<"{">> \o Arg(1) \o Arg(2) \o Arg(3)
        BY <3>4 DEF RequestPayload
      <4>2. 2 \in 1..NumArgs /\ 3 \in 1..NumArgs
        BY <1>1, <3>4
      <4>3. Arg(2) \in Str /\ Arg(3) \in Str
        BY <1>1, <4>2
      <4>4. \E s \in Str : <<"{">> \o Arg(1) \o Arg(2) \o Arg(3) = <<"{">> \o s
        BY <3>1, <3>2, <4>3, JoinsThree, Zenon
      <4> QED BY <4>1, <4>4, Zenon
    <3>5. CASE Word = "http"
      <4> DEFINE body == IF NumArgs > 2 THEN Arg(3) ELSE <<>>
      <4>1. RequestPayload = <<"{">> \o Arg(1) \o Arg(2) \o body
        BY <3>5 DEF RequestPayload
      <4>2. 2 \in 1..NumArgs /\ (NumArgs > 2 => 3 \in 1..NumArgs)
        BY <1>1, <3>5
      <4>3. Arg(2) \in Str /\ body \in Str
        <5>1. <<>> \in Str
          BY DEF Str
        <5> QED BY <1>1, <4>2, <5>1
      <4> HIDE DEF body
      <4>4. \E s \in Str : <<"{">> \o Arg(1) \o Arg(2) \o body = <<"{">> \o s
        BY <3>1, <3>2, <4>3, JoinsThree, Zenon
      <4> QED BY <4>1, <4>4, Zenon
    <3> QED BY <1>3, <3>3, <3>4, <3>5
  <2> QED BY <2>1, NotAFlag
<1> QED BY <1>1, <1>2, <1>3

\* The shell runs what was typed, with all of its parameters and for the shell that
\* was named: for any words and any ids, with separators wherever they are, in a
\* plain line (to_message_payload, deserialize, consume_extra_arg).
THEOREM RunsTheTyped == Spec /\ PlainLine => []RunsWhatWasTyped
<1>1. ASSUME CommandInv, PlainLine PROVE RunsWhatWasTyped
  <2>1. SUFFICES ASSUME ran # NotRun
                 PROVE  /\ ran.cmd = RequestCmd
                        /\ ran.id = MessageId(line.me) /\ ran.targetOrStatus = ShellTarget(Shell)
                        /\ ran.payload = RequestPayload
                        /\ \A w \in {Json, Raw} : ~IsPrefix(w, ran.payload)
    BY DEF RunsWhatWasTyped, RequestCmd
  <2>2. Given /\ Readable /\ ran = Deserialized(Typed) /\ ran.chunk = <<"last">>
    BY <1>1, <2>1 DEF CommandInv, RanIt
  <2>3. ~Contains(line.me, Sep) /\ ~Contains(Shell, Sep)
    BY <1>1, <2>2, TypedArrives DEF PlainLine
  <2>4. ran = [cmd |-> RequestCmd, kind |-> <<"req">>, id |-> MessageId(line.me),
               targetOrStatus |-> ShellTarget(Shell), chunk |-> <<"last">>,
               payload |-> RequestPayload]
    BY <2>2, <2>3, TypedArrives
  <2>5. \A w \in {Json, Raw} : ~IsPrefix(w, RequestPayload)
    BY <1>1, <2>2, PayloadNoFlag DEF PlainLine
  <2> QED BY <2>4, <2>5
<1>2. ASSUME PlainLine, [Next]_vars PROVE PlainLine'
  <2>1. UNCHANGED <<line, world>>
    BY <1>2 DEF Next, Misread, NoServer, Send, ShellDrops, ShellRuns, TakeAnswer, ShowListing,
      ShowPage, ShowOutput, ShowDownload, RefuseDestination, SaveDownload, WriteFails, vars
  <2>2. Words' = Words /\ Readable' = Readable
    BY <2>1, StaysSo DEF Stays
  <2>3. Shell' = Shell /\ Arg(1)' = Arg(1)
    BY <2>2 DEF Shell, Arg
  <2> QED BY <1>2, <2>1, <2>2, <2>3 DEF PlainLine
<1> QED BY <1>1, <1>2, CommandInvariant, PTL DEF Spec

=============================================================================
