---------------------------- MODULE Framing_proofs ----------------------------
(***************************************************************************)
(* Proofs about Framing for any contents, any size of the read buffer and  *)
(* any number of messages and connections.                                 *)
(***************************************************************************)
EXTENDS Framing, SequenceRecursion, SequenceTheorems, TLAPS

Str   == Seq(Chars)
Parts == Seq(Str) \ {<<>>}
NoNl  == Chars \ {"nl"}

KnownMessage == [mtype : {"iii", "ccc"}, content : Contents]
Found        == [mtype : {"iii", "ccc"}, content : Str]

-----------------------------------------------------------------------------
(* Sequences of characters *)

\* Two sequences over S, one behind the other.
Behind(a, b, S) ==
  /\ a \o b \in Seq(S) /\ Len(a \o b) = Len(a) + Len(b)
  /\ \A j \in 1..Len(a) : (a \o b)[j] = a[j]
  /\ \A j \in 1..Len(b) : (a \o b)[Len(a) + j] = b[j]
  /\ SubSeq(a \o b, 1, Len(a)) = a

LEMMA ConcatIs ==
  ASSUME NEW S, NEW a \in Seq(S), NEW b \in Seq(S) PROVE Behind(a, b, S)
BY DEF Behind

LEMMA AppendBehind ==
  ASSUME NEW a \in Seq(Chars), NEW b \in Seq(Chars), NEW c \in Chars
  PROVE  Append(a \o b, c) = a \o Append(b, c)
OBVIOUS

\* One character more, and what is behind the first r.
LEMMA SubSeqNext ==
  ASSUME NEW w \in Seq(Chars), NEW i \in Nat, i + 1 <= Len(w)
  PROVE  /\ SubSeq(w, 1, i) \in Seq(Chars)
         /\ SubSeq(w, 1, i + 1) = Append(SubSeq(w, 1, i), w[i + 1])
OBVIOUS

LEMMA SubSeqFrom ==
  ASSUME NEW u \in Seq(Chars), NEW r \in Nat, r <= Len(u)
  PROVE  LET z == SubSeq(u, r + 1, Len(u))
         IN z \in Seq(Chars) /\ Len(z) = Len(u) - r /\ \A i \in 1..Len(z) : z[i] = u[r + i]
OBVIOUS

\* A suffix, by its positions.
LEMMA SuffixIs ==
  ASSUME NEW S, NEW x \in Seq(S), NEW t \in Seq(S)
  PROVE  IsSuffix(x, t) <=> /\ Len(x) <= Len(t)
                            /\ \A i \in 1..Len(x) : x[i] = t[Len(t) - Len(x) + i]
<1> DEFINE rx == Reverse(x)
           rt == Reverse(t)
<1>1. /\ rx \in Seq(S) /\ rt \in Seq(S) /\ Len(rx) = Len(x) /\ Len(rt) = Len(t)
      /\ \A i \in 1..Len(x) : rx[i] = x[Len(x) - i + 1]
      /\ \A i \in 1..Len(t) : rt[i] = t[Len(t) - i + 1]
  BY DEF Reverse
<1>2. IsSuffix(x, t) <=> Len(rx) <= Len(rt) /\ SubSeq(rx, 1, Len(rx)) = SubSeq(rt, 1, Len(rx))
  BY DEF IsSuffix, IsPrefix
<1> HIDE DEF rx, rt
<1>3. SUFFICES ASSUME Len(x) <= Len(t)
               PROVE  SubSeq(rx, 1, Len(x)) = SubSeq(rt, 1, Len(x)) <=>
                        \A i \in 1..Len(x) : x[i] = t[Len(t) - Len(x) + i]
  BY <1>1, <1>2
<1>4. SubSeq(rx, 1, Len(x)) = SubSeq(rt, 1, Len(x)) <=> \A i \in 1..Len(x) : rx[i] = rt[i]
  BY <1>1, <1>3
<1>5. ASSUME \A i \in 1..Len(x) : rx[i] = rt[i], NEW i \in 1..Len(x)
      PROVE  x[i] = t[Len(t) - Len(x) + i]
  <2>1. Len(x) - i + 1 \in 1..Len(x) /\ Len(x) - i + 1 \in 1..Len(t)
    BY <1>3
  <2> DEFINE j == Len(x) - i + 1
  <2>2. rx[j] = x[Len(x) - j + 1] /\ rt[j] = t[Len(t) - j + 1]
    BY <1>1, <2>1
  <2>3. Len(x) - j + 1 = i /\ Len(t) - j + 1 = Len(t) - Len(x) + i
    OBVIOUS
  <2> QED BY <1>5, <2>1, <2>2, <2>3
<1>6. ASSUME \A i \in 1..Len(x) : x[i] = t[Len(t) - Len(x) + i], NEW i \in 1..Len(x)
      PROVE  rx[i] = rt[i]
  <2>1. Len(x) - i + 1 \in 1..Len(x) /\ i \in 1..Len(t)
    BY <1>3
  <2>2. x[Len(x) - i + 1] = t[Len(t) - Len(x) + (Len(x) - i + 1)]
    BY <1>6, <2>1
  <2> QED BY <1>1, <2>1, <2>2
<1> QED BY <1>4, <1>5, <1>6

\* The parts that end in dashes.
LEMMA DashesAre ==
  ASSUME NEW p \in Str
  PROVE  IsSuffix(Dashes, p) <=>
           Len(p) >= 3 /\ \A i \in Len(p) - 2..Len(p) : p[i] = "-"
<1>1. Dashes \in Str /\ Len(Dashes) = 3 /\ Dashes[1] = "-" /\ Dashes[2] = "-" /\ Dashes[3] = "-"
  BY DEF Dashes, Str, Chars
<1>2. IsSuffix(Dashes, p) <=> 3 <= Len(p) /\ \A i \in 1..3 : Dashes[i] = p[Len(p) - 3 + i]
  <2>1. IsSuffix(Dashes, p) <=> /\ Len(Dashes) <= Len(p)
                                /\ \A i \in 1..Len(Dashes) : Dashes[i] = p[Len(p) - Len(Dashes) + i]
    BY <1>1, SuffixIs, Zenon DEF Str
  <2> QED BY <1>1, <2>1
<1>3. (\A i \in 1..3 : Dashes[i] = p[Len(p) - 3 + i]) <=>
        p[Len(p) - 2] = "-" /\ p[Len(p) - 1] = "-" /\ p[Len(p)] = "-"
  <2>1. Len(p) \in Nat /\ Len(p) - 3 + 1 = Len(p) - 2 /\ Len(p) - 3 + 2 = Len(p) - 1 /\ Len(p) - 3 + 3 = Len(p)
    BY DEF Str
  <2>2. \A i \in 1..3 : i = 1 \/ i = 2 \/ i = 3
    OBVIOUS
  <2> QED BY <1>1, <2>1, <2>2
<1>4. (\A i \in Len(p) - 2..Len(p) : p[i] = "-") <=>
        p[Len(p) - 2] = "-" /\ p[Len(p) - 1] = "-" /\ p[Len(p)] = "-"
  <2>1. Len(p) \in Nat /\ \A i \in Len(p) - 2..Len(p) : i = Len(p) - 2 \/ i = Len(p) - 1 \/ i = Len(p)
    BY DEF Str
  <2> QED BY <2>1
<1> QED BY <1>2, <1>3, <1>4

\* The parts that end in a mark, whose letter is x.
EndsIn(p, x) ==
  /\ Len(p) >= 4 /\ p[Len(p) - 3] = "-"
  /\ p[Len(p) - 2] = x /\ p[Len(p) - 1] = x /\ p[Len(p)] = x

LEMMA MarkIs ==
  ASSUME NEW p \in Str, NEW k \in DOMAIN Mark, NEW x,
         Mark[k] = <<"-", x, x, x>>, x \in Chars
  PROVE  IsSuffix(Mark[k], p) <=> EndsIn(p, x)
<1> DEFINE d == Mark[k]
<1>1. d \in Str /\ Len(d) = 4 /\ d[1] = "-" /\ d[2] = x /\ d[3] = x /\ d[4] = x
  BY DEF Str, Chars
<1> HIDE DEF d
<1>2. IsSuffix(d, p) <=> 4 <= Len(p) /\ \A i \in 1..4 : d[i] = p[Len(p) - 4 + i]
  <2>1. IsSuffix(d, p) <=> /\ Len(d) <= Len(p)
                           /\ \A i \in 1..Len(d) : d[i] = p[Len(p) - Len(d) + i]
    BY <1>1, SuffixIs, Zenon DEF Str
  <2> QED BY <1>1, <2>1
<1>3. (\A i \in 1..4 : d[i] = p[Len(p) - 4 + i]) <=>
        p[Len(p) - 3] = "-" /\ p[Len(p) - 2] = x /\ p[Len(p) - 1] = x /\ p[Len(p)] = x
  <2>1. /\ Len(p) \in Nat /\ Len(p) - 4 + 1 = Len(p) - 3 /\ Len(p) - 4 + 2 = Len(p) - 2
        /\ Len(p) - 4 + 3 = Len(p) - 1 /\ Len(p) - 4 + 4 = Len(p)
    BY DEF Str
  <2>2. \A i \in 1..4 : i = 1 \/ i = 2 \/ i = 3 \/ i = 4
    OBVIOUS
  <2> QED BY <1>1, <2>1, <2>2
<1>4. 4 <= Len(p) <=> Len(p) >= 4
  BY DEF Str
<1> QED BY <1>2, <1>3, <1>4 DEF d, EndsIn

\* The marks of a part.
LEMMA MarkOfIs ==
  ASSUME NEW p \in Str
  PROVE  /\ "iii" \in MarkOf(p) <=> EndsIn(p, "i")
         /\ "ccc" \in MarkOf(p) <=> EndsIn(p, "c")
         /\ MarkOf(p) \subseteq {"iii", "ccc"}
         /\ IsSuffix(Mark["hhh"], p) <=> EndsIn(p, "h")
<1>1. /\ Mark["iii"] = <<"-", "i", "i", "i">> /\ Mark["ccc"] = <<"-", "c", "c", "c">>
      /\ Mark["hhh"] = <<"-", "h", "h", "h">> /\ DOMAIN Mark = {"iii", "ccc", "hhh"}
  BY DEF Mark
<1>2. "i" \in Chars /\ "c" \in Chars /\ "h" \in Chars
  BY DEF Chars
<1>3. IsSuffix(Mark["iii"], p) <=> EndsIn(p, "i")
  BY <1>1, <1>2, MarkIs
<1>4. IsSuffix(Mark["ccc"], p) <=> EndsIn(p, "c")
  BY <1>1, <1>2, MarkIs
<1>5. IsSuffix(Mark["hhh"], p) <=> EndsIn(p, "h")
  BY <1>1, <1>2, MarkIs
<1> QED BY <1>3, <1>4, <1>5 DEF MarkOf

-----------------------------------------------------------------------------
(* split, character by character *)

LEMMA GoesTypes ==
  ASSUME NEW ps \in Parts, NEW c \in Chars
  PROVE  Goes(ps, c) \in Parts
<1>1. Last(ps) \in Str /\ Front(ps) \in Seq(Str)
  BY DEF Last, Front, Parts
<1>2. SubSeq(Last(ps), 1, Len(Last(ps)) - 3) \in Str /\ <<>> \in Str /\ Append(Last(ps), c) \in Str
  BY <1>1 DEF Str
<1> DEFINE p == Last(ps)
           q == SubSeq(Last(ps), 1, Len(Last(ps)) - 3)
           w == Append(Last(ps), c)
           f == Front(ps)
<1>3. Goes(ps, c) = IF c = "nl" /\ IsSuffix(Dashes, p) THEN f \o <<q, <<>>>> ELSE f \o <<w>>
  BY DEF Goes
<1> HIDE DEF q, w, f, p
<1>4. q \in Str /\ w \in Str /\ <<>> \in Str /\ f \in Seq(Str)
  BY <1>1, <1>2 DEF q, w, f
<1>5. f \o <<q, <<>>>> \in Parts /\ f \o <<w>> \in Parts
  BY <1>4 DEF Parts
<1> QED BY <1>3, <1>5

\* Of nothing one empty part; of one character more the parts it goes to.
LEMMA SplitSteps ==
  /\ Split(<<>>) = << <<>> >>
  /\ \A s \in Str : Split(s) \in Parts
  /\ \A s \in Str, c \in Chars : Split(Append(s, c)) = Goes(Split(s), c)
<1> DEFINE b == << <<>> >>
           g == [x \in Parts \X Chars |-> Goes(x[1], x[2])]
<1>1. b \in Parts
  BY DEF Parts, Str
<1>2. g \in [Parts \X Chars -> Parts]
  BY GoesTypes
<1>3. \A x \in Parts, c \in Chars : g[<<x, c>>] = Goes(x, c)
  OBVIOUS
<1>0. Recursion(Parts, Chars, b, g)
  BY <1>1, <1>2 DEF Recursion
<1>4. ASSUME NEW s \in Str PROVE Split(s) = Result(b, g, s)
  <2> DEFINE IsSplit(f) == f = [n \in 0..Len(s) |-> IF n = 0 THEN << <<>> >> ELSE Goes(f[n - 1], s[n])]
             k == CHOOSE f : IsSplit(f)
  <2>1. Split(s) = k[Len(s)]
    BY DEF Split
  <2>2. PICK f \in [0..Len(s) -> Parts] : Runs(f, b, g, s)
    BY <1>1, <1>2, RunExists DEF Str
  <2>3. Len(s) \in Nat /\ \A n \in 1..Len(s) : s[n] \in Chars
    BY DEF Str
  <2>4. \A n \in 0..Len(s) : f[n] = IF n = 0 THEN << <<>> >> ELSE Goes(f[n - 1], s[n])
    <3> SUFFICES ASSUME NEW n \in 0..Len(s), n # 0 PROVE f[n] = Goes(f[n - 1], s[n])
      BY <2>2 DEF Runs
    <3>1. n \in 1..Len(s) /\ n - 1 \in 0..Len(s)
      BY <2>3
    <3>2. f[n] = g[<<f[n - 1], s[n]>>]
      BY <2>2, <3>1 DEF Runs
    <3> QED BY <1>3, <2>2, <2>3, <3>1, <3>2
  <2>5. IsSplit(f)
    BY <2>2, <2>4
  <2>6. IsSplit(k)
    BY <2>5
  <2> HIDE DEF k
  <2>7. DOMAIN k = 0..Len(s) /\ k[0] = b /\ \A n \in 1..Len(s) : k[n] = Goes(k[n - 1], s[n])
    BY <2>3, <2>6
  <2>8. \A n \in 1..Len(s) : k[n - 1] \in Parts => k[n] = g[<<k[n - 1], s[n]>>]
    BY <1>3, <2>3, <2>7
  <2> QED BY <1>0, <2>1, <2>7, <2>8, RunIs DEF Str
<1> HIDE DEF b, g
<1>5. /\ Result(b, g, <<>>) = b
      /\ \A s \in Seq(Chars) : Result(b, g, s) \in Parts
      /\ \A s \in Seq(Chars), c \in Chars :
           Result(b, g, Append(s, c)) = g[<<Result(b, g, s), c>>]
  BY <1>0, ResultSteps DEF Computed
<1>6. <<>> \in Str /\ \A s \in Str, c \in Chars : Append(s, c) \in Str
  BY DEF Str
<1>7. Split(<<>>) = << <<>> >>
  BY <1>4, <1>5, <1>6 DEF b
<1>8. \A s \in Str : Split(s) \in Parts
  BY <1>4, <1>5 DEF Str
<1>9. ASSUME NEW s \in Str, NEW c \in Chars PROVE Split(Append(s, c)) = Goes(Split(s), c)
  BY <1>3, <1>4, <1>5, <1>6 DEF Str
<1> QED BY <1>7, <1>8, <1>9

-----------------------------------------------------------------------------
(* The loop over the parts *)

Acc == [messages : Seq(Found), left : Str]

\* A part with a mark is one message; its text is a text.
LEMMA MessageTypes ==
  ASSUME NEW p \in Str, MarkOf(p) # {}
  PROVE  Message(p) \in Found
<1>1. MarkOf(p) \subseteq {"iii", "ccc"}
  BY DEF MarkOf
<1>2. (CHOOSE k \in MarkOf(p) : TRUE) \in {"iii", "ccc"}
  BY <1>1
<1>3. Text(p) \in Str
  BY DEF Text, Str
<1> QED BY <1>2, <1>3 DEF Message, Found

LEMMA SortedTypes ==
  ASSUME NEW a \in Acc, NEW p \in Str, NEW last
  PROVE  Sorted(a, p, last) \in Acc
<1>1. MarkOf(p) # {} => Append(a.messages, Message(p)) \in Seq(Found)
  BY MessageTypes DEF Acc
<1>2. a.left \o p \in Str
  BY DEF Acc, Str
<1> QED BY <1>1, <1>2 DEF Sorted, Acc

\* The loop over no part, and over one more.
LEMMA SweptSteps ==
  ASSUME NEW last
  PROVE  /\ Swept(<<>>, last) = [messages |-> <<>>, left |-> <<>>]
         /\ \A ps \in Seq(Str) : Swept(ps, last) \in Acc
         /\ \A ps \in Seq(Str), p \in Str :
              Swept(Append(ps, p), last) = Sorted(Swept(ps, last), p, last)
<1> DEFINE b == [messages |-> <<>>, left |-> <<>>]
           g == [x \in Acc \X Str |-> Sorted(x[1], x[2], last)]
<1>1. b \in Acc
  BY DEF Acc, Str
<1>2. g \in [Acc \X Str -> Acc]
  BY SortedTypes
<1>3. \A x \in Acc, p \in Str : g[<<x, p>>] = Sorted(x, p, last)
  OBVIOUS
<1>0. Recursion(Acc, Str, b, g)
  BY <1>1, <1>2 DEF Recursion
<1>4. ASSUME NEW ps \in Seq(Str) PROVE Swept(ps, last) = Result(b, g, ps)
  <2> DEFINE IsLoop(f) == f = [n \in 0..Len(ps) |->
                                 IF n = 0 THEN [messages |-> <<>>, left |-> <<>>]
                                 ELSE Sorted(f[n - 1], ps[n], last)]
             k == CHOOSE f : IsLoop(f)
  <2>1. Swept(ps, last) = k[Len(ps)]
    BY DEF Swept
  <2>2. PICK f \in [0..Len(ps) -> Acc] : Runs(f, b, g, ps)
    BY <1>1, <1>2, RunExists
  <2>3. Len(ps) \in Nat /\ \A n \in 1..Len(ps) : ps[n] \in Str
    OBVIOUS
  <2>4. \A n \in 0..Len(ps) : f[n] = IF n = 0 THEN [messages |-> <<>>, left |-> <<>>]
                                     ELSE Sorted(f[n - 1], ps[n], last)
    <3> SUFFICES ASSUME NEW n \in 0..Len(ps), n # 0 PROVE f[n] = Sorted(f[n - 1], ps[n], last)
      BY <2>2 DEF Runs
    <3>1. n \in 1..Len(ps) /\ n - 1 \in 0..Len(ps)
      BY <2>3
    <3>2. f[n] = g[<<f[n - 1], ps[n]>>]
      BY <2>2, <3>1 DEF Runs
    <3> QED BY <1>3, <2>2, <2>3, <3>1, <3>2
  <2>5. IsLoop(f)
    BY <2>2, <2>4
  <2>6. IsLoop(k)
    BY <2>5
  <2> HIDE DEF k
  <2>7. DOMAIN k = 0..Len(ps) /\ k[0] = b /\ \A n \in 1..Len(ps) : k[n] = Sorted(k[n - 1], ps[n], last)
    BY <2>3, <2>6
  <2>8. \A n \in 1..Len(ps) : k[n - 1] \in Acc => k[n] = g[<<k[n - 1], ps[n]>>]
    BY <1>3, <2>3, <2>7
  <2> QED BY <1>0, <2>1, <2>7, <2>8, RunIs
<1> HIDE DEF b, g
<1>5. /\ Result(b, g, <<>>) = b
      /\ \A ps \in Seq(Str) : Result(b, g, ps) \in Acc
      /\ \A ps \in Seq(Str), p \in Str :
           Result(b, g, Append(ps, p)) = g[<<Result(b, g, ps), p>>]
  BY <1>0, ResultSteps DEF Computed
<1>6. <<>> \in Seq(Str) /\ \A ps \in Seq(Str), p \in Str : Append(ps, p) \in Seq(Str)
  OBVIOUS
<1>7. Swept(<<>>, last) = [messages |-> <<>>, left |-> <<>>]
  BY <1>4, <1>5, <1>6 DEF b
<1>8. \A ps \in Seq(Str) : Swept(ps, last) \in Acc
  BY <1>4, <1>5
<1>9. ASSUME NEW ps \in Seq(Str), NEW p \in Str
      PROVE  Swept(Append(ps, p), last) = Sorted(Swept(ps, last), p, last)
  BY <1>3, <1>4, <1>5, <1>6
<1> QED BY <1>7, <1>8, <1>9

-----------------------------------------------------------------------------
(* The known messages of a sequence *)

LEMMA KnownSteps ==
  /\ Pipe!KnownIn(<<>>) = <<>>
  /\ \A s \in Seq(Messages) : Pipe!KnownIn(s) \in Seq(KnownMessage)
  /\ \A s \in Seq(Messages), m \in Messages :
       Pipe!KnownIn(Append(s, m)) = IF Known(m) THEN Append(Pipe!KnownIn(s), m) ELSE Pipe!KnownIn(s)
<1> DEFINE A == Seq(KnownMessage)
           g == [x \in A \X Messages |-> IF Known(x[2]) THEN Append(x[1], x[2]) ELSE x[1]]
<1>1. <<>> \in A
  OBVIOUS
<1>2. g \in [A \X Messages -> A]
  <2>1. ASSUME NEW x \in A, NEW m \in Messages, Known(m) PROVE Append(x, m) \in A
    <3>1. m \in KnownMessage
      BY <2>1 DEF Known, Messages, KnownMessage
    <3> QED BY <3>1
  <2> QED BY <2>1
<1>3. \A x \in A, m \in Messages : g[<<x, m>>] = IF Known(m) THEN Append(x, m) ELSE x
  OBVIOUS
<1>0. Recursion(A, Messages, <<>>, g)
  BY <1>1, <1>2 DEF Recursion
<1>4. ASSUME NEW s \in Seq(Messages) PROVE Pipe!KnownIn(s) = Result(<<>>, g, s)
  <2> DEFINE IsKnown(f) == f = [n \in 0..Len(s) |->
                                  IF n = 0 THEN <<>>
                                  ELSE IF Known(s[n]) THEN Append(f[n - 1], s[n]) ELSE f[n - 1]]
             k == CHOOSE f : IsKnown(f)
  <2>1. Pipe!KnownIn(s) = k[Len(s)]
    BY DEF Pipe!KnownIn
  <2>2. PICK f \in [0..Len(s) -> A] : Runs(f, <<>>, g, s)
    BY <1>1, <1>2, RunExists
  <2>3. Len(s) \in Nat /\ \A n \in 1..Len(s) : s[n] \in Messages
    OBVIOUS
  <2>4. \A n \in 0..Len(s) : f[n] = IF n = 0 THEN <<>>
                                    ELSE IF Known(s[n]) THEN Append(f[n - 1], s[n]) ELSE f[n - 1]
    <3> SUFFICES ASSUME NEW n \in 0..Len(s), n # 0
                 PROVE  f[n] = IF Known(s[n]) THEN Append(f[n - 1], s[n]) ELSE f[n - 1]
      BY <2>2 DEF Runs
    <3>1. n \in 1..Len(s) /\ n - 1 \in 0..Len(s)
      BY <2>3
    <3>2. f[n] = g[<<f[n - 1], s[n]>>]
      BY <2>2, <3>1 DEF Runs
    <3> HIDE DEF g, A
    <3> QED BY <1>3, <2>2, <2>3, <3>1, <3>2
  <2>5. IsKnown(f)
    BY <2>2, <2>4
  <2>6. IsKnown(k)
    BY <2>5
  <2> HIDE DEF k
  <2>7. /\ DOMAIN k = 0..Len(s) /\ k[0] = <<>>
        /\ \A n \in 1..Len(s) : k[n] = IF Known(s[n]) THEN Append(k[n - 1], s[n]) ELSE k[n - 1]
    <3>1. DOMAIN k = 0..Len(s) /\ k[0] = <<>>
      BY <2>3, <2>6
    <3>2. ASSUME NEW n \in 1..Len(s)
          PROVE  k[n] = IF Known(s[n]) THEN Append(k[n - 1], s[n]) ELSE k[n - 1]
      <4>1. n \in 0..Len(s) /\ n # 0
        BY <2>3
      <4> QED BY <2>6, <4>1, Zenon
    <3> QED BY <3>1, <3>2
  <2> HIDE DEF g, A
  <2>8. \A n \in 1..Len(s) : k[n - 1] \in A => k[n] = g[<<k[n - 1], s[n]>>]
    BY <1>3, <2>3, <2>7
  <2> QED BY <1>0, <2>1, <2>7, <2>8, RunIs
<1> HIDE DEF g
<1>5. /\ Result(<<>>, g, <<>>) = <<>>
      /\ \A s \in Seq(Messages) : Result(<<>>, g, s) \in A
      /\ \A s \in Seq(Messages), m \in Messages :
           Result(<<>>, g, Append(s, m)) = g[<<Result(<<>>, g, s), m>>]
  BY <1>0, ResultSteps DEF Computed
<1>6. <<>> \in Seq(Messages) /\ \A s \in Seq(Messages), m \in Messages : Append(s, m) \in Seq(Messages)
  OBVIOUS
<1>7. Pipe!KnownIn(<<>>) = <<>>
  BY <1>4, <1>5, <1>6
<1>8. \A s \in Seq(Messages) : Pipe!KnownIn(s) \in A
  BY <1>4, <1>5
<1>9. ASSUME NEW s \in Seq(Messages), NEW m \in Messages
      PROVE  Pipe!KnownIn(Append(s, m)) =
               IF Known(m) THEN Append(Pipe!KnownIn(s), m) ELSE Pipe!KnownIn(s)
  <2> DEFINE x == Pipe!KnownIn(s)
  <2>1. x = Result(<<>>, g, s) /\ x \in A
    BY <1>4, <1>8
  <2>2. Pipe!KnownIn(Append(s, m)) = g[<<x, m>>]
    BY <1>4, <1>5, <1>6, <2>1
  <2> HIDE DEF x, A
  <2>3. g[<<x, m>>] = IF Known(m) THEN Append(x, m) ELSE x
    BY <1>3, <2>1
  <2> QED BY <2>2, <2>3 DEF x
<1> QED BY <1>7, <1>8, <1>9

-----------------------------------------------------------------------------
(* Frames *)

Body(m) == m.content \o Mark[m.mtype]

Letter(m) == Mark[m.mtype][2]

\* A text, a mark, the separator.
LEMMA FrameIs ==
  ASSUME NEW m \in Messages
  PROVE  /\ Body(m) \in Seq(NoNl) /\ Len(Body(m)) >= 4 /\ Frame(m) \in Str
         /\ Len(Frame(m)) = Len(Body(m)) + 4
         /\ \A j \in 1..Len(Body(m)) : Frame(m)[j] = Body(m)[j]
         /\ \A j \in 1..3 : Frame(m)[Len(Body(m)) + j] = "-"
         /\ Frame(m)[Len(Body(m)) + 4] = "nl"
         /\ \A j \in 1..Len(Body(m)) - 4 : Body(m)[j] \in {"a", "b"}
         /\ EndsIn(Body(m), Letter(m))
<1> DEFINE t == m.content
           k == Mark[m.mtype]
           x == Letter(m)
<1>1. t \in Seq({"a", "b"}) /\ t \in Seq(NoNl) /\ Len(t) \in Nat
  BY FramingAssumption DEF Messages, NoNl, Chars
<1>2. k = <<"-", x, x, x>> /\ x \in NoNl /\ "-" \in NoNl
  BY DEF Messages, Mark, Letter, NoNl, Chars
<1>3. k \in Seq(NoNl) /\ Len(k) = 4 /\ k[1] = "-" /\ k[2] = x /\ k[3] = x /\ k[4] = x
  BY <1>2
<1> HIDE DEF t, k, x
<1>4. Body(m) = t \o k
  BY DEF Body, t, k
<1>5. /\ Body(m) \in Seq(NoNl) /\ Len(Body(m)) = Len(t) + 4
      /\ \A j \in 1..Len(t) : Body(m)[j] = t[j]
      /\ \A j \in 1..4 : Body(m)[Len(t) + j] = k[j]
  <2>1. Behind(t, k, NoNl)
    BY <1>1, <1>3, ConcatIs
  <2> QED BY <1>3, <1>4, <2>1 DEF Behind
<1>6. EndsIn(Body(m), x)
  <2>1. /\ Len(Body(m)) - 3 = Len(t) + 1 /\ Len(Body(m)) - 2 = Len(t) + 2
        /\ Len(Body(m)) - 1 = Len(t) + 3 /\ Len(Body(m)) >= 4
    BY <1>1, <1>5
  <2> QED BY <1>3, <1>5, <2>1 DEF EndsIn
<1>7. \A j \in 1..Len(Body(m)) - 4 : Body(m)[j] \in {"a", "b"}
  BY <1>1, <1>5
<1> DEFINE d == Dashes \o <<"nl">>
<1>8. d \in Str /\ Len(d) = 4 /\ d[1] = "-" /\ d[2] = "-" /\ d[3] = "-" /\ d[4] = "nl"
  BY DEF Dashes, Str, Chars
<1>9. Frame(m) = Body(m) \o d
  <2>1. Frame(m) = (Body(m) \o Dashes) \o <<"nl">>
    BY DEF Frame, Body
  <2>2. Body(m) \in Seq(Chars) /\ Dashes \in Seq(Chars) /\ <<"nl">> \in Seq(Chars)
    BY <1>5 DEF NoNl, Dashes, Chars
  <2> QED BY <2>1, <2>2, ConcatAssociative
<1> HIDE DEF d
<1>10. Body(m) \in Str
  BY <1>5 DEF NoNl, Str
<1>11. /\ Frame(m) \in Str /\ Len(Frame(m)) = Len(Body(m)) + 4
       /\ \A j \in 1..Len(Body(m)) : Frame(m)[j] = Body(m)[j]
       /\ \A j \in 1..4 : Frame(m)[Len(Body(m)) + j] = d[j]
  <2>1. Behind(Body(m), d, Chars)
    BY <1>8, <1>10, ConcatIs DEF Str
  <2> QED BY <1>8, <1>9, <2>1 DEF Str, Behind
<1>12. Len(Body(m)) >= 4
  BY <1>1, <1>5
<1>13. \A j \in 1..3 : Frame(m)[Len(Body(m)) + j] = "-"
  <2>1. \A j \in 1..3 : j = 1 \/ j = 2 \/ j = 3
    OBVIOUS
  <2> QED BY <1>8, <1>11, <2>1
<1> QED BY <1>5, <1>6, <1>7, <1>8, <1>11, <1>12, <1>13 DEF x

\* The mark of a body is its message's, and no other.
LEMMA BodyMarks ==
  ASSUME NEW m \in Messages
  PROVE  /\ Letter(m) \in {"i", "c", "h"} /\ (Letter(m) = "h" <=> ~Known(m))
         /\ Known(m) => MarkOf(Body(m)) # {} /\ Message(Body(m)) = m
<1>1. /\ Letter(m) \in {"i", "c", "h"} /\ (Letter(m) = "h" <=> ~Known(m))
      /\ Letter(m) = "i" <=> m.mtype = "iii"
      /\ Letter(m) = "c" <=> m.mtype = "ccc"
  BY DEF Letter, Known, Mark, Messages
<1>2. Body(m) \in Str /\ EndsIn(Body(m), Letter(m))
  BY FrameIs DEF NoNl, Str
<1>3. ASSUME Known(m) PROVE MarkOf(Body(m)) # {} /\ Message(Body(m)) = m
  <2>1. m.mtype \in {"iii", "ccc"} /\ "i" # "c"
    BY <1>3 DEF Known
  <2>2. MarkOf(Body(m)) = {m.mtype}
    BY <1>1, <1>2, <2>1, MarkOfIs DEF EndsIn
  <2>3. (CHOOSE k \in MarkOf(Body(m)) : TRUE) = m.mtype
    BY <2>2
  <2>4. Text(Body(m)) = m.content
    <3> DEFINE t == m.content
               k == Mark[m.mtype]
    <3>1. t \in Seq(Chars)
      <4>1. t \in Seq({"a", "b"})
        BY FramingAssumption DEF Messages
      <4> QED BY <4>1 DEF Chars
    <3>2. k \in Seq(Chars) /\ Len(k) = 4
      <4>1. k = <<"-", Letter(m), Letter(m), Letter(m)>> /\ Letter(m) \in Chars /\ "-" \in Chars
        BY DEF Messages, Mark, Letter, Chars
      <4> QED BY <4>1
    <3> HIDE DEF t, k
    <3>3. Len(t \o k) = Len(t) + 4 /\ SubSeq(t \o k, 1, Len(t)) = t
      <4>1. Behind(t, k, Chars)
        BY <3>1, <3>2, ConcatIs
      <4> QED BY <3>2, <4>1 DEF Behind
    <3>4. Len(t) \in Nat /\ Len(t \o k) - 4 = Len(t)
      BY <3>1, <3>3
    <3>5. Body(m) = t \o k
      BY DEF Body, t, k
    <3> QED BY <3>3, <3>4, <3>5 DEF Text, t
  <2>5. m = [mtype |-> m.mtype, content |-> m.content]
    BY DEF Messages
  <2> QED BY <2>2, <2>3, <2>4, <2>5 DEF Message
<1> QED BY <1>1, <1>3

\* A beginning of a frame ends in a mark when it is the body.
LEMMA BeginningMarks ==
  ASSUME NEW m \in Messages, NEW o \in 0..Len(Body(m)) + 3, NEW x \in {"i", "c", "h"},
         EndsIn(SubSeq(Frame(m), 1, o), x)
  PROVE  o = Len(Body(m)) /\ x = Letter(m)
<1> DEFINE p == SubSeq(Frame(m), 1, o)
           n == Len(Body(m))
           F == Frame(m)
           B == Body(m)
<1>1. /\ n \in Nat /\ n >= 4 /\ o \in Nat /\ o <= n + 3 /\ F \in Seq(Chars) /\ Len(F) = n + 4
      /\ \A j \in 1..n : F[j] = B[j]
      /\ \A j \in 1..3 : F[n + j] = "-"
      /\ \A j \in 1..n - 4 : B[j] \in {"a", "b"}
      /\ B[n - 3] = "-" /\ B[n - 2] = Letter(m) /\ B[n - 1] = Letter(m) /\ B[n] = Letter(m)
  BY FrameIs DEF Str, EndsIn
<1>2. Len(p) = o /\ \A j \in 1..o : p[j] = F[j]
  BY <1>1
<1> HIDE DEF p, n, F, B
<1>3. o >= 4 /\ p[o - 3] = "-" /\ p[o] = x
  BY <1>1, <1>2 DEF EndsIn, p
<1>4. F[o - 3] = "-" /\ F[o] = x /\ o - 3 \in Nat /\ o - 3 >= 1
  BY <1>1, <1>2, <1>3
<1>5. o <= n
  <2>1. SUFFICES ASSUME o > n PROVE FALSE
    BY <1>1
  <2>2. o - n \in 1..3 /\ F[n + (o - n)] = "-" /\ n + (o - n) = o
    BY <1>1, <2>1
  <2> QED BY <1>4, <2>2
<1>6. o - 3 > n - 4
  <2>1. SUFFICES ASSUME o - 3 <= n - 4 PROVE FALSE
    BY <1>1
  <2>2. o - 3 \in 1..n - 4 /\ o - 3 \in 1..n
    BY <1>1, <1>4, <2>1
  <2> QED BY <1>1, <1>4, <2>2
<1>7. o = n
  BY <1>1, <1>5, <1>6
<1>8. F[n] = B[n] /\ B[n] = Letter(m)
  BY <1>1
<1> QED BY <1>4, <1>7, <1>8 DEF n

\* Text without the last character of the separator is one part.
LEMMA SplitOne ==
  ASSUME NEW s \in Seq(NoNl)
  PROVE  Split(s) = <<s>>
<1> DEFINE H == {n \in Nat : \A u \in Seq(NoNl) : Len(u) = n => Split(u) = <<u>>}
<1>1. 0 \in H
  <2>1. \A u \in Seq(NoNl) : Len(u) = 0 => u = <<>>
    OBVIOUS
  <2> QED BY <2>1, SplitSteps
<1>2. ASSUME NEW n \in Nat, n \in H PROVE n + 1 \in H
  <2> SUFFICES ASSUME NEW u \in Seq(NoNl), Len(u) = n + 1 PROVE Split(u) = <<u>>
    OBVIOUS
  <2> DEFINE f == SubSeq(u, 1, n)
             c == u[n + 1]
  <2>1. f \in Seq(NoNl) /\ Len(f) = n /\ c \in NoNl /\ u = Append(f, c)
    OBVIOUS
  <2>2. f \in Str /\ c \in Chars /\ c # "nl"
    BY <2>1 DEF NoNl, Str
  <2> HIDE DEF f, c
  <2>3. Split(f) = <<f>>
    BY <1>2, <2>1
  <2>4. Split(u) = Goes(<<f>>, c)
    BY <2>1, <2>2, <2>3, SplitSteps
  <2>5. Goes(<<f>>, c) = Front(<<f>>) \o <<Append(f, c)>>
    BY <2>2 DEF Goes, Last
  <2>6. Front(<<f>>) = <<>>
    BY DEF Front
  <2> QED BY <2>1, <2>4, <2>5, <2>6
<1> HIDE DEF H
<1>3. Len(s) \in H
  BY <1>1, <1>2, SetInduction
<1> QED BY <1>3 DEF H

\* What a character does to the parts.
LEMMA GoesIs ==
  ASSUME NEW ps \in Parts, NEW c \in Chars
  PROVE  /\ Last(ps) \in Str /\ Front(ps) \in Seq(Str)
         /\ c # "nl" => Front(Goes(ps, c)) = Front(ps) /\ Last(Goes(ps, c)) = Append(Last(ps), c)
         /\ (c = "nl" /\ IsSuffix(Dashes, Last(ps))) =>
              /\ Front(Goes(ps, c)) = Append(Front(ps), SubSeq(Last(ps), 1, Len(Last(ps)) - 3))
              /\ Last(Goes(ps, c)) = <<>>
<1> DEFINE p == Last(ps)
           q == SubSeq(Last(ps), 1, Len(Last(ps)) - 3)
           w == Append(Last(ps), c)
           f == Front(ps)
<1>1. p \in Str /\ f \in Seq(Str)
  BY DEF Last, Front, Parts
<1>2. q \in Str /\ w \in Str /\ <<>> \in Str
  BY <1>1 DEF Str
<1>3. Goes(ps, c) = IF c = "nl" /\ IsSuffix(Dashes, p) THEN f \o <<q, <<>>>> ELSE f \o <<w>>
  BY DEF Goes
<1> HIDE DEF q, w, f, p
<1>4. Front(f \o <<w>>) = f /\ Last(f \o <<w>>) = w
  BY <1>1, <1>2 DEF Front, Last
<1>5. Front(f \o <<q, <<>>>>) = Append(f, q) /\ Last(f \o <<q, <<>>>>) = <<>>
  BY <1>1, <1>2 DEF Front, Last
<1> QED BY <1>1, <1>3, <1>4, <1>5 DEF p, q, w, f

-----------------------------------------------------------------------------
(* What has been read of a frame *)

\* The first o characters of the frame of m are there.  Before them there may be
\* the body of m, left over with its beginning: only when m is of an unknown type
\* and the body of m is there again.
IsPart(m, o, rest) ==
  \E junk \in Seq(NoNl) :
    /\ rest = junk \o SubSeq(Frame(m), 1, o)
    /\ junk # <<>> => ~Known(m) /\ o >= Len(Body(m))

\* The message was found before its separator was read whole; what was read of
\* the separator is there.
IsTail(m, o, rest) ==
  /\ Known(m) /\ o >= Len(Body(m))
  /\ rest = SubSeq(Frame(m), Len(Body(m)) + 1, o)

\* The beginning of a frame, by its positions.
LEMMA BeginningIs ==
  ASSUME NEW m \in Messages, NEW o \in 0..Len(Body(m)) + 3
  PROVE  /\ SubSeq(Frame(m), 1, o) \in Seq(NoNl) /\ Len(SubSeq(Frame(m), 1, o)) = o
         /\ \A j \in 1..o : SubSeq(Frame(m), 1, o)[j] = Frame(m)[j]
<1> DEFINE n == Len(Body(m))
           F == Frame(m)
           p == SubSeq(Frame(m), 1, o)
<1>1. /\ n \in Nat /\ F \in Seq(Chars) /\ Len(F) = n + 4 /\ Body(m) \in Seq(NoNl)
      /\ \A j \in 1..n : F[j] = Body(m)[j]
      /\ \A j \in 1..3 : F[n + j] = "-"
  BY FrameIs DEF Str
<1>2. p \in Seq(Chars) /\ Len(p) = o /\ \A j \in 1..o : p[j] = F[j]
  BY <1>1
<1>3. ASSUME NEW j \in 1..o PROVE F[j] \in NoNl
  <2>1. CASE j <= n
    <3>1. j \in 1..n
      BY <2>1
    <3> QED BY <1>1, <3>1
  <2>2. CASE j > n
    <3>1. j - n \in 1..3 /\ n + (j - n) = j
      BY <1>1, <2>2
    <3>2. F[j] = "-"
      BY <1>1, <3>1
    <3> QED BY <3>2 DEF NoNl, Chars
  <2> QED BY <1>1, <2>1, <2>2
<1> HIDE DEF p, F, n
<1>4. p \in Seq(NoNl)
  <2>1. \A j \in 1..Len(p) : p[j] \in NoNl
    BY <1>2, <1>3
  <2> QED BY <1>2, <2>1, IsASeq
<1> QED BY <1>2, <1>4 DEF p, F

\* The separator's beginning is dashes.
LEMMA TailIs ==
  ASSUME NEW m \in Messages, NEW o \in 0..Len(Body(m)) + 3, NEW rest, IsTail(m, o, rest)
  PROVE  /\ rest \in Seq(NoNl) /\ Len(rest) = o - Len(Body(m))
         /\ \A j \in 1..Len(rest) : rest[j] = "-"
<1> DEFINE n == Len(Body(m))
           F == Frame(m)
<1>1. /\ n \in Nat /\ F \in Seq(Chars) /\ Len(F) = n + 4
      /\ \A j \in 1..3 : F[n + j] = "-"
  BY FrameIs DEF Str
<1>2. o >= n /\ rest = SubSeq(F, n + 1, o)
  BY DEF IsTail
<1> HIDE DEF F, n
<1>3. /\ rest \in Seq(Chars) /\ Len(rest) = o - n
      /\ \A j \in 1..o - n : rest[j] = F[n + j]
  <2>1. CASE o = n
    BY <1>1, <1>2, <2>1
  <2>2. CASE o > n
    BY <1>1, <1>2, <2>2 DEF n
  <2> QED BY <1>1, <1>2, <2>1, <2>2
<1>4. \A j \in 1..Len(rest) : rest[j] = "-"
  <2> SUFFICES ASSUME NEW j \in 1..Len(rest) PROVE rest[j] = "-"
    OBVIOUS
  <2>1. j \in 1..o - n /\ j \in 1..3
    BY <1>1, <1>3 DEF n
  <2> QED BY <1>1, <1>3, <2>1
<1>5. rest \in Seq(NoNl)
  <2>1. \A j \in 1..Len(rest) : rest[j] \in NoNl
    BY <1>4 DEF NoNl, Chars
  <2> QED BY <1>3, <2>1, IsASeq
<1> QED BY <1>3, <1>4, <1>5 DEF n

LEMMA RestNoNl ==
  ASSUME NEW m \in Messages, NEW o \in 0..Len(Body(m)) + 3, NEW rest,
         IsPart(m, o, rest) \/ IsTail(m, o, rest)
  PROVE  rest \in Seq(NoNl)
<1>1. CASE IsPart(m, o, rest)
  <2>1. PICK junk \in Seq(NoNl) : rest = junk \o SubSeq(Frame(m), 1, o)
    BY <1>1 DEF IsPart
  <2> QED BY <2>1, BeginningIs
<1>2. CASE IsTail(m, o, rest)
  BY <1>2, TailIs
<1> QED BY <1>1, <1>2

\* One character more of the frame.
LEMMA RestGrows ==
  ASSUME NEW m \in Messages, NEW o \in 0..Len(Body(m)) + 2, NEW rest
  PROVE  /\ IsPart(m, o, rest) => IsPart(m, o + 1, Append(rest, Frame(m)[o + 1]))
         /\ IsTail(m, o, rest) => IsTail(m, o + 1, Append(rest, Frame(m)[o + 1]))
<1> DEFINE n == Len(Body(m))
           F == Frame(m)
<1>1. n \in Nat /\ F \in Seq(Chars) /\ Len(F) = n + 4
  BY FrameIs DEF Str
<1>2. o \in 0..n + 3 /\ o + 1 \in 0..n + 3 /\ o \in Nat
  BY <1>1
<1>3. ASSUME IsPart(m, o, rest) PROVE IsPart(m, o + 1, Append(rest, F[o + 1]))
  <2>1. PICK junk \in Seq(NoNl) : /\ rest = junk \o SubSeq(F, 1, o)
                                  /\ junk # <<>> => ~Known(m) /\ o >= n
    BY <1>3 DEF IsPart
  <2>2. SubSeq(F, 1, o + 1) = Append(SubSeq(F, 1, o), F[o + 1])
    BY <1>1, <1>2
  <2>3. SubSeq(F, 1, o) \in Seq(Chars) /\ junk \in Seq(Chars)
    BY <1>1, <1>2, <2>1 DEF NoNl
  <2> DEFINE p == SubSeq(F, 1, o)
             c == F[o + 1]
  <2>4. c \in Chars
    BY <1>1, <1>2
  <2>5. p \in Seq(Chars) /\ rest = junk \o p /\ SubSeq(F, 1, o + 1) = Append(p, c)
    BY <2>1, <2>2, <2>3
  <2> HIDE DEF p, c
  <2>6. Append(rest, c) = junk \o Append(p, c)
    <3>1. junk \in Seq(Chars) /\ p \in Seq(Chars) /\ c \in Chars
      BY <2>3, <2>4, <2>5
    <3>2. \A u, v \in Seq(Chars) : Append(u \o v, c) = u \o Append(v, c)
      BY <3>1, AppendBehind
    <3>3. Append(junk \o p, c) = junk \o Append(p, c)
      BY <3>1, <3>2, Zenon
    <3> QED BY <2>5, <3>3
  <2>7. junk # <<>> => ~Known(m) /\ o + 1 >= n
    BY <1>1, <1>2, <2>1
  <2>8. Append(rest, c) = junk \o SubSeq(F, 1, o + 1)
    BY <2>5, <2>6
  <2> QED BY <2>1, <2>7, <2>8 DEF IsPart, c
<1>4. ASSUME IsTail(m, o, rest) PROVE IsTail(m, o + 1, Append(rest, F[o + 1]))
  <2>1. Known(m) /\ o >= n /\ rest = SubSeq(F, n + 1, o)
    BY <1>4 DEF IsTail
  <2> HIDE DEF n, F
  <2>2. SubSeq(F, n + 1, o + 1) = Append(SubSeq(F, n + 1, o), F[o + 1])
    <3>1. CASE o = n
      BY <1>1, <1>2, <3>1
    <3>2. CASE o > n
      BY <1>1, <1>2, <3>2
    <3> QED BY <1>1, <1>2, <2>1, <3>1, <3>2
  <2> QED BY <1>1, <1>2, <2>1, <2>2 DEF IsTail, n, F
<1> QED BY <1>3, <1>4

-----------------------------------------------------------------------------
(* Marks of what has been read *)

LEMMA EndsInBehind ==
  ASSUME NEW u \in Str, NEW p \in Str, Len(p) >= 4, NEW x
  PROVE  EndsIn(u \o p, x) <=> EndsIn(p, x)
<1>1. Behind(u, p, Chars) /\ Len(p) \in Nat /\ Len(u) \in Nat
  BY ConcatIs DEF Str
<1> DEFINE w == u \o p
<1>2. /\ Len(w) = Len(u) + Len(p)
      /\ \A j \in 1..Len(p) : w[Len(u) + j] = p[j]
  BY <1>1 DEF Behind
<1> HIDE DEF w
<1>3. /\ w[Len(w)] = p[Len(p)] /\ w[Len(w) - 1] = p[Len(p) - 1]
      /\ w[Len(w) - 2] = p[Len(p) - 2] /\ w[Len(w) - 3] = p[Len(p) - 3]
  <2>1. ASSUME NEW i \in 0..3 PROVE w[Len(w) - i] = p[Len(p) - i]
    <3>1. Len(p) - i \in 1..Len(p) /\ Len(w) - i = Len(u) + (Len(p) - i)
      BY <1>1, <1>2
    <3> QED BY <1>2, <3>1
  <2>2. Len(w) - 0 = Len(w) /\ Len(p) - 0 = Len(p)
    BY <1>1, <1>2
  <2> QED BY <2>1, <2>2
<1> QED BY <1>1, <1>2, <1>3 DEF EndsIn, w

\* A part has a mark exactly when all of the body has been read; of a known
\* message it then is the body.
LEMMA PartMarks ==
  ASSUME NEW m \in Messages, NEW o \in 0..Len(Body(m)) + 3, NEW rest, IsPart(m, o, rest)
  PROVE  /\ o = Len(Body(m)) => EndsIn(rest, Letter(m)) /\ (Known(m) => rest = Body(m))
         /\ \A x \in {"i", "c", "h"} : EndsIn(rest, x) => o = Len(Body(m)) /\ x = Letter(m)
<1> DEFINE n == Len(Body(m))
           p == SubSeq(Frame(m), 1, o)
<1>1. /\ n \in Nat /\ n >= 4 /\ Body(m) \in Seq(NoNl) /\ Frame(m) \in Seq(Chars)
      /\ Len(Frame(m)) = n + 4
      /\ \A j \in 1..n : Frame(m)[j] = Body(m)[j]
  BY FrameIs DEF Str
<1>2. PICK junk \in Seq(NoNl) : rest = junk \o p /\ (junk # <<>> => ~Known(m) /\ o >= n)
  BY DEF IsPart
<1>3. p \in Seq(NoNl) /\ Len(p) = o /\ \A j \in 1..o : p[j] = Frame(m)[j]
  BY BeginningIs
<1>4. junk \in Str /\ p \in Str
  BY <1>2, <1>3 DEF NoNl, Str
<1> HIDE DEF p, n
<1>5. junk = <<>> => rest = p
  BY <1>2, <1>4 DEF Str
<1>6. ASSUME o = n PROVE EndsIn(rest, Letter(m)) /\ (Known(m) => rest = Body(m))
  <2>1. p = Body(m)
    BY <1>1, <1>3, <1>6 DEF n
  <2>2. EndsIn(p, Letter(m))
    BY <2>1, FrameIs
  <2>3. Len(p) >= 4
    BY <1>1, <1>3, <1>6
  <2>4. EndsIn(rest, Letter(m))
    BY <1>2, <1>4, <2>2, <2>3, EndsInBehind
  <2> QED BY <1>2, <1>5, <2>1, <2>4
<1>7. ASSUME NEW x \in {"i", "c", "h"}, EndsIn(rest, x) PROVE o = n /\ x = Letter(m)
  <2>1. EndsIn(p, x)
    <3>1. CASE junk = <<>>
      BY <1>5, <1>7, <3>1
    <3>2. CASE junk # <<>>
      <4>1. Len(p) >= 4
        BY <1>1, <1>2, <1>3, <3>2
      <4> QED BY <1>2, <1>4, <1>7, <4>1, EndsInBehind
    <3> QED BY <3>1, <3>2
  <2> QED BY <2>1, BeginningMarks DEF p, n
<1> QED BY <1>6, <1>7 DEF n

\* What was read of a separator has no mark.
LEMMA TailMarks ==
  ASSUME NEW m \in Messages, NEW o \in 0..Len(Body(m)) + 3, NEW rest, IsTail(m, o, rest)
  PROVE  \A x \in {"i", "c", "h"} : ~EndsIn(rest, x)
<1>1. rest \in Seq(NoNl) /\ \A j \in 1..Len(rest) : rest[j] = "-"
  BY TailIs
<1>2. Len(rest) >= 4 => rest[Len(rest)] = "-"
  BY <1>1
<1> QED BY <1>2 DEF EndsIn

\* The end of a frame: the body of a known message, once found or not at all;
\* of an unknown one something with its mark.
Ends(m, o, rest, q) ==
  /\ IsPart(m, o, rest) => /\ IsSuffix(Dashes, rest) /\ q \in Str
                           /\ Known(m) => q = Body(m)
                           /\ ~Known(m) => EndsIn(q, "h")
  /\ IsTail(m, o, rest) => IsSuffix(Dashes, rest) /\ q = <<>>

LEMMA RestEnds ==
  ASSUME NEW m \in Messages, NEW o, o = Len(Body(m)) + 3, NEW rest, NEW q,
         q = SubSeq(rest, 1, Len(rest) - 3)
  PROVE  Ends(m, o, rest, q)
<1> DEFINE n == Len(Body(m))
           F == Frame(m)
           p == SubSeq(F, 1, o)
           r == SubSeq(F, 1, n)
<1>1. /\ n \in Nat /\ n >= 4 /\ Body(m) \in Seq(NoNl) /\ F \in Seq(Chars) /\ Len(F) = n + 4
      /\ \A j \in 1..n : F[j] = Body(m)[j]
      /\ \A j \in 1..3 : F[n + j] = "-"
  BY FrameIs DEF Str
<1>2. o \in 0..n + 3 /\ o = n + 3
  BY <1>1
<1>3. ASSUME IsPart(m, o, rest)
      PROVE  /\ IsSuffix(Dashes, rest) /\ q \in Str
             /\ Known(m) => q = Body(m)
             /\ ~Known(m) => EndsIn(q, "h")
  <2>1. PICK junk \in Seq(NoNl) : rest = junk \o p /\ (junk # <<>> => ~Known(m) /\ o >= n)
    BY <1>3 DEF IsPart
  <2>2. p \in Seq(NoNl) /\ Len(p) = o /\ \A j \in 1..o : p[j] = F[j]
    BY <1>2, BeginningIs
  <2>3. junk \in Seq(Chars) /\ p \in Seq(Chars) /\ Body(m) \in Seq(Chars)
    BY <1>1, <2>1, <2>2 DEF NoNl
  <2>4. Behind(junk, p, Chars) /\ Behind(junk, Body(m), Chars)
    BY <2>3, ConcatIs
  <2> HIDE DEF p, n, F
  <2>5. rest \in Seq(Chars) /\ Len(rest) = Len(junk) + o /\ Len(junk) \in Nat
    BY <2>1, <2>2, <2>3, <2>4 DEF Behind
  <2>6. \A j \in 1..3 : rest[Len(junk) + n + j] = "-"
    <3> SUFFICES ASSUME NEW j \in 1..3 PROVE rest[Len(junk) + n + j] = "-"
      OBVIOUS
    <3>1. n + j \in 1..o /\ n + j \in 1..Len(p) /\ Len(junk) + n + j = Len(junk) + (n + j)
      BY <1>1, <1>2, <2>2, <2>5
    <3>2. rest[Len(junk) + (n + j)] = p[n + j]
      BY <2>1, <2>4, <3>1 DEF Behind
    <3> QED BY <1>1, <2>2, <3>1, <3>2
  <2>7. IsSuffix(Dashes, rest)
    <3>1. ASSUME NEW i \in Len(rest) - 2..Len(rest) PROVE rest[i] = "-"
      <4> DEFINE j == i - (Len(junk) + n)
      <4>1. Len(rest) = Len(junk) + n + 3 /\ n \in Nat /\ Len(junk) \in Nat
        BY <1>1, <1>2, <2>5
      <4>2. i \in Len(junk) + n + 1..Len(junk) + n + 3
        BY <4>1
      <4>3. j \in 1..3 /\ Len(junk) + n + j = i
        BY <4>1, <4>2
      <4> QED BY <2>6, <4>3
    <3>2. Len(rest) >= 3 /\ rest \in Str
      BY <1>1, <1>2, <2>5 DEF Str
    <3> QED BY <3>1, <3>2, DashesAre
  <2>8. q = junk \o Body(m)
    <3> DEFINE w == junk \o Body(m)
    <3>1. /\ q \in Seq(Chars) /\ Len(q) = Len(junk) + n /\ \A j \in 1..Len(junk) + n : q[j] = rest[j]
      BY <1>1, <1>2, <2>5
    <3>2. w \in Seq(Chars) /\ Len(w) = Len(junk) + n
      BY <2>4 DEF Behind, n
    <3>3. ASSUME NEW j \in 1..Len(junk) + n PROVE rest[j] = w[j]
      <4>1. CASE j <= Len(junk)
        <5>1. j \in 1..Len(junk)
          BY <4>1
        <5> QED BY <2>1, <2>4, <5>1 DEF Behind
      <4>2. CASE j > Len(junk)
        <5> DEFINE i == j - Len(junk)
        <5>1. i \in 1..n /\ i \in 1..o /\ i \in 1..Len(p) /\ i \in 1..Len(Body(m)) /\ Len(junk) + i = j
          BY <1>1, <1>2, <2>2, <2>5, <4>2 DEF n
        <5> HIDE DEF i
        <5>2. rest[Len(junk) + i] = p[i] /\ w[Len(junk) + i] = Body(m)[i]
          BY <2>1, <2>4, <5>1 DEF Behind
        <5> QED BY <1>1, <2>2, <5>1, <5>2
      <4>3. j <= Len(junk) \/ j > Len(junk)
        BY <1>1, <2>5
      <4> QED BY <4>1, <4>2, <4>3
    <3> HIDE DEF w
    <3>4. q = w
      BY <3>1, <3>2, <3>3
    <3> QED BY <3>4 DEF w
  <2>9. q \in Str
    BY <2>4, <2>8 DEF Behind, Str
  <2>10. Known(m) => q = Body(m)
    <3>1. <<>> \o Body(m) = Body(m)
      BY <2>3
    <3> QED BY <2>1, <2>8, <3>1
  <2>11. ASSUME ~Known(m) PROVE EndsIn(q, "h")
    <3>1. Letter(m) = "h" /\ EndsIn(Body(m), "h")
      BY <2>11, BodyMarks, FrameIs
    <3>2. junk \in Str /\ Body(m) \in Str /\ Len(Body(m)) >= 4
      BY <1>1, <2>3 DEF Str, n
    <3> QED BY <2>8, <3>1, <3>2, EndsInBehind
  <2> QED BY <2>7, <2>9, <2>10, <2>11
<1>4. ASSUME IsTail(m, o, rest) PROVE IsSuffix(Dashes, rest) /\ q = <<>>
  <2>1. rest \in Seq(NoNl) /\ Len(rest) = o - n /\ \A j \in 1..Len(rest) : rest[j] = "-"
    BY <1>2, <1>4, TailIs
  <2>2. Len(rest) = 3 /\ rest \in Str
    BY <1>1, <1>2, <2>1 DEF NoNl, Str
  <2>3. IsSuffix(Dashes, rest)
    BY <2>1, <2>2, DashesAre
  <2> QED BY <2>2, <2>3 DEF Str
<1> QED BY <1>3, <1>4 DEF Ends

-----------------------------------------------------------------------------
(* Parts that are complete *)

\* Whatever the last part is, the complete parts ps give the messages M.  They
\* leave something over only when the last part has the mark of a message of an
\* unknown type: then one of them may be equal to it.
Handled(ps, M) ==
  /\ ps \in Seq(Str)
  /\ \A last \in Str : Swept(ps, last).messages = M
  /\ \A last \in Seq(NoNl) : /\ Swept(ps, last).left \in Seq(NoNl)
                             /\ Swept(ps, last).left # <<>> => EndsIn(last, "h")

LEMMA HandledNone == Handled(<<>>, <<>>)
<1>1. \A last : Swept(<<>>, last) = [messages |-> <<>>, left |-> <<>>]
  BY SweptSteps
<1>2. \A last : Swept(<<>>, last).messages = <<>> /\ Swept(<<>>, last).left = <<>>
  BY <1>1
<1>3. <<>> \in Seq(Str) /\ <<>> \in Seq(NoNl)
  OBVIOUS
<1> QED BY <1>2, <1>3 DEF Handled

\* A part with the mark of an unknown type has no mark of a known one.
LEMMA UnknownMark ==
  ASSUME NEW p \in Str
  PROVE  /\ EndsIn(p, "h") => p # <<>> /\ MarkOf(p) = {}
         /\ MarkOf(p) # {} => p # <<>>
<1>1. /\ "iii" \in MarkOf(p) <=> EndsIn(p, "i")
      /\ "ccc" \in MarkOf(p) <=> EndsIn(p, "c")
      /\ MarkOf(p) \subseteq {"iii", "ccc"}
  BY MarkOfIs
<1>2. \A x : EndsIn(p, x) => p # <<>> /\ p[Len(p)] = x
  BY DEF EndsIn
<1>3. \A x \in MarkOf(p) : x = "iii" \/ x = "ccc"
  BY <1>1
<1> QED BY <1>1, <1>2, <1>3

LEMMA HandledNext ==
  ASSUME NEW ps, NEW M, Handled(ps, M), NEW p \in Str
  PROVE  /\ p = <<>> => Handled(Append(ps, p), M)
         /\ MarkOf(p) # {} => Handled(Append(ps, p), Append(M, Message(p)))
         /\ EndsIn(p, "h") => Handled(Append(ps, p), M)
<1>1. /\ ps \in Seq(Str) /\ Append(ps, p) \in Seq(Str)
      /\ \A last \in Str : Swept(ps, last).messages = M
      /\ \A last \in Seq(NoNl) : /\ Swept(ps, last).left \in Seq(NoNl)
                                 /\ Swept(ps, last).left # <<>> => EndsIn(last, "h")
  BY DEF Handled
<1>2. \A last : Swept(Append(ps, p), last) = Sorted(Swept(ps, last), p, last)
  BY <1>1, SweptSteps
<1>3. \A last : Swept(ps, last) \in Acc
  BY <1>1, SweptSteps
<1>4. ASSUME p = <<>> PROVE Handled(Append(ps, p), M)
  <2>1. \A last : Swept(Append(ps, p), last) = Swept(ps, last)
    BY <1>2, <1>4 DEF Sorted
  <2> QED BY <1>1, <2>1 DEF Handled
<1>5. ASSUME MarkOf(p) # {} PROVE Handled(Append(ps, p), Append(M, Message(p)))
  <2>1. p # <<>>
    BY <1>5, UnknownMark
  <2>2. \A last : /\ Swept(Append(ps, p), last).messages = Append(Swept(ps, last).messages, Message(p))
                  /\ Swept(Append(ps, p), last).left = Swept(ps, last).left
    BY <1>2, <1>3, <1>5, <2>1 DEF Sorted, Acc
  <2> QED BY <1>1, <2>2 DEF Handled
<1>6. ASSUME EndsIn(p, "h") PROVE Handled(Append(ps, p), M)
  <2>1. p # <<>> /\ MarkOf(p) = {}
    BY <1>6, UnknownMark
  <2>2. \A last : Swept(Append(ps, p), last).messages = Swept(ps, last).messages
    BY <1>2, <1>3, <2>1 DEF Sorted, Acc
  <2>3. ASSUME NEW last \in Seq(NoNl)
        PROVE  /\ Swept(Append(ps, p), last).left \in Seq(NoNl)
               /\ Swept(Append(ps, p), last).left # <<>> => EndsIn(last, "h")
    <3>1. CASE p = last
      <4>1. Swept(Append(ps, p), last).left = Swept(ps, last).left \o p
        BY <1>2, <1>3, <2>1, <3>1 DEF Sorted, Acc
      <4>2. Swept(ps, last).left \in Seq(NoNl) /\ p \in Seq(NoNl)
        BY <1>1, <3>1
      <4> QED BY <1>6, <3>1, <4>1, <4>2
    <3>2. CASE p # last
      <4>1. Swept(Append(ps, p), last) = Swept(ps, last)
        BY <1>2, <2>1, <3>2 DEF Sorted
      <4> QED BY <1>1, <4>1
    <3> QED BY <3>1, <3>2
  <2> QED BY <1>1, <2>2, <2>3 DEF Handled
<1> QED BY <1>4, <1>5, <1>6

\* What separate_messages makes of complete parts and a last one.
LEMMA Ending ==
  ASSUME NEW s \in Str, NEW M, Handled(Front(Split(s)), M),
         NEW last \in Seq(NoNl), last = Last(Split(s))
  PROVE  /\ last = <<>> => Separate(s).messages = M /\ Separate(s).left = <<>>
         /\ MarkOf(last) # {} => /\ Separate(s).messages = Append(M, Message(last))
                                 /\ Separate(s).left = <<>>
         /\ last # <<>> /\ MarkOf(last) = {} =>
              /\ Separate(s).messages = M
              /\ \E junk \in Seq(NoNl) : /\ Separate(s).left = junk \o last
                                         /\ junk # <<>> => EndsIn(last, "h")
<1> DEFINE ps == Front(Split(s))
           w  == Swept(ps, last)
<1>1. Split(s) \in Parts /\ last \in Str
  BY SplitSteps DEF NoNl, Str
<1>2. Split(s) = Append(ps, last) /\ ps \in Seq(Str)
  BY <1>1 DEF Parts, Front, Last
<1>3. Separate(s) = Sorted(w, last, last)
  BY <1>1, <1>2, SweptSteps DEF Separate
<1>4. w \in Acc /\ w.messages = M /\ w.left \in Seq(NoNl) /\ (w.left # <<>> => EndsIn(last, "h"))
  BY <1>1, <1>2, SweptSteps DEF Handled
<1>5. last = <<>> => ~EndsIn(last, "h")
  BY DEF EndsIn
<1>6. EndsIn(last, "h") => MarkOf(last) = {}
  BY <1>1, UnknownMark
<1>7. MarkOf(last) # {} => last # <<>>
  BY <1>1, UnknownMark
<1> HIDE DEF w, ps
<1>8. CASE last = <<>>
  BY <1>3, <1>4, <1>5, <1>7, <1>8 DEF Sorted
<1>9. CASE MarkOf(last) # {}
  <2>1. Separate(s) = [w EXCEPT !.messages = Append(@, Message(last))]
    BY <1>3, <1>7, <1>9 DEF Sorted
  <2>2. w.left = <<>>
    BY <1>4, <1>6, <1>9
  <2> QED BY <1>4, <1>7, <1>9, <2>1, <2>2 DEF Acc
<1>10. CASE last # <<>> /\ MarkOf(last) = {}
  <2>1. Separate(s) = [w EXCEPT !.left = @ \o last]
    BY <1>3, <1>10 DEF Sorted
  <2>2. Separate(s).messages = w.messages /\ Separate(s).left = w.left \o last
    BY <1>4, <2>1 DEF Acc
  <2> QED BY <1>4, <1>10, <2>2
<1> QED BY <1>8, <1>9, <1>10

-----------------------------------------------------------------------------
(* The messages sent, as far as they have been read *)

\* Of the messages s, the first k have been read and o characters of the frame of
\* the next one; rest is the last part, and the messages said have been handed on.
\* A known message may be handed on before its separator.
Holds(s, k, o, rest, said) ==
  \/ k = Len(s) /\ rest = <<>> /\ said = Pipe!KnownIn(SubSeq(s, 1, k))
  \/ k < Len(s) /\ IsPart(s[k + 1], o, rest) /\ said = Pipe!KnownIn(SubSeq(s, 1, k))
  \/ k < Len(s) /\ IsTail(s[k + 1], o, rest) /\ said = Pipe!KnownIn(SubSeq(s, 1, k + 1))

\* o is a position within the frame of message k + 1, if there is one.
Within(s, k, o) ==
  /\ k \in 0..Len(s) /\ o \in Nat
  /\ k < Len(s) => o \in 0..Len(Body(s[k + 1])) + 3
  /\ k = Len(s) => o = 0

LEMMA KnownNext ==
  ASSUME NEW s \in Seq(Messages), NEW k \in Nat, k < Len(s)
  PROVE  /\ s[k + 1] \in Messages
         /\ Pipe!KnownIn(SubSeq(s, 1, k)) \in Seq(KnownMessage)
         /\ Known(s[k + 1]) =>
              /\ s[k + 1] \in KnownMessage
              /\ Pipe!KnownIn(SubSeq(s, 1, k + 1)) = Append(Pipe!KnownIn(SubSeq(s, 1, k)), s[k + 1])
         /\ ~Known(s[k + 1]) => Pipe!KnownIn(SubSeq(s, 1, k + 1)) = Pipe!KnownIn(SubSeq(s, 1, k))
<1>1. /\ s[k + 1] \in Messages /\ SubSeq(s, 1, k) \in Seq(Messages)
      /\ SubSeq(s, 1, k + 1) = Append(SubSeq(s, 1, k), s[k + 1])
  OBVIOUS
<1>2. Known(s[k + 1]) => s[k + 1] \in KnownMessage
  BY <1>1 DEF Known, KnownMessage, Messages
<1> QED BY <1>1, <1>2, KnownSteps

\* Between two frames.
LEMMA HoldsNone ==
  ASSUME NEW s \in Seq(Messages), NEW k \in 0..Len(s), NEW said,
         said = Pipe!KnownIn(SubSeq(s, 1, k))
  PROVE  Holds(s, k, 0, <<>>, said) /\ Within(s, k, 0)
<1>1. CASE k < Len(s)
  <2> DEFINE m == s[k + 1]
  <2>1. m \in Messages
    BY <1>1
  <2> HIDE DEF m
  <2>2. Frame(m) \in Seq(Chars) /\ Len(Body(m)) \in Nat
    BY <2>1, FrameIs DEF Str
  <2>3. <<>> = <<>> \o SubSeq(Frame(m), 1, 0) /\ <<>> \in Seq(NoNl)
    BY <2>2
  <2>4. IsPart(m, 0, <<>>)
    BY <2>3 DEF IsPart
  <2> QED BY <1>1, <2>2, <2>4 DEF Holds, Within, m
<1>2. CASE k = Len(s)
  BY <1>2 DEF Holds, Within
<1> QED BY <1>1, <1>2

\* The last part never holds a separator.
LEMMA HoldsNoNl ==
  ASSUME NEW s \in Seq(Messages), NEW k, NEW o, NEW rest, NEW said,
         Within(s, k, o), Holds(s, k, o, rest, said)
  PROVE  rest \in Seq(NoNl)
<1>1. CASE k = Len(s) /\ rest = <<>>
  BY <1>1
<1>2. CASE k < Len(s) /\ (IsPart(s[k + 1], o, rest) \/ IsTail(s[k + 1], o, rest))
  <2>1. s[k + 1] \in Messages /\ o \in 0..Len(Body(s[k + 1])) + 3
    BY <1>2 DEF Within
  <2> QED BY <1>2, <2>1, RestNoNl
<1> QED BY <1>1, <1>2 DEF Holds

LEMMA RestEndsAt ==
  ASSUME NEW m \in Messages, NEW o, o = Len(Body(m)) + 3, NEW rest
  PROVE  Ends(m, o, rest, SubSeq(rest, 1, Len(rest) - 3))
<1> DEFINE q == SubSeq(rest, 1, Len(rest) - 3)
<1>1. q = SubSeq(rest, 1, Len(rest) - 3)
  OBVIOUS
<1> HIDE DEF q
<1>2. Ends(m, o, rest, q)
  BY <1>1, RestEnds
<1> QED BY <1>1, <1>2

LEMMA ConcatTwice ==
  ASSUME NEW a \in Seq(NoNl), NEW b \in Seq(NoNl), NEW c \in Seq(NoNl)
  PROVE  a \o (b \o c) = (a \o b) \o c /\ a \o b \in Seq(NoNl)
OBVIOUS

LEMMA SaidOne ==
  ASSUME NEW g \in Seq(KnownMessage), NEW M \in Seq(KnownMessage), NEW m \in KnownMessage
  PROVE  Append(M, m) \in Seq(KnownMessage) /\ g \o Append(M, m) = Append(g \o M, m)
OBVIOUS

\* One character more: the next of the frame that is being read.
LEMMA ScanStep ==
  ASSUME NEW s \in Seq(Messages), NEW k \in Nat, k < Len(s), NEW m, m = s[k + 1],
         NEW o \in 0..Len(Body(m)) + 3,
         NEW ps \in Parts, NEW M \in Seq(KnownMessage), NEW g \in Seq(KnownMessage),
         Handled(Front(ps), M), Holds(s, k, o, Last(ps), g \o M),
         NEW qs, qs = Goes(ps, Frame(m)[o + 1])
  PROVE  \E M2 \in Seq(KnownMessage) :
           /\ Handled(Front(qs), M2)
           /\ o < Len(Body(m)) + 3 => Holds(s, k, o + 1, Last(qs), g \o M2)
           /\ o = Len(Body(m)) + 3 => Holds(s, k + 1, 0, Last(qs), g \o M2)
<1> DEFINE n == Len(Body(m))
           c == Frame(m)[o + 1]
           rest == Last(ps)
           K == Pipe!KnownIn(SubSeq(s, 1, k))
           K1 == Pipe!KnownIn(SubSeq(s, 1, k + 1))
<1>1. /\ m \in Messages /\ K \in Seq(KnownMessage)
      /\ Known(m) => m \in KnownMessage /\ K1 = Append(K, m)
      /\ ~Known(m) => K1 = K
  BY KnownNext
<1>2. /\ n \in Nat /\ n >= 4 /\ Body(m) \in Seq(NoNl) /\ Frame(m) \in Seq(Chars) /\ Len(Frame(m)) = n + 4
      /\ \A j \in 1..n : Frame(m)[j] = Body(m)[j]
      /\ \A j \in 1..3 : Frame(m)[n + j] = "-"
      /\ Frame(m)[n + 4] = "nl"
  <2>1. m \in Messages
    BY <1>1
  <2> HIDE DEF K, K1, rest, c
  <2> QED BY <2>1, FrameIs DEF Str
<1>3. \/ IsPart(m, o, rest) /\ g \o M = K
      \/ IsTail(m, o, rest) /\ g \o M = K1
  <2>1. k # Len(s)
    OBVIOUS
  <2> HIDE DEF n, c
  <2> QED BY <2>1, Zenon DEF Holds
<1>4. rest \in Str /\ c \in Chars
  <2>1. o + 1 \in 1..Len(Frame(m))
    BY <1>2
  <2> QED BY <1>2, <2>1, GoesIs, ElementOfSeq
<1>5. CASE o < n + 3
  <2>1. c # "nl"
    <3>1. CASE o < n
      <4>1. o + 1 \in 1..n /\ Body(m)[o + 1] \in NoNl
        BY <1>2, <3>1, ElementOfSeq
      <4> QED BY <1>2, <4>1 DEF NoNl
    <3>2. CASE o >= n
      <4>1. o + 1 - n \in 1..3 /\ n + (o + 1 - n) = o + 1
        BY <1>2, <1>5, <3>2
      <4> QED BY <1>2, <4>1
    <3> QED BY <1>2, <3>1, <3>2
  <2>2. Front(qs) = Front(ps) /\ Last(qs) = Append(rest, c)
    BY <1>4, <2>1, GoesIs
  <2>3. o \in 0..n + 2
    BY <1>2, <1>5
  <2>4. /\ IsPart(m, o, rest) => IsPart(m, o + 1, Append(rest, c))
        /\ IsTail(m, o, rest) => IsTail(m, o + 1, Append(rest, c))
    BY <1>1, <2>3, RestGrows
  <2>5. Holds(s, k, o + 1, Last(qs), g \o M)
    BY <1>3, <2>2, <2>4 DEF Holds
  <2>6. ~(o = n + 3)
    BY <1>2, <1>5
  <2> QED BY <2>2, <2>5, <2>6
<1>6. CASE o = n + 3
  <2> DEFINE q == SubSeq(rest, 1, Len(rest) - 3)
  <2>1. c = "nl"
    BY <1>2, <1>6
  <2>a. m \in Messages /\ o = Len(Body(m)) + 3
    BY <1>1, <1>6
  <2>2. /\ IsPart(m, o, rest) => /\ IsSuffix(Dashes, rest) /\ q \in Str
                                 /\ Known(m) => q = Body(m)
                                 /\ ~Known(m) => EndsIn(q, "h")
        /\ IsTail(m, o, rest) => IsSuffix(Dashes, rest) /\ q = <<>>
    <3>1. Ends(m, o, rest, q)
      BY <2>a, RestEndsAt
    <3> QED BY <3>1, Zenon DEF Ends
  <2> HIDE DEF q
  <2>3. Front(qs) = Append(Front(ps), q) /\ Last(qs) = <<>> /\ q \in Str
    <3>1. IsSuffix(Dashes, rest) /\ q \in Str
      <4> <<>> \in Str
        BY DEF Str
      <4> HIDE DEF n, c, K, K1, rest
      <4> QED BY <1>3, <2>2
    <3> QED BY <1>4, <2>1, <3>1, GoesIs DEF q
  <2>4. /\ q = <<>> => Handled(Append(Front(ps), q), M)
        /\ MarkOf(q) # {} => Handled(Append(Front(ps), q), Append(M, Message(q)))
        /\ EndsIn(q, "h") => Handled(Append(Front(ps), q), M)
    BY <2>3, HandledNext
  <2>5. \E M2 \in Seq(KnownMessage) : Handled(Front(qs), M2) /\ g \o M2 = K1
    <3>1. CASE IsTail(m, o, rest) /\ g \o M = K1
      BY <2>2, <2>3, <2>4, <3>1
    <3>2. CASE IsPart(m, o, rest) /\ g \o M = K /\ ~Known(m)
      BY <1>1, <2>2, <2>3, <2>4, <3>2
    <3>3. CASE IsPart(m, o, rest) /\ g \o M = K /\ Known(m)
      <4>1. MarkOf(q) # {} /\ Message(q) = m
        BY <1>1, <2>2, <3>3, BodyMarks
      <4>2. Handled(Front(qs), Append(M, m))
        BY <2>3, <2>4, <4>1
      <4>3. Append(M, m) \in Seq(KnownMessage) /\ g \o Append(M, m) = Append(g \o M, m)
        <5> HIDE DEF n, c, K, K1, rest
        <5>1. m \in KnownMessage
          BY <1>1, <3>3
        <5>2. g \in Seq(KnownMessage) /\ M \in Seq(KnownMessage)
          OBVIOUS
        <5> QED BY <5>1, <5>2, SaidOne, Zenon
      <4> QED BY <1>1, <3>3, <4>2, <4>3
    <3> QED BY <1>3, <3>1, <3>2, <3>3
  <2>6. PICK M2 \in Seq(KnownMessage) : Handled(Front(qs), M2) /\ g \o M2 = K1
    BY <2>5
  <2>7. k + 1 \in 0..Len(s)
    OBVIOUS
  <2>8. Holds(s, k + 1, 0, Last(qs), g \o M2)
    BY <2>3, <2>6, <2>7, HoldsNone
  <2>9. ~(o < n + 3)
    BY <1>2, <1>6
  <2> QED BY <2>6, <2>8, <2>9
<1>7. o < n + 3 \/ o = n + 3
  BY <1>2
<1> QED BY <1>5, <1>6, <1>7

\* The end of a read: what separate_messages makes of the last part.
LEMMA HoldsAfter ==
  ASSUME NEW s \in Seq(Messages), NEW k, NEW o, Within(s, k, o),
         NEW x \in Str, NEW M \in Seq(KnownMessage), NEW g \in Seq(KnownMessage),
         Handled(Front(Split(x)), M), Holds(s, k, o, Last(Split(x)), g \o M)
  PROVE  \E M2 \in Seq(KnownMessage) :
           Separate(x).messages = M2 /\ Holds(s, k, o, Separate(x).left, g \o M2)
<1> DEFINE last == Last(Split(x))
           left == Separate(x).left
           K == Pipe!KnownIn(SubSeq(s, 1, k))
           K1 == Pipe!KnownIn(SubSeq(s, 1, k + 1))
<1>1. last \in Seq(NoNl)
  BY HoldsNoNl
<1>2. /\ last = <<>> => Separate(x).messages = M /\ left = <<>>
      /\ MarkOf(last) # {} => /\ Separate(x).messages = Append(M, Message(last))
                              /\ left = <<>>
      /\ last # <<>> /\ MarkOf(last) = {} =>
           /\ Separate(x).messages = M
           /\ \E junk \in Seq(NoNl) : left = junk \o last /\ (junk # <<>> => EndsIn(last, "h"))
  BY <1>1, Ending
<1>3. last \in Str
  BY <1>1 DEF NoNl, Str
<1> HIDE DEF last, left
<1>4. CASE last = <<>>
  <2>1. Holds(s, k, o, left, g \o M)
    BY <1>2, <1>4 DEF last
  <2> QED BY <1>2, <1>4, <2>1 DEF left
<1>5. ASSUME last # <<>>
      PROVE  /\ k \in Nat /\ k < Len(s) /\ s[k + 1] \in Messages
             /\ o \in 0..Len(Body(s[k + 1])) + 3
             /\ \/ IsPart(s[k + 1], o, last) /\ g \o M = K
                \/ IsTail(s[k + 1], o, last) /\ g \o M = K1
  <2>1. \/ k < Len(s) /\ IsPart(s[k + 1], o, last) /\ g \o M = K
        \/ k < Len(s) /\ IsTail(s[k + 1], o, last) /\ g \o M = K1
    BY <1>5, Zenon DEF Holds, last
  <2>2. k < Len(s)
    BY <2>1
  <2>3. k \in Nat /\ o \in 0..Len(Body(s[k + 1])) + 3
    BY <2>2 DEF Within
  <2>4. s[k + 1] \in Messages
    BY <2>2, <2>3
  <2> QED BY <2>1, <2>2, <2>3, <2>4
<1> DEFINE m == s[k + 1]
<1>6. last # <<>> => /\ Known(m) => m \in KnownMessage /\ K1 = Append(K, m)
                     /\ K \in Seq(KnownMessage)
  BY <1>5, KnownNext
<1>7. last # <<>> =>
        /\ IsPart(m, o, last) =>
             /\ o = Len(Body(m)) => EndsIn(last, Letter(m)) /\ (Known(m) => last = Body(m))
             /\ \A y \in {"i", "c", "h"} : EndsIn(last, y) => o = Len(Body(m)) /\ y = Letter(m)
        /\ IsTail(m, o, last) => \A y \in {"i", "c", "h"} : ~EndsIn(last, y)
  BY <1>5, PartMarks, TailMarks
<1>8. last # <<>> => /\ Letter(m) \in {"i", "c", "h"} /\ (Letter(m) = "h" <=> ~Known(m))
                     /\ Known(m) => MarkOf(Body(m)) # {} /\ Message(Body(m)) = m
  BY <1>5, BodyMarks
<1> HIDE DEF m, K, K1
<1>9. CASE MarkOf(last) # {}
  <2>1. last # <<>>
    BY <1>3, <1>9, UnknownMark
  <2>2. EndsIn(last, "i") \/ EndsIn(last, "c")
    <3>1. /\ "iii" \in MarkOf(last) <=> EndsIn(last, "i")
          /\ "ccc" \in MarkOf(last) <=> EndsIn(last, "c")
          /\ MarkOf(last) \subseteq {"iii", "ccc"}
      BY <1>3, MarkOfIs
    <3> QED BY <1>9, <3>1
  <2>3. IsPart(m, o, last) /\ g \o M = K
    BY <1>5, <1>7, <2>1, <2>2 DEF m
  <2>4. o = Len(Body(m)) /\ Known(m) /\ last = Body(m)
    BY <1>7, <1>8, <2>1, <2>2, <2>3
  <2>5. Separate(x).messages = Append(M, m) /\ left = <<>>
    BY <1>2, <1>8, <1>9, <2>1, <2>4
  <2>6. m \in KnownMessage /\ K1 = Append(K, m)
    BY <1>6, <2>1, <2>4
  <2>7. Append(M, m) \in Seq(KnownMessage) /\ g \o Append(M, m) = K1
    BY <2>3, <2>6, SaidOne
  <2>8. IsTail(m, o, <<>>)
    <3>1. m \in Messages
      BY <1>5, <2>1 DEF m
    <3>2. Frame(m) \in Seq(Chars) /\ Len(Body(m)) \in Nat
      BY <3>1, FrameIs DEF Str
    <3>3. SubSeq(Frame(m), Len(Body(m)) + 1, Len(Body(m))) = <<>> /\ o >= Len(Body(m))
      BY <2>4, <3>2
    <3> QED BY <2>4, <3>3 DEF IsTail
  <2>9. Holds(s, k, o, left, g \o Append(M, m))
    BY <1>5, <2>1, <2>5, <2>7, <2>8, Zenon DEF Holds, m, K1
  <2> QED BY <2>5, <2>7, <2>9 DEF left
<1>10. CASE last # <<>> /\ MarkOf(last) = {}
  <2>1. PICK junk \in Seq(NoNl) : left = junk \o last /\ (junk # <<>> => EndsIn(last, "h"))
    BY <1>2, <1>10
  <2>2. Separate(x).messages = M
    BY <1>2, <1>10
  <2>3. Holds(s, k, o, left, g \o M)
    <3>1. CASE IsPart(m, o, last) /\ g \o M = K
      <4>1. PICK j2 \in Seq(NoNl) : /\ last = j2 \o SubSeq(Frame(m), 1, o)
                                    /\ j2 # <<>> => ~Known(m) /\ o >= Len(Body(m))
        BY <3>1 DEF IsPart
      <4>2. SubSeq(Frame(m), 1, o) \in Seq(NoNl)
        BY <1>5, <1>10, BeginningIs DEF m
      <4>3. left = (junk \o j2) \o SubSeq(Frame(m), 1, o) /\ junk \o j2 \in Seq(NoNl)
        BY <2>1, <4>1, <4>2, ConcatTwice
      <4>4. junk # <<>> => ~Known(m) /\ o = Len(Body(m))
        BY <1>7, <1>8, <1>10, <2>1, <3>1
      <4>5. junk \o j2 # <<>> => junk # <<>> \/ j2 # <<>>
        OBVIOUS
      <4>6. m \in Messages
        BY <1>5, <1>10 DEF m
      <4>7. Len(Body(m)) \in Nat
        BY <4>6, FrameIs
      <4>8. junk \o j2 # <<>> => ~Known(m) /\ o >= Len(Body(m))
        BY <4>1, <4>4, <4>5, <4>7
      <4>9. IsPart(m, o, left)
        BY <4>3, <4>8 DEF IsPart
      <4> QED BY <1>5, <1>10, <3>1, <4>9, Zenon DEF Holds, m, K
    <3>2. CASE IsTail(m, o, last) /\ g \o M = K1
      <4>1. junk = <<>>
        BY <1>7, <1>10, <2>1, <3>2
      <4>2. left = last
        BY <1>3, <2>1, <4>1 DEF Str
      <4> QED BY <4>2 DEF last
    <3> QED BY <1>5, <1>10, <3>1, <3>2 DEF m
  <2> QED BY <2>2, <2>3 DEF left
<1> QED BY <1>4, <1>9, <1>10

-----------------------------------------------------------------------------
(* The stream *)

\* T is the frames of s, one after the other; those of the first i take E[i]
\* characters.
Laid(T, E, s) ==
  /\ T \in Str /\ E \in [0..Len(s) -> Nat] /\ E[0] = 0 /\ E[Len(s)] = Len(T)
  /\ \A i \in 0..Len(s) : E[i] <= Len(T)
  /\ \A i \in 1..Len(s) : E[i] = E[i - 1] + Len(Frame(s[i]))
  /\ \A i \in 1..Len(s) : \A j \in 1..Len(Frame(s[i])) : T[E[i - 1] + j] = Frame(s[i])[j]

LEMMA LaidNone == Laid(<<>>, [i \in 0..0 |-> 0], <<>>)
BY DEF Laid, Str

\* One message more.
LEMMA LaidNext ==
  ASSUME NEW s \in Seq(Messages), NEW m \in Messages, NEW T, NEW E, Laid(T, E, s)
  PROVE  \E F : Laid(T \o Frame(m), F, Append(s, m)) /\ \A i \in 0..Len(s) : F[i] = E[i]
<1> DEFINE n == Len(s) + 1
           f == Frame(m)
           F == [i \in 0..n |-> IF i = n THEN E[n - 1] + Len(f) ELSE E[i]]
           U == T \o f
           t == Append(s, m)
<1>1. /\ T \in Seq(Chars) /\ E \in [0..Len(s) -> Nat] /\ E[0] = 0 /\ E[Len(s)] = Len(T)
      /\ \A i \in 0..Len(s) : E[i] <= Len(T)
      /\ \A i \in 1..Len(s) : E[i] = E[i - 1] + Len(Frame(s[i]))
      /\ \A i \in 1..Len(s) : \A j \in 1..Len(Frame(s[i])) : T[E[i - 1] + j] = Frame(s[i])[j]
  BY DEF Laid, Str
<1>2. f \in Seq(Chars) /\ \A i \in 1..Len(s) : Frame(s[i]) \in Seq(Chars)
  <2>1. \A i \in 1..Len(s) : s[i] \in Messages
    OBVIOUS
  <2> QED BY <2>1, FrameIs DEF Str
<1>3. t \in Seq(Messages) /\ Len(t) = n /\ t[n] = m /\ \A i \in 1..Len(s) : t[i] = s[i]
  OBVIOUS
<1>4. n \in Nat /\ n >= 1 /\ n - 1 = Len(s) /\ Len(s) \in Nat
  OBVIOUS
<1>5. Behind(T, f, Chars)
  BY <1>1, <1>2, ConcatIs
<1> HIDE DEF f
<1>6. F[n] = Len(T) + Len(f) /\ \A i \in 0..Len(s) : F[i] = E[i]
  BY <1>1, <1>4
<1>7. U \in Seq(Chars) /\ Len(U) = Len(T) + Len(f) /\ Len(f) \in Nat /\ Len(T) \in Nat
  BY <1>1, <1>2, <1>5 DEF Behind
<1>8. F \in [0..n -> Nat] /\ F[0] = 0
  <2>1. \A i \in 0..n : i = n \/ i \in 0..Len(s)
    BY <1>4
  <2> QED BY <1>1, <1>4, <1>6, <1>7, <2>1
<1> HIDE DEF F, n, t, U
<1>9. \A i \in 0..n : F[i] <= Len(U)
  <2>1. \A i \in 0..n : i = n \/ i \in 0..Len(s)
    BY <1>4
  <2>2. \A i \in 0..Len(s) : E[i] \in Nat
    BY <1>1
  <2> QED BY <1>1, <1>6, <1>7, <2>1, <2>2
<1>10. ASSUME NEW i \in 1..n
       PROVE  /\ F[i] = F[i - 1] + Len(Frame(t[i]))
              /\ \A j \in 1..Len(Frame(t[i])) : U[F[i - 1] + j] = Frame(t[i])[j]
  <2>1. CASE i = n
    <3>1. Frame(t[i]) = f /\ F[i - 1] = Len(T) /\ F[i] = Len(T) + Len(f)
      <4>1. Len(s) \in 0..Len(s) /\ i - 1 = Len(s)
        BY <1>4, <2>1
      <4> QED BY <1>1, <1>3, <1>6, <2>1, <4>1 DEF f
    <3> QED BY <1>5, <3>1 DEF Behind, U
  <2>2. CASE i # n
    <3>1. i \in 1..Len(s) /\ i - 1 \in 0..Len(s) /\ i \in 0..Len(s)
      BY <1>4, <2>2
    <3>2. Frame(t[i]) = Frame(s[i]) /\ F[i - 1] = E[i - 1] /\ F[i] = E[i]
      BY <1>3, <1>6, <3>1
    <3>3. ASSUME NEW j \in 1..Len(Frame(s[i])) PROVE U[E[i - 1] + j] = Frame(s[i])[j]
      <4>1. E[i - 1] \in Nat /\ E[i] = E[i - 1] + Len(Frame(s[i])) /\ E[i] <= Len(T)
        BY <1>1, <3>1
      <4>2. Len(Frame(s[i])) \in Nat /\ Len(T) \in Nat
        BY <1>2, <1>7, <3>1
      <4>3. E[i - 1] + j \in 1..Len(T)
        <5> DEFINE e == E[i - 1]
                   e1 == E[i]
                   l == Len(Frame(s[i]))
        <5>1. e \in Nat /\ e1 = e + l /\ e1 <= Len(T) /\ l \in Nat /\ j \in 1..l
          BY <4>1, <4>2
        <5> HIDE DEF e, e1, l
        <5>2. e + j \in 1..Len(T)
          BY <4>2, <5>1
        <5> QED BY <5>2 DEF e
      <4>4. U[E[i - 1] + j] = T[E[i - 1] + j]
        BY <1>5, <4>3 DEF Behind, U
      <4> QED BY <1>1, <3>1, <4>4
    <3> QED BY <1>1, <3>1, <3>2, <3>3
  <2> QED BY <2>1, <2>2
<1>11. Laid(U, F, t)
  BY <1>3, <1>6, <1>7, <1>8, <1>9, <1>10 DEF Laid, Str
<1> QED BY <1>6, <1>11 DEF U, t, f

\* Where the reading is, the next character is the next one of the frame.
LEMMA NextCharacter ==
  ASSUME NEW s \in Seq(Messages), NEW T, NEW E, Laid(T, E, s),
         NEW k, NEW o, Within(s, k, o), NEW r, r = E[k] + o
  PROVE  /\ r \in Nat /\ r <= Len(T) /\ (r = Len(T) => k = Len(s) /\ o = 0)
         /\ r < Len(T) =>
              /\ k \in Nat /\ k < Len(s) /\ s[k + 1] \in Messages
              /\ o \in 0..Len(Body(s[k + 1])) + 3
              /\ T[r + 1] = Frame(s[k + 1])[o + 1]
              /\ o < Len(Body(s[k + 1])) + 3 => Within(s, k, o + 1)
              /\ o = Len(Body(s[k + 1])) + 3 => r + 1 = E[k + 1]
<1>1. /\ T \in Seq(Chars) /\ E \in [0..Len(s) -> Nat] /\ E[0] = 0 /\ E[Len(s)] = Len(T)
      /\ \A i \in 0..Len(s) : E[i] <= Len(T)
      /\ \A i \in 1..Len(s) : E[i] = E[i - 1] + Len(Frame(s[i]))
      /\ \A i \in 1..Len(s) : \A j \in 1..Len(Frame(s[i])) : T[E[i - 1] + j] = Frame(s[i])[j]
  BY DEF Laid, Str
<1>2. k \in 0..Len(s) /\ o \in Nat /\ Len(s) \in Nat /\ E[k] \in Nat /\ Len(T) \in Nat
  BY <1>1 DEF Within
<1>3. CASE k = Len(s)
  <2>1. o = 0
    BY <1>3 DEF Within
  <2> QED BY <1>1, <1>2, <1>3, <2>1
<1>4. CASE k < Len(s)
  <2> DEFINE m == s[k + 1]
  <2>1. m \in Messages /\ k + 1 \in 1..Len(s) /\ (k + 1) - 1 = k /\ k + 1 \in 0..Len(s)
    BY <1>2, <1>4
  <2>2. o \in 0..Len(Body(m)) + 3
    BY <1>4 DEF Within
  <2> HIDE DEF m
  <2>3. Len(Body(m)) \in Nat /\ Len(Frame(m)) = Len(Body(m)) + 4
    BY <2>1, FrameIs
  <2>4. /\ E[k + 1] = E[k] + Len(Frame(m)) /\ E[k + 1] <= Len(T)
        /\ \A j \in 1..Len(Frame(m)) : T[E[k] + j] = Frame(m)[j]
    BY <1>1, <2>1 DEF m
  <2>5. r \in Nat /\ r < Len(T)
    <3> DEFINE e == E[k]
               b == Len(Body(m))
               l == Len(T)
    <3>1. e \in Nat /\ E[k + 1] = e + Len(Frame(m)) /\ E[k + 1] <= l
      BY <1>2, <2>4
    <3>2. r = e + o /\ o \in 0..b + 3 /\ b \in Nat /\ Len(Frame(m)) = b + 4 /\ l \in Nat
      BY <1>2, <2>2, <2>3
    <3>3. e + (b + 4) <= l
      BY <3>1, <3>2
    <3> HIDE DEF e, b, l
    <3>4. e + o \in Nat /\ e + o < l
      BY <3>1, <3>2, <3>3
    <3> QED BY <3>2, <3>4 DEF l
  <2>6. T[r + 1] = Frame(m)[o + 1]
    <3>1. o + 1 \in 1..Len(Frame(m)) /\ r + 1 = E[k] + (o + 1)
      BY <1>2, <2>2, <2>3
    <3> QED BY <2>4, <3>1
  <2>7. o < Len(Body(m)) + 3 => Within(s, k, o + 1)
    BY <1>2, <1>4, <2>2, <2>3 DEF Within, m
  <2>8. o = Len(Body(m)) + 3 => r + 1 = E[k + 1]
    BY <1>2, <2>3, <2>4
  <2>9. r \in Nat /\ r <= Len(T) /\ r # Len(T) /\ k \in Nat
    BY <1>2, <2>5
  <2> QED BY <1>4, <2>1, <2>2, <2>6, <2>7, <2>8, <2>9, Zenon DEF m
<1> QED BY <1>2, <1>3, <1>4

-----------------------------------------------------------------------------
(* A read, one character after the other *)

\* With x split and r characters of the stream read, what the complete parts of x
\* give, behind g, and its last part are where the messages say.
Scanned(s, E, r, x, g) ==
  \E k, o, M :
    /\ Within(s, k, o) /\ r = E[k] + o
    /\ M \in Seq(KnownMessage) /\ Handled(Front(Split(x)), M)
    /\ Holds(s, k, o, Last(Split(x)), g \o M)

LEMMA ScanStart ==
  ASSUME NEW s \in Seq(Messages), NEW E, NEW k, NEW o, Within(s, k, o),
         NEW x, NEW g \in Seq(KnownMessage), Holds(s, k, o, x, g)
  PROVE  Scanned(s, E, E[k] + o, x, g)
<1>1. x \in Seq(NoNl)
  BY HoldsNoNl
<1>2. Split(x) = <<x>>
  BY <1>1, SplitOne
<1>3. Front(<<x>>) = <<>> /\ Last(<<x>>) = x
  BY DEF Front, Last
<1>4. g \o <<>> = g /\ <<>> \in Seq(KnownMessage)
  OBVIOUS
<1>5. Holds(s, k, o, x, g \o <<>>)
  BY <1>4
<1>6. Handled(Front(Split(x)), <<>>) /\ Holds(s, k, o, Last(Split(x)), g \o <<>>)
  BY <1>2, <1>3, <1>5, HandledNone
<1> QED BY <1>4, <1>6 DEF Scanned

LEMMA ScanChar ==
  ASSUME NEW s \in Seq(Messages), NEW T, NEW E, Laid(T, E, s), NEW r, r < Len(T),
         NEW x \in Str, NEW g \in Seq(KnownMessage), Scanned(s, E, r, x, g)
  PROVE  Scanned(s, E, r + 1, Append(x, T[r + 1]), g)
<1>1. PICK k, o, M : /\ Within(s, k, o) /\ r = E[k] + o
                     /\ M \in Seq(KnownMessage) /\ Handled(Front(Split(x)), M)
                     /\ Holds(s, k, o, Last(Split(x)), g \o M)
  BY DEF Scanned
<1> DEFINE m  == s[k + 1]
           c  == T[r + 1]
           qs == Split(Append(x, c))
<1>2. /\ r \in Nat /\ k \in Nat /\ k < Len(s) /\ m \in Messages
      /\ o \in 0..Len(Body(m)) + 3 /\ c = Frame(m)[o + 1]
      /\ o < Len(Body(m)) + 3 => Within(s, k, o + 1)
      /\ o = Len(Body(m)) + 3 => r + 1 = E[k + 1]
  BY <1>1, NextCharacter
<1>3. Split(x) \in Parts /\ qs = Goes(Split(x), Frame(m)[o + 1])
  <2>1. T \in Seq(Chars) /\ r + 1 \in 1..Len(T)
    BY <1>2 DEF Laid, Str
  <2>2. c \in Chars
    BY <2>1, ElementOfSeq
  <2> QED BY <1>2, <2>2, SplitSteps
<1>4. m = s[k + 1]
  OBVIOUS
<1> HIDE DEF m, c, qs
<1>5. PICK M2 \in Seq(KnownMessage) :
        /\ Handled(Front(qs), M2)
        /\ o < Len(Body(m)) + 3 => Holds(s, k, o + 1, Last(qs), g \o M2)
        /\ o = Len(Body(m)) + 3 => Holds(s, k + 1, 0, Last(qs), g \o M2)
  BY <1>1, <1>2, <1>3, <1>4, ScanStep
<1>6. Len(Body(m)) \in Nat
  BY <1>2, FrameIs
<1>7. E[k] + o = r
  BY <1>1
<1>8. CASE o < Len(Body(m)) + 3
  <2>1. r + 1 = E[k] + (o + 1)
    <3>1. E[k] \in Nat
      BY <1>1 DEF Laid, Within
    <3> DEFINE e == E[k]
    <3>2. e \in Nat /\ e + o = r /\ o \in Nat
      BY <1>2, <1>6, <1>7, <3>1
    <3> HIDE DEF e
    <3>3. r + 1 = e + (o + 1)
      BY <3>2
    <3> QED BY <3>3 DEF e
  <2> QED BY <1>2, <1>5, <1>8, <2>1 DEF Scanned, qs, c
<1>9. CASE o = Len(Body(m)) + 3
  <2>1. k + 1 \in 0..Len(s)
    BY <1>2
  <2>2. Within(s, k + 1, 0)
    BY <2>1, HoldsNone
  <2>3. r + 1 = E[k + 1] + 0
    <3>1. E[k + 1] \in Nat
      BY <2>1 DEF Laid
    <3> QED BY <1>2, <1>9, <3>1
  <2> QED BY <1>5, <1>9, <2>2, <2>3 DEF Scanned, qs, c
<1>10. o < Len(Body(m)) + 3 \/ o = Len(Body(m)) + 3
  BY <1>2, <1>6
<1> QED BY <1>8, <1>9, <1>10

\* As many characters as a read returns.
LEMMA Scan ==
  ASSUME NEW s \in Seq(Messages), NEW T, NEW E, Laid(T, E, s),
         NEW r \in Nat, r <= Len(T), NEW w, w = SubSeq(T, r + 1, Len(T)),
         NEW x \in Str, NEW g \in Seq(KnownMessage), Scanned(s, E, r, x, g),
         NEW n \in 0..Len(w)
  PROVE  Scanned(s, E, r + n, x \o SubSeq(w, 1, n), g)
<1>1. T \in Seq(Chars) /\ x \in Seq(Chars)
  BY DEF Laid, Str
<1>2. w \in Seq(Chars) /\ Len(w) = Len(T) - r /\ \A i \in 1..Len(w) : w[i] = T[r + i]
  BY <1>1
<1> DEFINE H == {i \in Nat : i <= Len(w) => Scanned(s, E, r + i, x \o SubSeq(w, 1, i), g)}
<1>3. 0 \in H
  <2>1. x \o SubSeq(w, 1, 0) = x /\ r + 0 = r
    BY <1>1, <1>2
  <2> QED BY <2>1
<1>4. ASSUME NEW i \in Nat, i \in H PROVE i + 1 \in H
  <2> SUFFICES ASSUME i + 1 <= Len(w)
               PROVE  Scanned(s, E, r + (i + 1), x \o SubSeq(w, 1, i + 1), g)
    OBVIOUS
  <2> DEFINE p == SubSeq(w, 1, i)
             q == SubSeq(w, 1, i + 1)
             c == T[(r + i) + 1]
  <2>1. i <= Len(w) /\ Len(w) \in Nat /\ Len(T) \in Nat
    BY <1>1, <1>2
  <2>2. Scanned(s, E, r + i, x \o p, g)
    BY <1>4, <2>1
  <2>3. r + i < Len(T) /\ (r + i) + 1 = r + (i + 1)
    BY <1>2, <2>1
  <2>4. c = w[i + 1] /\ c \in Chars
    <3>1. i + 1 \in 1..Len(w) /\ (r + i) + 1 \in 1..Len(T)
      BY <2>1, <2>3
    <3>2. w[i + 1] = T[r + (i + 1)]
      BY <1>2, <3>1
    <3> QED BY <1>1, <2>3, <3>1, <3>2
  <2> HIDE DEF c
  <2>5. p \in Seq(Chars) /\ q = Append(p, c)
    <3>1. SubSeq(w, 1, i) \in Seq(Chars) /\ SubSeq(w, 1, i + 1) = Append(SubSeq(w, 1, i), w[i + 1])
      BY <1>2, SubSeqNext
    <3> QED BY <2>4, <3>1
  <2> HIDE DEF p, q
  <2>6. x \o p \in Str /\ Append(x \o p, c) = x \o q
    <3>1. Append(x \o p, c) = x \o Append(p, c)
      BY <1>1, <2>4, <2>5, AppendBehind
    <3>2. x \o p \in Seq(Chars)
      BY <1>1, <2>5
    <3> QED BY <2>5, <3>1, <3>2 DEF Str
  <2>7. Scanned(s, E, (r + i) + 1, Append(x \o p, c), g)
    <3>1. Scanned(s, E, (r + i) + 1, Append(x \o p, T[(r + i) + 1]), g)
      BY <2>2, <2>3, <2>6, ScanChar
    <3> QED BY <3>1 DEF c
  <2> QED BY <2>3, <2>6, <2>7 DEF q
<1> HIDE DEF H
<1>5. Nat \subseteq H
  BY <1>3, <1>4, SetInduction
<1>6. n \in H /\ n <= Len(w)
  BY <1>2, <1>5
<1> QED BY <1>6 DEF H

-----------------------------------------------------------------------------
(* The stream of a connection *)

\* The characters w of the frames of s are not read yet; b is left over and the
\* messages g have been handed on, as Holds has it.
Streams(s, w, b, g) ==
  \E T, E, k, o :
    /\ Laid(T, E, s) /\ Within(s, k, o)
    /\ w = SubSeq(T, E[k] + o + 1, Len(T))
    /\ Holds(s, k, o, b, g)

LEMMA StreamsNew == Streams(<<>>, <<>>, <<>>, <<>>)
<1> DEFINE E == [i \in 0..0 |-> 0]
<1>1. Laid(<<>>, E, <<>>)
  BY LaidNone
<1>2. Pipe!KnownIn(SubSeq(<<>>, 1, 0)) = <<>>
  <2>1. SubSeq(<<>>, 1, 0) = <<>>
    OBVIOUS
  <2> QED BY <2>1, KnownSteps
<1>3. Holds(<<>>, 0, 0, <<>>, <<>>) /\ Within(<<>>, 0, 0)
  <2>1. <<>> \in Seq(Messages) /\ 0 \in 0..Len(<<>>)
    OBVIOUS
  <2> QED BY <1>2, <2>1, HoldsNone
<1>4. <<>> = SubSeq(<<>>, E[0] + 0 + 1, Len(<<>>))
  OBVIOUS
<1> QED BY <1>1, <1>3, <1>4 DEF Streams

LEMMA StreamsSend ==
  ASSUME NEW s \in Seq(Messages), NEW w, NEW b, NEW g, Streams(s, w, b, g), NEW m \in Messages
  PROVE  Streams(Append(s, m), w \o Frame(m), b, g)
<1>1. PICK T, E, k, o : /\ Laid(T, E, s) /\ Within(s, k, o)
                        /\ w = SubSeq(T, E[k] + o + 1, Len(T))
                        /\ Holds(s, k, o, b, g)
  BY DEF Streams
<1> DEFINE f == Frame(m)
           t == Append(s, m)
           r == E[k] + o
<1>2. PICK F : Laid(T \o f, F, t) /\ \A i \in 0..Len(s) : F[i] = E[i]
  BY <1>1, LaidNext
<1>3. T \in Seq(Chars) /\ f \in Seq(Chars) /\ r \in Nat /\ r <= Len(T)
  <2>1. r \in Nat /\ r <= Len(T)
    BY <1>1, NextCharacter
  <2> QED BY <1>1, <2>1, FrameIs DEF Laid, Str
<1>4. k \in 0..Len(s) /\ F[k] = E[k]
  BY <1>1, <1>2 DEF Within
<1>5. t \in Seq(Messages) /\ SubSeq(t, 1, k) = SubSeq(s, 1, k)
  BY <1>4
<1> HIDE DEF f, r
<1>6. w \o f = SubSeq(T \o f, r + 1, Len(T \o f))
  <2>1. w = SubSeq(T, r + 1, Len(T))
    BY <1>1 DEF r
  <2>2. /\ w \in Seq(Chars) /\ Len(w) = Len(T) - r /\ \A i \in 1..Len(w) : w[i] = T[r + i]
        /\ Len(T) \in Nat /\ Len(f) \in Nat
    BY <1>3, <2>1
  <2>3. Behind(w, f, Chars) /\ Behind(T, f, Chars)
    BY <1>3, <2>2, ConcatIs
  <2> DEFINE v == w \o f
             U == T \o f
             z == SubSeq(U, r + 1, Len(U))
  <2>4. v \in Seq(Chars) /\ Len(v) = Len(w) + Len(f) /\ U \in Seq(Chars) /\ Len(U) = Len(T) + Len(f)
    BY <2>3 DEF Behind
  <2>5. \A i \in 1..Len(v) : v[i] = U[r + i]
    <3> SUFFICES ASSUME NEW i \in 1..Len(v) PROVE v[i] = U[r + i]
      OBVIOUS
    <3>1. CASE i <= Len(w)
      <4>1. i \in 1..Len(w) /\ r + i \in 1..Len(T)
        BY <1>3, <2>2, <3>1
      <4> QED BY <2>2, <2>3, <4>1 DEF Behind
    <3>2. CASE i > Len(w)
      <4> DEFINE j == i - Len(w)
      <4>1. j \in 1..Len(f) /\ Len(w) + j = i /\ Len(T) + j = r + i
        BY <1>3, <2>2, <2>4, <3>2
      <4> HIDE DEF j
      <4>2. v[Len(w) + j] = f[j] /\ U[Len(T) + j] = f[j]
        BY <2>3, <4>1 DEF Behind
      <4> QED BY <4>1, <4>2
    <3>3. i <= Len(w) \/ i > Len(w)
      BY <2>2
    <3> QED BY <3>1, <3>2, <3>3
  <2> HIDE DEF v, U
  <2>6. z \in Seq(Chars) /\ Len(z) = Len(U) - r /\ \A i \in 1..Len(z) : z[i] = U[r + i]
    <3>1. r <= Len(U)
      BY <1>3, <2>2, <2>4
    <3>2. U \in Seq(Chars) /\ r \in Nat
      BY <1>3, <2>4
    <3> QED BY <3>1, <3>2, SubSeqFrom, Zenon
  <2>7. Len(z) = Len(v)
    BY <1>3, <2>2, <2>4, <2>6
  <2> HIDE DEF z
  <2>8. v = z
    <3>1. \A i \in 1..Len(v) : v[i] = z[i]
      BY <2>5, <2>6, <2>7
    <3> QED BY <2>4, <2>6, <2>7, <3>1
  <2> QED BY <2>8 DEF v, z, U
<1>7. w \o f = SubSeq(T \o f, F[k] + o + 1, Len(T \o f))
  BY <1>4, <1>6 DEF r
<1>8. Within(t, k, o) /\ Holds(t, k, o, b, g)
  <2>1. CASE k < Len(s)
    <3>1. /\ t[k + 1] = s[k + 1] /\ SubSeq(t, 1, k + 1) = SubSeq(s, 1, k + 1)
          /\ Len(t) = Len(s) + 1 /\ k < Len(t) /\ k \in 0..Len(t) /\ k # Len(s) /\ k # Len(t)
      BY <1>4, <2>1
    <3> HIDE DEF t
    <3>2. Within(t, k, o)
      BY <1>1, <2>1, <3>1 DEF Within
    <3>3. Holds(t, k, o, b, g)
      BY <1>1, <1>5, <2>1, <3>1, Zenon DEF Holds
    <3> QED BY <3>2, <3>3
  <2>2. CASE k = Len(s)
    <3>1. k # Len(t) /\ k < Len(t) /\ k \in 0..Len(t) /\ ~(k < Len(s))
      BY <1>4, <2>2
    <3>2. o = 0 /\ b = <<>> /\ g = Pipe!KnownIn(SubSeq(s, 1, k))
      BY <1>1, <2>2, <3>1 DEF Within, Holds
    <3> QED BY <1>5, <3>1, <3>2, HoldsNone
  <2> QED BY <1>4, <2>1, <2>2
<1> QED BY <1>2, <1>7, <1>8 DEF Streams, f

LEMMA StreamsRead ==
  ASSUME NEW s \in Seq(Messages), NEW w, NEW b \in Str, NEW g \in Seq(KnownMessage),
         Streams(s, w, b, g), NEW n \in 1..Len(w),
         NEW found, found = Separate(b \o SubSeq(w, 1, n))
  PROVE  /\ found.messages \in Seq(KnownMessage)
         /\ Streams(s, SubSeq(w, n + 1, Len(w)), found.left, g \o found.messages)
<1>1. PICK T, E, k, o : /\ Laid(T, E, s) /\ Within(s, k, o)
                        /\ w = SubSeq(T, E[k] + o + 1, Len(T))
                        /\ Holds(s, k, o, b, g)
  BY DEF Streams
<1> DEFINE r == E[k] + o
           x == b \o SubSeq(w, 1, n)
<1>2. T \in Seq(Chars) /\ r \in Nat /\ r <= Len(T) /\ w = SubSeq(T, r + 1, Len(T))
  <2>1. r \in Nat /\ r <= Len(T)
    BY <1>1, NextCharacter
  <2> QED BY <1>1, <2>1 DEF Laid, Str
<1>3. Scanned(s, E, r, b, g)
  BY <1>1, ScanStart
<1> HIDE DEF r
<1>4. w \in Seq(Chars) /\ Len(w) = Len(T) - r /\ n \in 0..Len(w)
  BY <1>2
<1>5. Scanned(s, E, r + n, x, g)
  BY <1>1, <1>2, <1>3, <1>4, Scan
<1>6. x \in Str
  BY <1>4 DEF Str
<1>7. found = Separate(x)
  OBVIOUS
<1> HIDE DEF x
<1>8. PICK k2, o2, M : /\ Within(s, k2, o2) /\ r + n = E[k2] + o2
                       /\ M \in Seq(KnownMessage) /\ Handled(Front(Split(x)), M)
                       /\ Holds(s, k2, o2, Last(Split(x)), g \o M)
  BY <1>5 DEF Scanned
<1>9. PICK M2 \in Seq(KnownMessage) :
        Separate(x).messages = M2 /\ Holds(s, k2, o2, Separate(x).left, g \o M2)
  BY <1>6, <1>8, HoldsAfter
<1>10. SubSeq(w, n + 1, Len(w)) = SubSeq(T, E[k2] + o2 + 1, Len(T))
  <2>1. SubSeq(w, n + 1, Len(w)) = SubSeq(T, (r + n) + 1, Len(T))
    BY <1>2, <1>4
  <2> QED BY <1>8, <2>1
<1>11. Streams(s, SubSeq(w, n + 1, Len(w)), found.left, g \o found.messages)
  BY <1>1, <1>7, <1>8, <1>9, <1>10 DEF Streams
<1> QED BY <1>7, <1>9, <1>11

-----------------------------------------------------------------------------
(* The invariant *)

\* The parts of the state are where the stream and the messages sent say they are.
FrameInv == TypeOK /\ ~panicked /\ Streams(sent, wire, buf_str, got)

\* The text of a known message decodes.
LEMMA TextDecodes ==
  ASSUME NEW m \in KnownMessage PROVE Decodes(m.content)
BY FramingAssumption DEF KnownMessage, Decodes

LEMMA FrameInit == Init => FrameInv
<1> SUFFICES ASSUME Init PROVE FrameInv
  OBVIOUS
<1>1. TypeOK /\ ~panicked
  <2>1. 1 \in 1..MaxConn
    BY FramingAssumption
  <2>2. \A S : <<>> \in Seq(S)
    OBVIOUS
  <2> QED BY <2>1, <2>2 DEF Init, TypeOK
<1> QED BY <1>1, StreamsNew DEF Init, FrameInv

\* A read keeps the invariant, and its messages are handed on.
LEMMA FrameRead ==
  ASSUME FrameInv, Read
  PROVE  FrameInv' /\ \E M \in Seq(KnownMessage) : got' = got \o M
<1>1. /\ sent \in Seq(Messages) /\ wire \in Str /\ buf_str \in Str /\ got \in Seq(KnownMessage)
      /\ Streams(sent, wire, buf_str, got)
  BY DEF FrameInv, TypeOK, Str, KnownMessage
<1>2. PICK n \in 1..Len(wire) :
        LET found == Separate(buf_str \o SubSeq(wire, 1, n))
            sound == \A i \in DOMAIN found.messages : Decodes(found.messages[i].content)
        IN /\ wire' = SubSeq(wire, n + 1, Len(wire))
           /\ panicked' = ~sound
           /\ got' = IF sound THEN got \o found.messages ELSE got
           /\ buf_str' = found.left
  BY DEF Read
<1> DEFINE x     == buf_str \o SubSeq(wire, 1, n)
           found == Separate(x)
<1>3. wire' = SubSeq(wire, n + 1, Len(wire)) /\ wire' \in Str /\ x \in Str
  BY <1>1, <1>2 DEF Str
<1>4. found \in Acc
  <2>1. Split(x) \in Seq(Str)
    BY <1>3, SplitSteps DEF Parts
  <2> QED BY <2>1, SweptSteps DEF Separate
<1>5. found = Separate(buf_str \o SubSeq(wire, 1, n))
  OBVIOUS
<1> HIDE DEF found, x
<1>6. /\ found.messages \in Seq(KnownMessage)
      /\ Streams(sent, SubSeq(wire, n + 1, Len(wire)), found.left, got \o found.messages)
  BY <1>1, <1>5, StreamsRead
<1>7. \A i \in DOMAIN found.messages : Decodes(found.messages[i].content)
  <2>1. \A i \in DOMAIN found.messages : found.messages[i] \in KnownMessage
    BY <1>6
  <2> QED BY <2>1, TextDecodes
<1>8. panicked' = FALSE /\ got' = got \o found.messages /\ buf_str' = found.left
  BY <1>2, <1>5, <1>7
<1>9. sent' = sent /\ conns' = conns
  BY DEF Read
<1>10. Streams(sent', wire', buf_str', got')
  BY <1>3, <1>6, <1>8, <1>9
<1>11. got' \in Seq(KnownMessage) /\ buf_str' \in Str
  BY <1>1, <1>4, <1>6, <1>8 DEF Acc
<1>12. TypeOK'
  BY <1>3, <1>8, <1>9, <1>11 DEF FrameInv, TypeOK, Str, KnownMessage
<1> QED BY <1>6, <1>8, <1>10, <1>12 DEF FrameInv

LEMMA FrameStep ==
  ASSUME FrameInv, [Next]_vars
  PROVE  FrameInv'
<1>1. CASE ServerSends
  <2>1. PICK m \in Messages : sent' = Append(sent, m) /\ wire' = wire \o Frame(m)
    BY <1>1 DEF ServerSends
  <2>2. buf_str' = buf_str /\ got' = got /\ panicked' = panicked /\ conns' = conns
    BY <1>1 DEF ServerSends
  <2>3. sent \in Seq(Messages) /\ wire \in Seq(Chars)
    BY DEF FrameInv, TypeOK
  <2>4. Frame(m) \in Seq(Chars)
    BY FrameIs DEF Str
  <2>5. sent' \in Seq(Messages) /\ wire' \in Seq(Chars)
    BY <2>1, <2>3, <2>4
  <2>6. Streams(sent', wire', buf_str', got')
    BY <2>1, <2>2, <2>3, StreamsSend DEF FrameInv
  <2>7. TypeOK'
    BY <2>2, <2>5 DEF FrameInv, TypeOK
  <2> QED BY <2>2, <2>6, <2>7 DEF FrameInv
<1>2. CASE Read
  BY <1>2, FrameRead
<1>3. CASE Reconnect
  <2>1. /\ sent' = <<>> /\ wire' = <<>> /\ buf_str' = <<>> /\ got' = <<>>
        /\ panicked' = panicked /\ conns' = conns + 1 /\ conns < MaxConn
    BY <1>3 DEF Reconnect
  <2>2. TypeOK'
    BY <2>1, FramingAssumption DEF FrameInv, TypeOK
  <2> QED BY <2>1, <2>2, StreamsNew DEF FrameInv
<1>4. CASE UNCHANGED vars
  BY <1>4 DEF FrameInv, TypeOK, vars
<1> QED BY <1>1, <1>2, <1>3, <1>4 DEF Next

LEMMA FrameAlways == Spec => []FrameInv
BY FrameInit, FrameStep, PTL DEF Spec

-----------------------------------------------------------------------------
(* What it says *)

LEMMA PrefixIs ==
  ASSUME NEW a \in Seq(KnownMessage), NEW b \in Seq(KnownMessage),
         Len(a) <= Len(b), a = SubSeq(b, 1, Len(a))
  PROVE  a \in Prefixes(b)
<1>1. \E l \in 0..Len(b) : a = SubSeq(b, 1, l)
  <2>1. Len(a) \in 0..Len(b)
    OBVIOUS
  <2> QED BY <2>1, Zenon
<1> QED BY <1>1, Zenon DEF Prefixes

\* The known messages of the first k are the first known messages.
LEMMA KnownPrefix ==
  ASSUME NEW s \in Seq(Messages), NEW k \in 0..Len(s)
  PROVE  Pipe!KnownIn(SubSeq(s, 1, k)) \in Prefixes(Pipe!KnownIn(s))
<1> DEFINE K(i) == Pipe!KnownIn(SubSeq(s, 1, i))
           Starts(i) == Len(K(k)) <= Len(K(i)) /\ K(k) = SubSeq(K(i), 1, Len(K(k)))
           H == {i \in Nat : k + i <= Len(s) => Starts(k + i)}
<1>1. \A i \in 0..Len(s) : K(i) \in Seq(KnownMessage)
  <2>1. \A i \in 0..Len(s) : SubSeq(s, 1, i) \in Seq(Messages)
    OBVIOUS
  <2> QED BY <2>1, KnownSteps
<1>2. \A i \in Nat : i < Len(s) =>
        K(i + 1) = K(i) \/ \E m \in KnownMessage : K(i + 1) = Append(K(i), m)
  <2> SUFFICES ASSUME NEW i \in Nat, i < Len(s)
               PROVE  K(i + 1) = K(i) \/ \E m \in KnownMessage : K(i + 1) = Append(K(i), m)
    OBVIOUS
  <2>1. /\ Known(s[i + 1]) => s[i + 1] \in KnownMessage /\ K(i + 1) = Append(K(i), s[i + 1])
        /\ ~Known(s[i + 1]) => K(i + 1) = K(i)
    BY KnownNext
  <2> QED BY <2>1
<1> HIDE DEF K
<1>3. 0 \in H
  <2>1. K(k) \in Seq(KnownMessage) /\ k + 0 = k
    BY <1>1
  <2> QED BY <2>1
<1>4. ASSUME NEW i \in Nat, i \in H PROVE i + 1 \in H
  <2> SUFFICES ASSUME k + (i + 1) <= Len(s) PROVE Starts(k + (i + 1))
    OBVIOUS
  <2> DEFINE a == K(k)
             b == K(k + i)
             c == K(k + (i + 1))
  <2>1. /\ k + i \in 0..Len(s) /\ k + i < Len(s) /\ (k + i) + 1 = k + (i + 1)
        /\ k + i \in Nat /\ k + (i + 1) \in 0..Len(s)
    OBVIOUS
  <2>2. a \in Seq(KnownMessage) /\ b \in Seq(KnownMessage) /\ c \in Seq(KnownMessage)
    BY <1>1, <2>1
  <2>3. Len(a) <= Len(b) /\ a = SubSeq(b, 1, Len(a))
    BY <1>4, <2>1
  <2>4. c = b \/ \E m \in KnownMessage : c = Append(b, m)
    BY <1>2, <2>1
  <2> HIDE DEF a, b, c
  <2>5. Len(a) <= Len(c) /\ a = SubSeq(c, 1, Len(a))
    <3>1. ASSUME NEW m \in KnownMessage, c = Append(b, m)
          PROVE  Len(a) <= Len(c) /\ SubSeq(c, 1, Len(a)) = SubSeq(b, 1, Len(a))
      BY <2>2, <2>3, <3>1
    <3> QED BY <2>3, <2>4, <3>1
  <2> QED BY <2>5 DEF a, c
<1> HIDE DEF H
<1>5. Nat \subseteq H
  BY <1>3, <1>4, SetInduction
<1>6. Len(s) - k \in H /\ k + (Len(s) - k) = Len(s)
  BY <1>5
<1>7. Starts(Len(s))
  BY <1>6 DEF H
<1>8. K(Len(s)) = Pipe!KnownIn(s)
  <2>1. SubSeq(s, 1, Len(s)) = s
    OBVIOUS
  <2> QED BY <2>1 DEF K
<1>9. K(k) \in Seq(KnownMessage) /\ K(Len(s)) \in Seq(KnownMessage)
  BY <1>1
<1>10. K(k) \in Prefixes(K(Len(s)))
  BY <1>7, <1>9, PrefixIs
<1> QED BY <1>8, <1>10 DEF K

\* What has been handed on are the first known messages; all of them, once
\* nothing of the stream is left.
LEMMA StreamsSay ==
  ASSUME NEW s \in Seq(Messages), NEW w, NEW b, NEW g, Streams(s, w, b, g)
  PROVE  /\ g \in Prefixes(Pipe!KnownIn(s))
         /\ w = <<>> => g = Pipe!KnownIn(s)
<1>1. PICK T, E, k, o : /\ Laid(T, E, s) /\ Within(s, k, o)
                        /\ w = SubSeq(T, E[k] + o + 1, Len(T))
                        /\ Holds(s, k, o, b, g)
  BY DEF Streams
<1>2. k \in 0..Len(s) /\ Len(s) \in Nat
  BY <1>1 DEF Within
<1>3. g \in Prefixes(Pipe!KnownIn(s))
  <2>1. CASE g = Pipe!KnownIn(SubSeq(s, 1, k))
    BY <1>2, <2>1, KnownPrefix
  <2>2. CASE k < Len(s) /\ g = Pipe!KnownIn(SubSeq(s, 1, k + 1))
    <3>1. k + 1 \in 0..Len(s)
      BY <1>2, <2>2
    <3> QED BY <2>2, <3>1, KnownPrefix
  <2> QED BY <1>1, <2>1, <2>2, Zenon DEF Holds
<1>4. ASSUME w = <<>> PROVE g = Pipe!KnownIn(s)
  <2> DEFINE r == E[k] + o
  <2>1. r \in Nat /\ r <= Len(T) /\ (r = Len(T) => k = Len(s) /\ o = 0)
    BY <1>1, NextCharacter
  <2>2. T \in Seq(Chars) /\ w = SubSeq(T, r + 1, Len(T))
    BY <1>1 DEF Laid, Str
  <2> HIDE DEF r
  <2>3. Len(w) = Len(T) - r
    BY <2>1, <2>2
  <2>4. k = Len(s)
    BY <1>4, <2>1, <2>2, <2>3
  <2>5. ~(k < Len(s)) /\ SubSeq(s, 1, Len(s)) = s
    BY <1>2, <2>4
  <2> QED BY <1>1, <2>4, <2>5 DEF Holds
<1> QED BY <1>3, <1>4

-----------------------------------------------------------------------------
(* Results *)

\* The variables have their types.
THEOREM TypeCorrect == Spec => []TypeOK
<1>1. FrameInv => TypeOK
  BY DEF FrameInv
<1> QED BY <1>1, FrameAlways, PTL

\* However a read cuts the stream, every text that is separated is one the server
\* sent, so that BASE64.decode(..).unwrap() does not end the process.
THEOREM NoCutPanics == Spec => []NeverPanics
<1>1. FrameInv => NeverPanics
  BY DEF FrameInv, NeverPanics
<1> QED BY <1>1, FrameAlways, PTL

\* Once the stream has been read, every known message has been handed on.
THEOREM AllHandedOn == Spec => []NothingHeldBack
<1>1. FrameInv => NothingHeldBack
  <2> SUFFICES ASSUME FrameInv PROVE NothingHeldBack
    OBVIOUS
  <2>1. sent \in Seq(Messages) /\ Streams(sent, wire, buf_str, got)
    BY DEF FrameInv, TypeOK
  <2> QED BY <2>1, StreamsSay DEF NothingHeldBack
<1> QED BY <1>1, FrameAlways, PTL

\* The framing is an ordered pipe of the known messages, whatever the size of the
\* reads: each step sends a message, delivers some, starts a new connection or is
\* not seen.
THEOREM FramingIsAPipe == Spec => ImplementsPipe
<1>1. Init => Pipe!Init
  BY DEF Init, Pipe!Init
<1>2. FrameInv /\ [Next]_vars => [Pipe!Next]_<<sent, got>>
  <2> SUFFICES ASSUME FrameInv, [Next]_vars PROVE [Pipe!Next]_<<sent, got>>
    OBVIOUS
  <2>1. CASE ServerSends
    BY <2>1 DEF ServerSends, Pipe!Next, Pipe!Send
  <2>2. CASE Read
    <3>1. FrameInv' /\ \E M \in Seq(KnownMessage) : got' = got \o M
      BY <2>2, FrameRead
    <3>2. PICK M \in Seq(KnownMessage) : got' = got \o M
      BY <3>1
    <3>3. sent' = sent /\ sent \in Seq(Messages) /\ got \in Seq(KnownMessage)
      BY <2>2 DEF Read, FrameInv, TypeOK, KnownMessage
    <3>4. Streams(sent, wire', buf_str', got')
      BY <3>1, <3>3 DEF FrameInv
    <3>5. got' \in Prefixes(Pipe!KnownIn(sent))
      BY <3>3, <3>4, StreamsSay
    <3>6. IsPrefix(got, got')
      <4>1. Len(got) <= Len(got \o M) /\ SubSeq(got, 1, Len(got)) = SubSeq(got \o M, 1, Len(got))
        BY <3>3
      <4> QED BY <3>2, <4>1 DEF IsPrefix
    <3>7. Pipe!Deliver
      BY <3>3, <3>5, <3>6 DEF Pipe!Deliver, Pipe!Prefixes, Pipe!IsPrefix, Prefixes, IsPrefix
    <3> QED BY <3>7 DEF Pipe!Next
  <2>3. CASE Reconnect
    BY <2>3 DEF Reconnect, Pipe!Next, Pipe!NewConnection
  <2>4. CASE UNCHANGED vars
    BY <2>4 DEF vars
  <2> QED BY <2>1, <2>2, <2>3, <2>4 DEF Next
<1> QED BY <1>1, <1>2, FrameAlways, PTL DEF Spec, ImplementsPipe, Pipe!Spec

=============================================================================
