-------------------------- MODULE SessionTurnsProofs --------------------------
(***************************************************************************)
(* Proofs about SessionTurns, for any turns, tools, chats and agents and   *)
(* lists of any length.                                                    *)
(*                                                                         *)
(* Most of it is about message lists: Paired speaks of positions that      *)
(* SkipTools chooses; AnsweredBy and CalledFor say the same without them,  *)
(* so that putting lists together, cutting them at a message that is no    *)
(* tool result, compacting them and adding a whole round keep them paired. *)
(* Then one lemma per action shows that it keeps SessionInv.               *)
(***************************************************************************)
EXTENDS SessionTurns, FiniteSetTheorems, SequenceTheorems, WellFoundedInduction, TLAPS

Follows(ms, j, k) == \A l \in j + 1 .. k : ms[l].role = "tool"

\* A nonempty set of numbers has a smallest element.
LEMMA SmallestNumber ==
    ASSUME NEW S \in SUBSET Nat, S # {}
    PROVE  \E x \in S : \A y \in S : x =< y
<1> DEFINE less == {ss \in Nat \X Nat : ss[1] < ss[2]}
<1>1. IsWellFoundedOn(less, Nat)
  BY NatLessThanWellFounded DEF OpToRel
<1>2. PICK x \in S : \A y \in S : <<y, x>> \notin less
  BY <1>1, WFMin
<1>3. \A y \in Nat : <<y, x>> \notin less => x =< y
  OBVIOUS
<1>. QED
  BY <1>2, <1>3

\* SkipTools finds the first message that is not a tool result.
LEMMA SkipFacts ==
    ASSUME NEW ms \in Seq(Messages), NEW i \in 1 .. Len(ms) + 1
    PROVE  /\ SkipTools(ms, i) \in i .. Len(ms) + 1
           /\ SkipTools(ms, i) = Len(ms) + 1 \/ ms[SkipTools(ms, i)].role # "tool"
           /\ \A k \in i .. SkipTools(ms, i) - 1 : ms[k].role = "tool"
<1> DEFINE S == {j \in i .. Len(ms) + 1 : j = Len(ms) + 1 \/ ms[j].role # "tool"}
<1>1. Len(ms) + 1 \in S /\ S \in SUBSET Nat
  OBVIOUS
<1>2. PICK x \in S : \A y \in S : x =< y
  BY <1>1, SmallestNumber
<1>3. \A k \in i .. x - 1 : ms[k].role = "tool"
  <2> SUFFICES ASSUME NEW k \in i .. x - 1, ms[k].role # "tool" PROVE FALSE
    OBVIOUS
  <2>1. k \in S
    BY <1>2
  <2>. QED
    BY <2>1, <1>2
<1>4. \E j \in i .. Len(ms) + 1 :
        /\ j = Len(ms) + 1 \/ ms[j].role # "tool"
        /\ \A k \in i .. j - 1 : ms[k].role = "tool"
  BY <1>2, <1>3
<1>. QED
  BY <1>4 DEF SkipTools

LEMMA SkipFollows ==
    ASSUME NEW ms \in Seq(Messages), NEW j \in 0 .. Len(ms), NEW k \in j + 1 .. Len(ms)
    PROVE  k < SkipTools(ms, j + 1) <=> Follows(ms, j, k)
<1> DEFINE s == SkipTools(ms, j + 1)
<1>1. /\ s \in j + 1 .. Len(ms) + 1
      /\ s = Len(ms) + 1 \/ ms[s].role # "tool"
      /\ \A l \in j + 1 .. s - 1 : ms[l].role = "tool"
  <2>1. j + 1 \in 1 .. Len(ms) + 1
    OBVIOUS
  <2>. QED
    BY <2>1, SkipFacts
<1> HIDE DEF s
<1>2. ASSUME k < s PROVE Follows(ms, j, k)
  <2>1. \A l \in j + 1 .. k : l \in j + 1 .. s - 1
    BY <1>1, <1>2
  <2>. QED
    BY <2>1, <1>1 DEF Follows
<1>3. ASSUME Follows(ms, j, k), s =< k PROVE FALSE
  <2>1. s \in j + 1 .. k /\ s # Len(ms) + 1
    BY <1>1, <1>3
  <2>. QED
    BY <2>1, <1>1, <1>3 DEF Follows
<1>. QED
  BY <1>1, <1>2, <1>3 DEF s

\* Answered and Paired, without the position that SkipTools chooses.
AnsweredBy(ms, i) ==
    ms[i].role = "assistant" =>
        \A c \in ms[i].calls : \E k \in i + 1 .. Len(ms) : Follows(ms, i, k) /\ c \in ms[k].calls

CalledFor(ms, i) ==
    ms[i].role = "tool" =>
        \E j \in 1 .. i - 1 : /\ ms[i].calls \subseteq ms[j].calls
                              /\ ms[j].role = "assistant"
                              /\ Follows(ms, j, i)

LEMMA AnsweredMeans ==
    ASSUME NEW ms \in Seq(Messages), NEW i \in 1 .. Len(ms)
    PROVE  Answered(ms, i) <=> AnsweredBy(ms, i)
<1>1. \A k \in i + 1 .. Len(ms) : k < SkipTools(ms, i + 1) <=> Follows(ms, i, k)
  BY SkipFollows
<1>2. SkipTools(ms, i + 1) \in i + 1 .. Len(ms) + 1
  BY SkipFacts
<1>3. \A k : k \in i + 1 .. SkipTools(ms, i + 1) - 1 <=> k \in i + 1 .. Len(ms) /\ Follows(ms, i, k)
  BY <1>1, <1>2
<1>. QED
  BY <1>3 DEF Answered, AnsweredBy

LEMMA PairedMeans ==
    ASSUME NEW ms \in Seq(Messages)
    PROVE  Paired(ms) <=> \A i \in 1 .. Len(ms) : AnsweredBy(ms, i) /\ CalledFor(ms, i)
<1>1. DOMAIN ms = 1 .. Len(ms)
  OBVIOUS
<1>2. ASSUME NEW i \in 1 .. Len(ms), NEW j \in 1 .. i - 1
      PROVE  SkipTools(ms, j + 1) > i <=> Follows(ms, j, i)
  <2>1. j \in 0 .. Len(ms) /\ i \in j + 1 .. Len(ms) /\ SkipTools(ms, j + 1) \in Int
    BY SkipFacts
  <2>. QED
    BY <2>1, SkipFollows
<1>. QED
  BY <1>1, <1>2, AnsweredMeans DEF Paired, CalledFor

-----------------------------------------------------------------------------
(* Lists that a provider accepts, and how they are put together *)

\* Paired, as far as the two quirks allow it.
Good(ms) == ms \in Seq(Messages) /\ (Quirks = {} => Paired(ms))

LEMMA OriginsOf ==
    ASSUME NEW ms \in Seq(Messages)
    PROVE  /\ \A i \in 1 .. Len(ms) : ms[i] \in Messages /\ ms[i].of \subseteq Origins(ms)
           /\ Origins(ms) \subseteq Turns \cup Steers \cup Agents
           /\ \A x \in Origins(ms) : \E i \in 1 .. Len(ms) : x \in ms[i].of
<1>1. DOMAIN ms = 1 .. Len(ms) /\ \A i \in 1 .. Len(ms) : ms[i] \in Messages
  OBVIOUS
<1>. QED
  BY <1>1 DEF Origins, Messages

\* Lists can be put one behind the other.
LEMMA PairedConcat ==
    ASSUME NEW ms \in Seq(Messages), NEW ns \in Seq(Messages), Paired(ms), Paired(ns)
    PROVE  Paired(ms \o ns)
<1> DEFINE zs == ms \o ns
           m == Len(ms)
<1>1. /\ zs \in Seq(Messages) /\ Len(zs) = m + Len(ns) /\ m \in Nat /\ Len(ns) \in Nat
      /\ \A i \in 1 .. m : zs[i] = ms[i]
      /\ \A i \in 1 .. Len(ns) : zs[m + i] = ns[i]
  BY ConcatProperties
<1>2. /\ \A i \in 1 .. m : AnsweredBy(ms, i) /\ CalledFor(ms, i)
      /\ \A i \in 1 .. Len(ns) : AnsweredBy(ns, i) /\ CalledFor(ns, i)
  BY PairedMeans
<1> HIDE DEF zs, m
<1>3. ASSUME NEW j \in 0 .. m, NEW k \in j .. m PROVE Follows(zs, j, k) <=> Follows(ms, j, k)
  BY <1>1 DEF Follows
<1>4. ASSUME NEW j \in 0 .. Len(ns), NEW k \in j .. Len(ns), Follows(ns, j, k)
      PROVE  Follows(zs, m + j, m + k)
  <2> SUFFICES ASSUME NEW l \in m + j + 1 .. m + k PROVE zs[l].role = "tool"
    BY DEF Follows
  <2>1. l - m \in j + 1 .. k /\ l = m + (l - m) /\ l - m \in 1 .. Len(ns)
    BY <1>1
  <2>. QED
    BY <2>1, <1>1, <1>4 DEF Follows
<1>5. ASSUME NEW i \in 1 .. m PROVE AnsweredBy(zs, i) /\ CalledFor(zs, i)
  <2>1. zs[i] = ms[i] /\ i \in 0 .. m
    BY <1>1
  <2>2. AnsweredBy(zs, i)
    <3> SUFFICES ASSUME zs[i].role = "assistant", NEW c \in zs[i].calls
                 PROVE  \E k \in i + 1 .. Len(zs) : Follows(zs, i, k) /\ c \in zs[k].calls
      BY DEF AnsweredBy
    <3>1. PICK k \in i + 1 .. m : Follows(ms, i, k) /\ c \in ms[k].calls
      BY <1>2, <2>1 DEF AnsweredBy, m
    <3>2. k \in i + 1 .. Len(zs) /\ k \in i .. m /\ zs[k] = ms[k]
      BY <1>1
    <3>. QED
      BY <3>1, <3>2, <2>1, <1>3
  <2>3. CalledFor(zs, i)
    <3> SUFFICES ASSUME zs[i].role = "tool"
                 PROVE  \E j \in 1 .. i - 1 : /\ zs[i].calls \subseteq zs[j].calls
                                              /\ zs[j].role = "assistant"
                                              /\ Follows(zs, j, i)
      BY DEF CalledFor
    <3>1. PICK j \in 1 .. i - 1 : /\ ms[i].calls \subseteq ms[j].calls
                                  /\ ms[j].role = "assistant"
                                  /\ Follows(ms, j, i)
      BY <1>2, <2>1 DEF CalledFor
    <3>2. j \in 0 .. m /\ i \in j .. m /\ zs[j] = ms[j]
      BY <1>1
    <3>. QED
      BY <3>1, <3>2, <2>1, <1>3
  <2>. QED
    BY <2>2, <2>3
<1>6. ASSUME NEW i \in 1 .. Len(ns) PROVE AnsweredBy(zs, m + i) /\ CalledFor(zs, m + i)
  <2>1. zs[m + i] = ns[i] /\ i \in 0 .. Len(ns)
    BY <1>1
  <2>2. AnsweredBy(zs, m + i)
    <3> SUFFICES ASSUME ns[i].role = "assistant", NEW c \in ns[i].calls
                 PROVE  \E k \in m + i + 1 .. Len(zs) : Follows(zs, m + i, k) /\ c \in zs[k].calls
      BY <2>1 DEF AnsweredBy
    <3>1. PICK k \in i + 1 .. Len(ns) : Follows(ns, i, k) /\ c \in ns[k].calls
      BY <1>2 DEF AnsweredBy
    <3>2. m + k \in m + i + 1 .. Len(zs) /\ k \in i .. Len(ns) /\ zs[m + k] = ns[k]
      BY <1>1
    <3>. QED
      BY <3>1, <3>2, <2>1, <1>4
  <2>3. ASSUME ns[i].role = "tool"
        PROVE  \E j \in 1 .. (m + i) - 1 : /\ ns[i].calls \subseteq zs[j].calls
                                         /\ zs[j].role = "assistant"
                                         /\ Follows(zs, j, m + i)
    <3>1. PICK j \in 1 .. i - 1 : /\ ns[i].calls \subseteq ns[j].calls
                                  /\ ns[j].role = "assistant"
                                  /\ Follows(ns, j, i)
      BY <1>2, <2>3 DEF CalledFor
    <3>2. m + j \in 1 .. (m + i) - 1 /\ j \in 0 .. Len(ns) /\ i \in j .. Len(ns) /\ zs[m + j] = ns[j]
      BY <1>1
    <3>. QED
      BY <3>1, <3>2, <2>1, <1>4
  <2>4. CalledFor(zs, m + i)
    BY <2>1, <2>3 DEF CalledFor
  <2>. QED
    BY <2>2, <2>4
<1>7. \A i \in 1 .. Len(zs) : AnsweredBy(zs, i) /\ CalledFor(zs, i)
  <2> SUFFICES ASSUME NEW i \in 1 .. Len(zs) PROVE AnsweredBy(zs, i) /\ CalledFor(zs, i)
    OBVIOUS
  <2>1. CASE i \in 1 .. m
    BY <2>1, <1>5
  <2>2. CASE i \notin 1 .. m
    <3>1. i - m \in 1 .. Len(ns) /\ i = m + (i - m)
      BY <2>2, <1>1
    <3>. QED
      BY <3>1, <1>6
  <2>. QED
    BY <2>1, <2>2
<1>8. Paired(zs)
  BY <1>1, <1>7, PairedMeans
<1>. QED
  BY <1>8 DEF zs

LEMMA OriginsConcat ==
    ASSUME NEW ms \in Seq(Messages), NEW ns \in Seq(Messages)
    PROVE  Origins(ms \o ns) = Origins(ms) \cup Origins(ns)
<1> DEFINE zs == ms \o ns
           m == Len(ms)
<1>1. /\ zs \in Seq(Messages) /\ Len(zs) = m + Len(ns) /\ m \in Nat /\ Len(ns) \in Nat
      /\ \A i \in 1 .. m : zs[i] = ms[i]
      /\ \A i \in 1 .. Len(ns) : zs[m + i] = ns[i]
  BY ConcatProperties
<1> HIDE DEF zs, m
<1>2. Origins(zs) = Origins(ms) \cup Origins(ns)
  <2>1. \A x \in Origins(zs) : x \in Origins(ms) \cup Origins(ns)
    <3> SUFFICES ASSUME NEW x \in Origins(zs) PROVE x \in Origins(ms) \cup Origins(ns)
      OBVIOUS
    <3>1. PICK i \in 1 .. Len(zs) : x \in zs[i].of
      BY <1>1, OriginsOf
    <3>2. CASE i \in 1 .. m
      BY <3>1, <3>2, <1>1, OriginsOf DEF m
    <3>3. CASE i \notin 1 .. m
      <4>1. i - m \in 1 .. Len(ns) /\ i = m + (i - m)
        BY <3>3, <1>1
      <4>2. x \in ns[i - m].of
        BY <4>1, <3>1, <1>1
      <4>. QED
        BY <4>1, <4>2, OriginsOf
    <3>. QED
      BY <3>2, <3>3
  <2>2. \A x \in Origins(ms) : x \in Origins(zs)
    <3> SUFFICES ASSUME NEW x \in Origins(ms) PROVE x \in Origins(zs)
      OBVIOUS
    <3>1. PICK i \in 1 .. m : x \in ms[i].of
      BY OriginsOf DEF m
    <3>2. i \in 1 .. Len(zs) /\ x \in zs[i].of
      BY <3>1, <1>1
    <3>. QED
      BY <3>2, <1>1, OriginsOf
  <2>3. \A x \in Origins(ns) : x \in Origins(zs)
    <3> SUFFICES ASSUME NEW x \in Origins(ns) PROVE x \in Origins(zs)
      OBVIOUS
    <3>1. PICK i \in 1 .. Len(ns) : x \in ns[i].of
      BY OriginsOf
    <3>2. m + i \in 1 .. Len(zs) /\ x \in zs[m + i].of
      BY <3>1, <1>1
    <3>. QED
      BY <3>2, <1>1, OriginsOf
  <2>. QED
    BY <2>1, <2>2, <2>3
<1>. QED
  BY <1>2 DEF zs

LEMMA GoodConcat ==
    ASSUME NEW ms, NEW ns, Good(ms), Good(ns)
    PROVE  Good(ms \o ns) /\ Origins(ms \o ns) = Origins(ms) \cup Origins(ns)
<1>1. ms \in Seq(Messages) /\ ns \in Seq(Messages)
  BY DEF Good
<1>2. ms \o ns \in Seq(Messages)
  BY <1>1, ConcatProperties
<1>3. Quirks = {} => Paired(ms \o ns)
  BY <1>1, PairedConcat DEF Good
<1>. QED
  BY <1>1, <1>2, <1>3, OriginsConcat DEF Good

\* A list without calls and results is good.
LEMMA GoodPlain ==
    ASSUME NEW ms \in Seq(Messages),
           \A i \in 1 .. Len(ms) : ms[i].role # "tool" /\ ms[i].calls = {}
    PROVE  Good(ms)
  BY PairedMeans DEF Good, AnsweredBy, CalledFor

LEMMA GoodOne ==
    ASSUME NEW m \in Messages, m.role # "tool", m.calls = {}
    PROVE  Good(<<m>>) /\ Origins(<<m>>) = m.of
<1>1. <<m>> \in Seq(Messages) /\ Len(<<m>>) = 1 /\ <<m>>[1] = m
  OBVIOUS
<1>a. \A i \in 1 .. Len(<<m>>) : <<m>>[i] = m
  BY <1>1
<1>b. \A i \in 1 .. Len(<<m>>) : <<m>>[i].role # "tool" /\ <<m>>[i].calls = {}
  BY <1>a, Zenon
<1>2. Good(<<m>>)
  BY <1>1, <1>b, GoodPlain, Zenon
<1>3. DOMAIN <<m>> = {1}
  BY <1>1
<1>4. Origins(<<m>>) = UNION {<<m>>[i].of : i \in {1}}
  BY <1>3 DEF Origins
<1>. QED
  BY <1>1, <1>2, <1>4

LEMMA GoodEmpty == Good(<<>>) /\ Origins(<<>>) = {}
<1>1. <<>> \in Seq(Messages) /\ Len(<<>>) = 0 /\ DOMAIN <<>> = {}
  OBVIOUS
<1>a. \A i \in 1 .. Len(<<>>) : FALSE
  BY <1>1
<1>2. Good(<<>>)
  BY <1>1, <1>a, GoodPlain, Zenon
<1>. QED
  BY <1>1, <1>2 DEF Origins

LEMMA GoodAppend ==
    ASSUME NEW ms, Good(ms), NEW m \in Messages, m.role # "tool", m.calls = {}
    PROVE  Good(Append(ms, m)) /\ Origins(Append(ms, m)) = Origins(ms) \cup m.of
<1>1. Append(ms, m) = ms \o <<m>>
  BY AppendIsConcat DEF Good
<1>. QED
  BY <1>1, GoodConcat, GoodOne

LEMMA SuffixFacts ==
    ASSUME NEW ms \in Seq(Messages), NEW b \in 0 .. Len(ms)
    PROVE  LET zs == SubSeq(ms, b + 1, Len(ms))
           IN  /\ zs \in Seq(Messages) /\ Len(zs) = Len(ms) - b
               /\ \A i \in 1 .. Len(ms) - b : zs[i] = ms[b + i]
<1> DEFINE s == b + 1
           zs == SubSeq(ms, s, Len(ms))
<1>0. Len(ms) \in Nat /\ s \in 1 .. Len(ms) + 1
  OBVIOUS
<1>1. \A i \in s .. Len(ms) : ms[i] \in Messages
  BY <1>0
<1>2. /\ zs \in Seq(Messages)
      /\ Len(zs) = IF s <= Len(ms) THEN Len(ms) - s + 1 ELSE 0
      /\ \A i \in 1 .. Len(ms) - s + 1 : zs[i] = ms[s + i - 1]
  BY <1>0, <1>1, SubSeqProperties
<1>3. \A i \in 1 .. Len(ms) - b : i \in 1 .. Len(ms) - s + 1 /\ s + i - 1 = b + i
  BY <1>0
<1>. QED
  BY <1>0, <1>2, <1>3

LEMMA OriginsSuffix ==
    ASSUME NEW ms \in Seq(Messages), NEW b \in 0 .. Len(ms)
    PROVE  Origins(SubSeq(ms, b + 1, Len(ms))) \subseteq Origins(ms)
<1> DEFINE zs == SubSeq(ms, b + 1, Len(ms))
<1>1. /\ zs \in Seq(Messages) /\ Len(zs) = Len(ms) - b
      /\ \A i \in 1 .. Len(ms) - b : zs[i] = ms[b + i]
  BY SuffixFacts
<1> HIDE DEF zs
<1> SUFFICES ASSUME NEW x \in Origins(zs) PROVE x \in Origins(ms)
  BY DEF zs
<1>2. PICK i \in 1 .. Len(zs) : x \in zs[i].of
  BY <1>1, OriginsOf
<1>3. b + i \in 1 .. Len(ms) /\ x \in ms[b + i].of
  BY <1>1, <1>2
<1>. QED
  BY <1>3, OriginsOf

\* The rest of a list from a message that is no tool result.
LEMMA PairedSuffix ==
    ASSUME NEW ms \in Seq(Messages), Paired(ms), NEW b \in 0 .. Len(ms),
           b = Len(ms) \/ ms[b + 1].role # "tool"
    PROVE  Paired(SubSeq(ms, b + 1, Len(ms)))
<1> DEFINE zs == SubSeq(ms, b + 1, Len(ms))
<1>1. /\ zs \in Seq(Messages) /\ Len(zs) = Len(ms) - b
      /\ \A i \in 1 .. Len(ms) - b : zs[i] = ms[b + i]
  BY SuffixFacts
<1>2. \A i \in 1 .. Len(ms) : AnsweredBy(ms, i) /\ CalledFor(ms, i)
  BY PairedMeans
<1>3. b = Len(ms) \/ ms[b + 1].role # "tool"
  OBVIOUS
<1> HIDE DEF zs
<1>4. ASSUME NEW j \in 0 .. Len(zs), NEW k \in j .. Len(zs), Follows(ms, b + j, b + k)
      PROVE  Follows(zs, j, k)
  <2> SUFFICES ASSUME NEW l \in j + 1 .. k PROVE zs[l].role = "tool"
    BY DEF Follows
  <2>1. b + l \in (b + j) + 1 .. b + k /\ l \in 1 .. Len(ms) - b
    BY <1>1
  <2>. QED
    BY <2>1, <1>1, <1>4 DEF Follows
<1>5. ASSUME NEW i \in 1 .. Len(zs) PROVE AnsweredBy(zs, i) /\ CalledFor(zs, i)
  <2>1. zs[i] = ms[b + i] /\ b + i \in 1 .. Len(ms) /\ i \in 0 .. Len(zs)
    BY <1>1
  <2>2. AnsweredBy(zs, i)
    <3> SUFFICES ASSUME zs[i].role = "assistant", NEW c \in zs[i].calls
                 PROVE  \E k \in i + 1 .. Len(zs) : Follows(zs, i, k) /\ c \in zs[k].calls
      BY DEF AnsweredBy
    <3>1. PICK k \in (b + i) + 1 .. Len(ms) : Follows(ms, b + i, k) /\ c \in ms[k].calls
      BY <1>2, <2>1 DEF AnsweredBy
    <3>2. k - b \in i + 1 .. Len(zs) /\ k = b + (k - b) /\ k - b \in i .. Len(zs)
      BY <1>1
    <3>3. zs[k - b] = ms[k]
      BY <3>2, <1>1
    <3>4. Follows(zs, i, k - b)
      BY <3>1, <3>2, <2>1, <1>4
    <3>. QED
      BY <3>1, <3>2, <3>3, <3>4
  <2>3. CalledFor(zs, i)
    <3> SUFFICES ASSUME zs[i].role = "tool"
                 PROVE  \E j \in 1 .. i - 1 : /\ zs[i].calls \subseteq zs[j].calls
                                              /\ zs[j].role = "assistant"
                                              /\ Follows(zs, j, i)
      BY DEF CalledFor
    <3>1. PICK j \in 1 .. (b + i) - 1 : /\ ms[b + i].calls \subseteq ms[j].calls
                                        /\ ms[j].role = "assistant"
                                        /\ Follows(ms, j, b + i)
      BY <1>2, <2>1 DEF CalledFor
    <3>2. ASSUME j < b + 1 PROVE FALSE
      <4>1. b + 1 \in j + 1 .. b + i /\ b # Len(ms)
        BY <3>2, <1>1
      <4>. QED
        BY <4>1, <3>1, <1>3 DEF Follows
    <3>3. j - b \in 1 .. i - 1 /\ j = b + (j - b) /\ j - b \in 0 .. Len(zs) /\ i \in j - b .. Len(zs)
      BY <3>2, <1>1
    <3>4. zs[j - b] = ms[j]
      BY <3>3, <1>1
    <3>5. Follows(zs, j - b, i)
      BY <3>1, <3>3, <1>4
    <3>. QED
      BY <3>1, <3>3, <3>4, <3>5, <2>1
  <2>. QED
    BY <2>2, <2>3
<1>. QED
  BY <1>1, <1>5, PairedMeans DEF zs

LEMMA GoodSuffix ==
    ASSUME NEW ms, Good(ms), NEW s \in 1 .. Len(ms) + 1,
           s = Len(ms) + 1 \/ ms[s].role # "tool"
    PROVE  /\ Good(SubSeq(ms, s, Len(ms)))
           /\ Origins(SubSeq(ms, s, Len(ms))) \subseteq Origins(ms)
<1> DEFINE b == s - 1
<1>1. ms \in Seq(Messages) /\ b \in 0 .. Len(ms) /\ s = b + 1
      /\ (b = Len(ms) \/ ms[b + 1].role # "tool")
  BY DEF Good
<1> HIDE DEF b
<1>2. SubSeq(ms, b + 1, Len(ms)) \in Seq(Messages)
  BY <1>1, SuffixFacts
<1>3. Quirks = {} => Paired(SubSeq(ms, b + 1, Len(ms)))
  BY <1>1, PairedSuffix DEF Good
<1>. QED
  BY <1>1, <1>2, <1>3, OriginsSuffix DEF Good

\* find_safe_history_start drops nothing of a list that begins with a message of its own.
LEMMA SafeStartIsOne ==
    ASSUME NEW ms \in Seq(Messages), Headed(ms)
    PROVE  SubSeq(ms, SafeStart(ms), Len(ms)) = ms
<1>0. Len(ms) \in Nat /\ (Len(ms) = 0 <=> ms = <<>>)
  OBVIOUS
<1>1. Len(ms) # 0 => ms[1].role # "tool" /\ Answered(ms, 1)
  BY <1>0 DEF Headed, Answered
<1> DEFINE Safe(i) == /\ i = Len(ms) + 1 \/ (ms[i].role # "tool" /\ Answered(ms, i))
                      /\ \A k \in 1 .. i - 1 : ms[k].role = "tool" \/ ~Answered(ms, k)
<1>3. Safe(1)
  BY <1>0, <1>1
<1>4. \A i \in 1 .. Len(ms) + 1 : Safe(i) => i = 1
  <2> SUFFICES ASSUME NEW i \in 1 .. Len(ms) + 1, Safe(i), i # 1 PROVE FALSE
    OBVIOUS
  <2>1. 1 \in 1 .. i - 1 /\ 1 \in 1 .. Len(ms)
    BY <1>0
  <2>. QED
    BY <2>1, <1>0, <1>1
<1>5. 1 \in 1 .. Len(ms) + 1
  BY <1>0
<1> HIDE DEF Safe
<1>6. SafeStart(ms) = CHOOSE i \in 1 .. Len(ms) + 1 : Safe(i)
  BY DEF SafeStart, Safe
<1>7. SafeStart(ms) = 1
  BY <1>3, <1>4, <1>5, <1>6
<1>. QED
  BY <1>0, <1>7, SubSeqFull

\* The recent messages that a compaction keeps are a good list again.
LEMMA GoodRecent ==
    ASSUME NEW ms, Good(ms)
    PROVE  /\ Good(select_recent_messages(ms))
           /\ Origins(select_recent_messages(ms)) \subseteq Origins(ms)
<1>0. ms \in Seq(Messages) /\ Len(ms) \in Nat /\ KeepRecent \in Nat
  BY TurnAssumption DEF Good
<1> DEFINE n == Len(ms)
           counted == IF n > KeepRecent THEN n - KeepRecent + 1 ELSE 1
           group == CHOOSE i \in 1 .. counted :
                       /\ i = 1 \/ ms[i].role # "tool"
                       /\ \A k \in i + 1 .. counted : ms[k].role = "tool"
           whole == IF Answered(ms, group) THEN group ELSE SkipTools(ms, group + 1)
<1>1. select_recent_messages(ms) =
          IF KeepRecent = 0 \/ n = 0 THEN <<>> ELSE SubSeq(ms, SkipTools(ms, whole), n)
  BY DEF select_recent_messages
<1>2. CASE KeepRecent = 0 \/ n = 0
  BY <1>1, <1>2, GoodEmpty
<1>3. CASE KeepRecent # 0 /\ n # 0
  <2>1. counted \in 1 .. n
    BY <1>0, <1>3
  <2> HIDE DEF counted
  <2>2. \E i \in 1 .. counted :
            /\ i = 1 \/ ms[i].role # "tool"
            /\ \A k \in i + 1 .. counted : ms[k].role = "tool"
    <3> DEFINE S == {d \in 0 .. counted - 1 : counted - d = 1 \/ ms[counted - d].role # "tool"}
    <3>1. counted - 1 \in S /\ S \in SUBSET Nat
      BY <2>1, <1>0
    <3>2. PICK x \in S : \A y \in S : x =< y
      BY <3>1, SmallestNumber
    <3>3. counted - x \in 1 .. counted /\ (counted - x = 1 \/ ms[counted - x].role # "tool")
      BY <3>2, <2>1, <1>0
    <3>4. ASSUME NEW k \in (counted - x) + 1 .. counted, ms[k].role # "tool" PROVE FALSE
      <4>1. counted - k \in 0 .. counted - 1 /\ counted - (counted - k) = k /\ counted - k < x
        BY <3>2, <2>1, <1>0
      <4>2. counted - k \in S
        BY <4>1, <3>4
      <4>. QED
        BY <4>1, <4>2, <3>2
    <3>5. \A k \in (counted - x) + 1 .. counted : ms[k].role = "tool"
      BY <3>4
    <3>. QED
      BY <3>3, <3>5
  <2>3. group \in 1 .. counted
    BY <2>2
  <2> HIDE DEF group
  <2>4. group \in 1 .. n /\ group + 1 \in 1 .. n + 1 /\ group \in 1 .. n + 1
    BY <2>1, <2>3, <1>0
  <2>5. SkipTools(ms, group + 1) \in 1 .. n + 1
    <3>1. SkipTools(ms, group + 1) \in group + 1 .. n + 1
      BY <2>4, <1>0, SkipFacts
    <3>. QED
      BY <3>1, <2>4, <1>0
  <2>6. whole \in 1 .. n + 1
    BY <2>4, <2>5
  <2> HIDE DEF whole
  <2>7. /\ SkipTools(ms, whole) \in whole .. n + 1
        /\ SkipTools(ms, whole) = n + 1 \/ ms[SkipTools(ms, whole)].role # "tool"
    BY <2>6, <1>0, SkipFacts
  <2>8. SkipTools(ms, whole) \in 1 .. Len(ms) + 1
    BY <2>6, <2>7, <1>0
  <2>9. select_recent_messages(ms) = SubSeq(ms, SkipTools(ms, whole), Len(ms))
    BY <1>1, <1>3
  <2> HIDE DEF n
  <2>. QED
    BY <2>7, <2>8, <2>9, GoodSuffix DEF n
<1>. QED
  BY <1>2, <1>3

\* What a compaction leaves is good and stands for all it was made from.
LEMMA GoodCompacted ==
    ASSUME NEW ms, Good(ms)
    PROVE  Good(Compacted(ms)) /\ Origins(Compacted(ms)) = Origins(ms)
<1> DEFINE head == Message("system", Origins(ms), {})
<1>1. ms \in Seq(Messages) /\ Origins(ms) \subseteq Turns \cup Steers \cup Agents
  BY OriginsOf DEF Good
<1>2. head \in Messages /\ head.role # "tool" /\ head.calls = {} /\ head.of = Origins(ms)
  BY <1>1 DEF Message, Messages
<1>3. Hint \in Messages /\ Hint.role # "tool" /\ Hint.calls = {} /\ Hint.of = {}
  BY DEF Hint, Message, Messages
<1> HIDE DEF head
<1>4. Good(<<head>>) /\ Origins(<<head>>) = Origins(ms)
  BY <1>2, GoodOne
<1>5. Good(Append(<<head>>, Hint)) /\ Origins(Append(<<head>>, Hint)) = Origins(ms)
  BY <1>3, <1>4, GoodAppend
<1>6. <<head, Hint>> = Append(<<head>>, Hint)
  OBVIOUS
<1>7. Compacted(ms) = <<head, Hint>> \o select_recent_messages(ms)
  BY DEF Compacted, head
<1> DEFINE two == <<head, Hint>>
           recent == select_recent_messages(ms)
<1>8. Good(two) /\ Origins(two) = Origins(ms)
  BY <1>5, <1>6
<1>9. Good(recent) /\ Origins(recent) \subseteq Origins(ms)
  BY GoodRecent
<1>10. Compacted(ms) = two \o recent
  BY <1>7
<1> HIDE DEF two, recent
<1>11. Good(two \o recent) /\ Origins(two \o recent) = Origins(two) \cup Origins(recent)
  BY <1>8, <1>9, GoodConcat
<1>. QED
  BY <1>8, <1>9, <1>10, <1>11

\* The steering messages that a turn has drained.
LEMMA GoodUsers ==
    ASSUME NEW xs \in Seq(Steers)
    PROVE  LET new == [i \in DOMAIN xs |-> User(xs[i])]
           IN  Good(new) /\ Origins(new) = Range(xs)
<1> DEFINE new == [i \in DOMAIN xs |-> User(xs[i])]
<1>1. DOMAIN xs = 1 .. Len(xs) /\ Len(xs) \in Nat /\ \A i \in 1 .. Len(xs) : xs[i] \in Steers
  OBVIOUS
<1>2. \A x \in Steers : /\ User(x) \in Messages /\ User(x).role = "user"
                        /\ User(x).calls = {} /\ User(x).of = {x}
  BY DEF User, Message, Messages
<1>3. \A i \in 1 .. Len(xs) : new[i] = User(xs[i]) /\ new[i] \in Messages
  BY <1>1, <1>2
<1>4. new \in [1 .. Len(xs) -> Messages]
  BY <1>1, <1>3
<1>5. new \in Seq(Messages) /\ Len(new) = Len(xs)
  BY <1>1, <1>4
<1>6. \A i \in 1 .. Len(new) : new[i].role # "tool" /\ new[i].calls = {}
  BY <1>1, <1>2, <1>3, <1>5
<1>7. Good(new)
  BY <1>5, <1>6, GoodPlain
<1>8. \A i \in 1 .. Len(xs) : new[i].of = {xs[i]}
  BY <1>1, <1>2, <1>3
<1>9. DOMAIN new = 1 .. Len(xs)
  BY <1>1
<1> HIDE DEF new
<1>10. Origins(new) = UNION {new[i].of : i \in 1 .. Len(xs)}
  BY <1>9 DEF Origins
<1>11. Range(xs) = {xs[i] : i \in 1 .. Len(xs)}
  BY <1>1 DEF Range
<1>12. Origins(new) = Range(xs)
  BY <1>8, <1>10, <1>11
<1>. QED
  BY <1>7, <1>12 DEF new

\* InOrder lists the calls of an answer, each of them once.
LEMMA InOrderFacts ==
    ASSUME NEW cs \in SUBSET Tools
    PROVE  /\ InOrder(cs) \in [1 .. Cardinality(cs) -> cs]
           /\ Cardinality(cs) \in Nat
           /\ \A c \in cs : \E i \in 1 .. Cardinality(cs) : InOrder(cs)[i] = c
<1> DEFINE below(c) == {d \in cs : d < c}
           n == Cardinality(cs)
<1>0. IsFiniteSet(cs) /\ n \in Nat /\ cs \subseteq Nat
  BY TurnAssumption, FS_Subset, FS_CardinalityType
<1>1. \A c \in cs : IsFiniteSet(below(c)) /\ Cardinality(below(c)) \in Nat
  BY <1>0, FS_Subset, FS_CardinalityType
<1>2. ASSUME NEW c \in cs PROVE Cardinality(below(c)) < n
  <2>1. below(c) \in SUBSET cs /\ below(c) # cs
    BY <1>0
  <2>2. Cardinality(below(c)) =< n /\ (n = Cardinality(below(c)) => cs = below(c))
    BY <2>1, <1>0, FS_Subset
  <2>. QED
    BY <2>1, <2>2, <1>0, <1>1
<1>3. ASSUME NEW c \in cs, NEW d \in cs, d < c
      PROVE  Cardinality(below(d)) < Cardinality(below(c))
  <2>a. d \in below(c) /\ d \notin below(d)
    BY <1>0, <1>3
  <2>b. \A e \in cs : e < d => e < c
    BY <1>0, <1>3
  <2>c. below(d) \in SUBSET below(c)
    BY <2>b
  <2>1. below(d) \in SUBSET below(c) /\ below(d) # below(c)
    BY <2>a, <2>c
  <2>2. /\ Cardinality(below(d)) =< Cardinality(below(c))
        /\ Cardinality(below(c)) = Cardinality(below(d)) => below(c) = below(d)
    BY <2>1, <1>1, FS_Subset
  <2>. QED
    BY <2>1, <2>2, <1>1
<1> DEFINE rank == [c \in cs |-> Cardinality(below(c)) + 1]
<1>4. rank \in [cs -> 1 .. n]
  BY <1>0, <1>1, <1>2
<1>r. \A c \in cs : rank[c] = Cardinality(below(c)) + 1 /\ rank[c] - 1 = Cardinality(below(c))
  BY <1>1
<1> HIDE DEF rank
<1>5. \A c, d \in cs : rank[c] = rank[d] => c = d
  <2> SUFFICES ASSUME NEW c \in cs, NEW d \in cs, c # d PROVE rank[c] # rank[d]
    OBVIOUS
  <2>1. c < d \/ d < c
    BY <1>0
  <2>2. Cardinality(below(c)) # Cardinality(below(d))
    <3>1. CASE c < d
      BY <3>1, <1>1, <1>3
    <3>2. CASE d < c
      BY <3>2, <1>1, <1>3
    <3>. QED
      BY <2>1, <3>1, <3>2
  <2> HIDE DEF below
  <2>. QED
    BY <2>2, <1>r, <1>1
<1>6. rank \in Injection(cs, 1 .. n)
  BY <1>4, <1>5 DEF Injection, IsInjective
<1>7. IsFiniteSet(1 .. n) /\ Cardinality(1 .. n) = n
  BY <1>0, FS_Interval
<1>8. rank \in Surjection(cs, 1 .. n)
  BY <1>6, <1>7, FS_Injection
<1>9. \A i \in 1 .. n : \E c \in cs : Cardinality(below(c)) = i - 1
  <2> SUFFICES ASSUME NEW i \in 1 .. n PROVE \E c \in cs : Cardinality(below(c)) = i - 1
    OBVIOUS
  <2>1. PICK c \in cs : rank[c] = i
    BY <1>8 DEF Surjection
  <2>. QED
    BY <2>1, <1>r
<1>10. /\ InOrder(cs) = [i \in 1 .. n |-> CHOOSE c \in cs : Cardinality(below(c)) = i - 1]
       /\ DOMAIN InOrder(cs) = 1 .. n
  BY DEF InOrder
<1>11. ASSUME NEW i \in 1 .. n
       PROVE  InOrder(cs)[i] \in cs /\ Cardinality(below(InOrder(cs)[i])) = i - 1
  <2>1. InOrder(cs)[i] = CHOOSE c \in cs : Cardinality(below(c)) = i - 1
    BY <1>10
  <2>. QED
    BY <2>1, <1>9
<1>12. ASSUME NEW c \in cs PROVE \E i \in 1 .. n : InOrder(cs)[i] = c
  <2>1. rank[c] \in 1 .. n /\ rank[c] - 1 = Cardinality(below(c))
    BY <1>r, <1>4
  <2>2. InOrder(cs)[rank[c]] \in cs
        /\ Cardinality(below(InOrder(cs)[rank[c]])) = Cardinality(below(c))
    BY <2>1, <1>11
  <2>3. InOrder(cs)[rank[c]] = c
    BY <2>2, <1>5, <1>r
  <2>. QED
    BY <2>1, <2>3
<1>13. InOrder(cs) \in [1 .. n -> cs]
  BY <1>10, <1>11
<1>. QED
  BY <1>0, <1>12, <1>13

\* An answer's calls and the results of all of them.
LEMMA GoodRound ==
    ASSUME NEW t \in Turns, NEW cs \in SUBSET Tools, NEW order \in Seq(cs),
           \A c \in cs : \E i \in 1 .. Len(order) : order[i] = c
    PROVE  LET round == <<ToolCalls(t, cs)>> \o [i \in DOMAIN order |-> ToolResult(t, order[i])]
           IN  Good(round) /\ Origins(round) \subseteq {t}
<1> DEFINE call == ToolCalls(t, cs)
           results == [i \in DOMAIN order |-> ToolResult(t, order[i])]
           round == <<call>> \o results
           n == Len(order)
<1>1. n \in Nat /\ DOMAIN order = 1 .. n /\ \A i \in 1 .. n : order[i] \in cs
  OBVIOUS
<1>2. /\ call \in Messages /\ call.role = "assistant" /\ call.calls = cs /\ call.of = {t}
      /\ \A c \in cs : /\ ToolResult(t, c) \in Messages /\ ToolResult(t, c).role = "tool"
                       /\ ToolResult(t, c).calls = {c} /\ ToolResult(t, c).of = {t}
  BY DEF ToolCalls, ToolResult, Message, Messages
<1>3. \A i \in 1 .. n : results[i] = ToolResult(t, order[i]) /\ results[i] \in Messages
  BY <1>1, <1>2
<1>4. results \in [1 .. n -> Messages]
  BY <1>1, <1>3
<1>5. results \in Seq(Messages) /\ Len(results) = n
  BY <1>1, <1>4
<1>6. <<call>> \in Seq(Messages) /\ Len(<<call>>) = 1 /\ <<call>>[1] = call
  BY <1>2
<1> HIDE DEF results, call
<1>7. /\ round \in Seq(Messages) /\ Len(round) = 1 + n
      /\ round[1] = call
      /\ \A i \in 1 .. n : round[1 + i] = ToolResult(t, order[i])
  <2>1. /\ <<call>> \o results \in Seq(Messages)
        /\ Len(<<call>> \o results) = Len(<<call>>) + Len(results)
        /\ \A i \in 1 .. Len(<<call>>) + Len(results) : (<<call>> \o results)[i] =
              IF i <= Len(<<call>>) THEN <<call>>[i] ELSE results[i - Len(<<call>>)]
    BY <1>5, <1>6, ConcatProperties
  <2>2. 1 \in 1 .. 1 + n /\ \A i \in 1 .. n : 1 + i \in 1 .. 1 + n /\ ~(1 + i =< 1) /\ (1 + i) - 1 = i
    BY <1>1
  <2>. QED
    BY <2>1, <2>2, <1>1, <1>3, <1>5, <1>6
<1> HIDE DEF round
<1>8. \A k \in 1 .. 1 + n : Follows(round, 1, k)
  <2> SUFFICES ASSUME NEW k \in 1 .. 1 + n, NEW l \in 1 + 1 .. k PROVE round[l].role = "tool"
    BY DEF Follows
  <2>1. l - 1 \in 1 .. n /\ l = 1 + (l - 1)
    BY <1>1
  <2>2. round[l] = ToolResult(t, order[l - 1]) /\ order[l - 1] \in cs
    BY <2>1, <1>1, <1>7
  <2>. QED
    BY <2>2, <1>2
<1>9. AnsweredBy(round, 1) /\ CalledFor(round, 1)
  <2>1. ASSUME NEW c \in cs
        PROVE  \E k \in 1 + 1 .. Len(round) : Follows(round, 1, k) /\ c \in round[k].calls
    <3>1. PICK i \in 1 .. n : order[i] = c
      OBVIOUS
    <3>2. 1 + i \in 1 + 1 .. Len(round) /\ 1 + i \in 1 .. 1 + n
      BY <1>1, <1>7
    <3>. QED
      BY <3>1, <3>2, <1>2, <1>7, <1>8
  <2>. QED
    BY <2>1, <1>2, <1>7 DEF AnsweredBy, CalledFor
<1>10. ASSUME NEW i \in 1 .. n PROVE AnsweredBy(round, 1 + i) /\ CalledFor(round, 1 + i)
  <2>1. round[1 + i].role = "tool" /\ round[1 + i].calls \subseteq round[1].calls
    BY <1>1, <1>2, <1>7
  <2>2. 1 \in 1 .. (1 + i) - 1 /\ 1 + i \in 1 .. 1 + n
    BY <1>1
  <2>. QED
    BY <2>1, <2>2, <1>2, <1>7, <1>8 DEF AnsweredBy, CalledFor
<1>11. \A k \in 1 .. Len(round) : AnsweredBy(round, k) /\ CalledFor(round, k)
  <2> SUFFICES ASSUME NEW k \in 1 .. Len(round) PROVE AnsweredBy(round, k) /\ CalledFor(round, k)
    OBVIOUS
  <2>1. k = 1 \/ (k - 1 \in 1 .. n /\ k = 1 + (k - 1))
    BY <1>1, <1>7
  <2>. QED
    BY <2>1, <1>9, <1>10
<1>12. Good(round)
  BY <1>7, <1>11, PairedMeans DEF Good
<1>13. \A x \in Origins(round) : x = t
  <2> SUFFICES ASSUME NEW x \in Origins(round) PROVE x = t
    OBVIOUS
  <2>1. PICK k \in 1 .. Len(round) : x \in round[k].of
    BY <1>7, OriginsOf
  <2>2. k = 1 \/ (k - 1 \in 1 .. n /\ k = 1 + (k - 1))
    BY <1>1, <1>7
  <2>3. CASE k = 1
    BY <2>1, <2>3, <1>2, <1>7
  <2>4. CASE k - 1 \in 1 .. n /\ k = 1 + (k - 1)
    <3>1. round[k] = ToolResult(t, order[k - 1]) /\ order[k - 1] \in cs
      BY <2>4, <1>1, <1>7
    <3>. QED
      BY <2>1, <3>1, <1>2
  <2>. QED
    BY <2>2, <2>3, <2>4
<1>. QED
  BY <1>12, <1>13 DEF round, results, call

-----------------------------------------------------------------------------
(* Lists that may become the file *)

Kept(ms) == Good(ms) /\ Headed(ms)

LEMMA KeptEmpty == Kept(<<>>)
  BY GoodEmpty DEF Kept, Headed

LEMMA KeptConcat ==
    ASSUME NEW ms, NEW ns, Kept(ms), ms # <<>>, Good(ns)
    PROVE  /\ Kept(ms \o ns) /\ ms \o ns # <<>>
           /\ Origins(ms \o ns) = Origins(ms) \cup Origins(ns)
<1>1. Good(ms \o ns) /\ Origins(ms \o ns) = Origins(ms) \cup Origins(ns)
  BY GoodConcat DEF Kept
<1>2. ms \in Seq(Messages) /\ ns \in Seq(Messages) /\ Len(ms) \in Nat \ {0} /\ Len(ns) \in Nat
  BY DEF Kept, Good
<1>3. /\ Len(ms \o ns) = Len(ms) + Len(ns)
      /\ \A i \in 1 .. Len(ms) + Len(ns) : (ms \o ns)[i] =
            IF i <= Len(ms) THEN ms[i] ELSE ns[i - Len(ms)]
  BY <1>2, ConcatProperties
<1>4. 1 \in 1 .. Len(ms) + Len(ns) /\ 1 <= Len(ms) /\ Len(ms) + Len(ns) # 0
  BY <1>2
<1>5. (ms \o ns)[1] = ms[1] /\ ms \o ns # <<>>
  BY <1>2, <1>3, <1>4, EmptySeq
<1>6. Headed(ms \o ns)
  BY <1>5 DEF Kept, Headed
<1>. QED
  BY <1>1, <1>5, <1>6 DEF Kept

LEMMA KeptAppend ==
    ASSUME NEW ms, Kept(ms), NEW m \in Messages, m.role # "tool", m.calls = {}
    PROVE  /\ Kept(Append(ms, m)) /\ Append(ms, m) # <<>>
           /\ Origins(Append(ms, m)) = Origins(ms) \cup m.of
<1>1. ms \in Seq(Messages) /\ Good(ms)
  BY DEF Kept, Good
<1>2. Good(Append(ms, m)) /\ Origins(Append(ms, m)) = Origins(ms) \cup m.of
  BY <1>1, GoodAppend
<1>3. /\ Append(ms, m) # <<>>
      /\ \A i \in 1 .. Len(ms) : Append(ms, m)[i] = ms[i]
      /\ Append(ms, m)[Len(ms) + 1] = m
  BY <1>1, AppendProperties
<1>4. CASE ms = <<>>
  <2>1. Len(ms) + 1 = 1
    BY <1>4
  <2>. QED
    BY <1>2, <1>3, <2>1 DEF Kept, Headed
<1>5. CASE ms # <<>>
  <2>1. 1 \in 1 .. Len(ms)
    BY <1>1, <1>5
  <2>2. Append(ms, m)[1] = ms[1]
    BY <1>3, <2>1
  <2>. QED
    BY <1>2, <1>3, <1>5, <2>2 DEF Kept, Headed
<1>. QED
  BY <1>4, <1>5

LEMMA KeptCompacted ==
    ASSUME NEW ms, Good(ms)
    PROVE  /\ Kept(Compacted(ms)) /\ Compacted(ms) # <<>>
           /\ Origins(Compacted(ms)) = Origins(ms)
<1> DEFINE head == Message("system", Origins(ms), {})
           recent == select_recent_messages(ms)
<1>1. Good(Compacted(ms)) /\ Origins(Compacted(ms)) = Origins(ms)
  BY GoodCompacted
<1>2. head \in Messages /\ head.role # "tool" /\ head.calls = {}
  BY OriginsOf DEF Message, Messages, Good
<1>3. Hint \in Messages
  BY DEF Hint, Message, Messages
<1>4. Compacted(ms) = <<head, Hint>> \o recent
  BY DEF Compacted
<1> HIDE DEF head
<1>5. recent \in Seq(Messages)
  BY GoodRecent DEF Good
<1> HIDE DEF recent
<1>6. <<head, Hint>> \in Seq(Messages) /\ Len(<<head, Hint>>) = 2 /\ <<head, Hint>>[1] = head
  BY <1>2, <1>3
<1> DEFINE two == <<head, Hint>>
<1> HIDE DEF two
<1>7. /\ two \in Seq(Messages) /\ Len(two) = 2 /\ two[1] = head
      /\ Compacted(ms) = two \o recent
  BY <1>4, <1>6 DEF two
<1>8. /\ Len(two \o recent) = Len(two) + Len(recent)
      /\ \A i \in 1 .. Len(two) + Len(recent) :
            (two \o recent)[i] = IF i <= Len(two) THEN two[i] ELSE recent[i - Len(two)]
  BY <1>5, <1>7, ConcatProperties
<1>9. Len(recent) \in Nat
  BY <1>5
<1>10. Compacted(ms)[1] = head /\ Compacted(ms) # <<>>
  BY <1>7, <1>8, <1>9, EmptySeq
<1>. QED
  BY <1>1, <1>2, <1>10 DEF Kept, Headed

-----------------------------------------------------------------------------
(* The parts of the invariant, and what one turn's step does to them *)

Fits(r) ==
    /\ r \in TurnRecord /\ Kept(r.hist) /\ Good(r.cur)
    /\ r.pc \in {"start", "loop", "wait", "await", "save"} => r.hist # <<>>

StoredOK == stored \in [Chats -> Seq(Messages)] /\ \A c \in Chats : Kept(stored[c])
CkptOK == /\ ckpt \in [Turns -> [msgs : Seq(Messages), completed : BOOLEAN]]
          /\ \A t \in Turns : Kept(ckpt[t].msgs)
TurnOK == turn \in [Turns -> TurnRecord] /\ \A t \in Turns : Fits(turn[t])
InboxOK == inbox \in [Turns -> Seq(Steers)]
AgentOK == /\ agent \in [Agents -> [status : {"none", "running", "completed", "failed"},
                            home : Chats \cup {"none"}, injected : BOOLEAN, delivered : BOOLEAN]]
           /\ \A a \in Agents : agent[a].status # "none" => agent[a].home \in Chats
SettledOK == settled \in [Chats -> SUBSET (Turns \cup Steers \cup Agents)]
RestOK == sent \subseteq Steers /\ shown \subseteq Agents /\ acts \in 0 .. MaxFiles

LEMMA Parts ==
    SessionInv <=> /\ StoredOK /\ CkptOK /\ TurnOK /\ InboxOK /\ AgentOK /\ SettledOK /\ RestOK
                   /\ HomeOf = SessionOf => NothingForgotten
<1>1. ASSUME TurnTypeOK
      PROVE  /\ \A c \in Chats : stored[c] \in Seq(Messages)
             /\ \A t \in Turns : /\ ckpt[t].msgs \in Seq(Messages)
                                 /\ turn[t] \in TurnRecord
                                 /\ turn[t].hist \in Seq(Messages)
                                 /\ turn[t].cur \in Seq(Messages)
  BY <1>1 DEF TurnTypeOK, TurnRecord
<1>2. ASSUME TurnTypeOK
      PROVE  ListsHeaded /\ (Quirks = {} => ListsPaired)
             <=> /\ \A c \in Chats : Kept(stored[c])
                 /\ \A t \in Turns : Kept(ckpt[t].msgs) /\ Fits(turn[t])
  BY <1>1, <1>2, Zenon DEF ListsHeaded, ListsPaired, StoredPaired, PromptPaired, Kept, Good, Fits
<1>3. SessionInv => TurnTypeOK
  BY DEF SessionInv
<1>4. StoredOK /\ CkptOK /\ TurnOK /\ InboxOK /\ AgentOK /\ SettledOK /\ RestOK => TurnTypeOK
  BY DEF TurnTypeOK, StoredOK, CkptOK, TurnOK, InboxOK, AgentOK, SettledOK, RestOK
<1>5. ASSUME TurnTypeOK
      PROVE  /\ InboxOK /\ AgentOK /\ SettledOK /\ RestOK
             /\ StoredOK <=> \A c \in Chats : Kept(stored[c])
             /\ CkptOK <=> \A t \in Turns : Kept(ckpt[t].msgs)
             /\ TurnOK <=> \A t \in Turns : Fits(turn[t])
  BY <1>5 DEF TurnTypeOK, StoredOK, CkptOK, TurnOK, InboxOK, AgentOK, SettledOK, RestOK
<1>6. CASE TurnTypeOK
  <2>1. SessionInv <=> /\ ListsHeaded /\ (Quirks = {} => ListsPaired)
                       /\ HomeOf = SessionOf => NothingForgotten
    BY <1>6 DEF SessionInv
  <2>. QED
    BY <1>2, <1>5, <1>6, <2>1
<1>7. CASE ~TurnTypeOK
  BY <1>3, <1>4, <1>7
<1>. QED
  BY <1>6, <1>7

\* The invariant again from its parts after a step.
LEMMA PartsNext ==
    ASSUME StoredOK', CkptOK', TurnOK', InboxOK', AgentOK', SettledOK', RestOK',
           HomeOf = SessionOf => NothingForgotten'
    PROVE  SessionInv'
<1>1. (SessionInv <=> /\ StoredOK /\ CkptOK /\ TurnOK /\ InboxOK /\ AgentOK /\ SettledOK /\ RestOK
                      /\ HomeOf = SessionOf => NothingForgotten)'
  BY Parts, PTL
<1>. QED
  BY <1>1

\* What is known of a turn's own memory.
LEMMA TurnFacts ==
    ASSUME SessionInv, NEW t \in Turns
    PROVE  /\ Fits(turn[t]) /\ turn[t] \in TurnRecord
           /\ Kept(turn[t].hist) /\ Good(turn[t].hist) /\ Good(turn[t].cur)
           /\ turn[t].heard \subseteq Steers
           /\ SessionOf[t] \in Chats /\ HomeOf[t] \in Chats
           /\ Kept(ckpt[t].msgs) /\ inbox[t] \in Seq(Steers)
           /\ settled[SessionOf[t]] \subseteq Turns \cup Steers \cup Agents
<1>1. StoredOK /\ CkptOK /\ TurnOK /\ InboxOK /\ SettledOK
  BY Parts
<1>2. Fits(turn[t]) /\ turn[t] \in TurnRecord /\ Kept(ckpt[t].msgs)
  BY <1>1 DEF TurnOK, CkptOK
<1>3. SessionOf[t] \in Chats /\ HomeOf[t] \in Chats
  BY TurnAssumption
<1>4. turn[t].heard \subseteq Steers
  BY <1>2 DEF TurnRecord
<1>5. inbox[t] \in Seq(Steers) /\ settled[SessionOf[t]] \subseteq Turns \cup Steers \cup Agents
  BY <1>1, <1>3 DEF InboxOK, SettledOK
<1>. QED
  BY <1>2, <1>3, <1>4, <1>5 DEF Fits, Kept

LEMMA StoredUpdate ==
    ASSUME StoredOK, NEW c \in Chats, NEW ms, Kept(ms), stored' = [stored EXCEPT ![c] = ms]
    PROVE  StoredOK'
<1>1. ms \in Seq(Messages)
  BY DEF Kept, Good
<1>. QED
  BY <1>1 DEF StoredOK

LEMMA TurnUpdate ==
    ASSUME TurnOK, NEW t \in Turns, NEW new, Fits(new), works(t, new)
    PROVE  TurnOK' /\ turn'[t] = new /\ \A u \in Turns \ {t} : turn'[u] = turn[u]
<1>1. new \in TurnRecord
  BY DEF Fits
<1>. QED
  BY <1>1 DEF TurnOK, works

LEMMA CkptUpdate ==
    ASSUME CkptOK, NEW t \in Turns, NEW ms, Kept(ms), NEW b \in BOOLEAN,
           ckpt' = [ckpt EXCEPT ![t] = [msgs |-> ms, completed |-> b]]
    PROVE  CkptOK'
<1>1. ms \in Seq(Messages)
  BY DEF Kept, Good
<1>. QED
  BY <1>1 DEF CkptOK

\* A step of a turn that is running and settles nothing.
LEMMA WorksKeeps ==
    ASSUME SessionInv, NEW t \in Turns, Running(t),
           NEW new, Fits(new), works(t, new),
           \/ stored' = stored
           \/ \E ms : /\ Kept(ms) /\ stored' = [stored EXCEPT ![SessionOf[t]] = ms]
                      /\ HomeOf = SessionOf => settled[SessionOf[t]] \ Agents \subseteq Origins(ms),
           HomeOf = SessionOf => Remembers(t, new),
           settled' = settled, CkptOK', InboxOK', AgentOK', RestOK'
    PROVE  SessionInv'
<1>1. StoredOK /\ CkptOK /\ TurnOK /\ InboxOK /\ AgentOK /\ SettledOK /\ RestOK
  BY Parts
<1>2. SessionOf[t] \in Chats
  BY TurnAssumption
<1>3. StoredOK'
  <2>1. CASE stored' = stored
    BY <2>1, <1>1 DEF StoredOK
  <2>2. CASE stored' # stored
    BY <2>2, <1>1, <1>2, StoredUpdate
  <2>. QED
    BY <2>1, <2>2
<1>4. TurnOK' /\ turn'[t] = new /\ \A u \in Turns \ {t} : turn'[u] = turn[u]
  BY <1>1, TurnUpdate
<1>5. SettledOK'
  BY <1>1 DEF SettledOK
<1>6. ASSUME HomeOf = SessionOf PROVE NothingForgotten'
  <2>1. NothingForgotten
    BY <1>6 DEF SessionInv
  <2>2. ASSUME NEW u \in Turns PROVE Remembers(u, turn[u])'
    BY <2>1, <1>4, <1>6 DEF NothingForgotten, Remembers, Owed
  <2>3. OneRuns'
    BY <2>1, <1>4 DEF NothingForgotten, OneRuns, Running
  <2>4. SettledIsStored'
    <3> SUFFICES ASSUME NEW c \in Chats PROVE settled[c] \ Agents \subseteq Origins(stored'[c])
      BY DEF SettledIsStored
    <3>1. settled[c] \ Agents \subseteq Origins(stored[c])
      BY <2>1 DEF NothingForgotten, SettledIsStored
    <3>2. CASE stored' = stored
      BY <3>1, <3>2
    <3>3. CASE stored' # stored
      <4>1. PICK ms : /\ stored' = [stored EXCEPT ![SessionOf[t]] = ms]
                      /\ settled[SessionOf[t]] \ Agents \subseteq Origins(ms)
        BY <3>3, <1>6
      <4>2. stored'[c] = IF c = SessionOf[t] THEN ms ELSE stored[c]
        BY <4>1, <1>1 DEF StoredOK
      <4>. QED
        BY <3>1, <4>1, <4>2
    <3>. QED
      BY <3>2, <3>3
  <2>. QED
    BY <2>2, <2>3, <2>4 DEF NothingForgotten
<1>. QED
  BY <1>3, <1>4, <1>5, <1>6, PartsNext

\* A turn that is over has empty lists and owes nothing.
LEMMA EndedFacts ==
    /\ Fits(Ended) /\ Fits(Idle) /\ Ended \in TurnRecord /\ Good(Ended.hist) /\ Good(Ended.cur) /\ Ended.pc = "over"
    /\ Idle \in TurnRecord /\ Idle.hist = <<>> /\ Idle.cur = <<>> /\ Idle.pc = "idle"
    /\ \A t : Remembers(t, Ended)
<1>1. <<>> \in Seq(Messages) /\ 0 \in 0 .. MaxIter + 1
  BY TurnAssumption
<1>2. [c \in Tools |-> 0] \in [Tools -> 0 .. MaxIter + 1]
  BY <1>1
<1>3. Idle \in TurnRecord /\ Idle.hist = <<>> /\ Idle.cur = <<>> /\ Idle.pc = "idle"
  BY <1>1, <1>2 DEF Idle, TurnRecord
<1>4. Ended \in TurnRecord /\ Ended.hist = <<>> /\ Ended.cur = <<>> /\ Ended.pc = "over"
  BY <1>1, <1>3 DEF Ended, Idle, TurnRecord
<1>. QED
  BY <1>3, <1>4, GoodEmpty, KeptEmpty DEF Remembers, Fits

\* Draining the steering channel.
LEMMA DrainedFacts ==
    ASSUME SessionInv, NEW t \in Turns, Called(t)
    PROVE  /\ Drained(t) \in TurnRecord /\ Good(Drained(t).cur)
           /\ Kept(Drained(t).hist) /\ Drained(t).hist # <<>>
           /\ Drained(t).pc = "loop" /\ Drained(t).count = turn[t].count
           /\ HomeOf = SessionOf => Remembers(t, Drained(t))
<1> DEFINE new == [i \in DOMAIN inbox[t] |-> User(inbox[t][i])]
           r == turn[t]
           h == r.hist \o new
           c == r.cur \o new
           o == r.heard \cup Range(inbox[t])
<1>1. /\ r \in TurnRecord /\ Kept(r.hist) /\ Good(r.cur) /\ r.heard \subseteq Steers
      /\ inbox[t] \in Seq(Steers) /\ r.hist # <<>> /\ r.pc = "loop"
  BY TurnFacts DEF Called, Fits
<1>2. Good(new) /\ Origins(new) = Range(inbox[t])
  BY <1>1, GoodUsers
<1>3. Range(inbox[t]) \subseteq Steers
  BY <1>1 DEF Range
<1>4. Drained(t) = [r EXCEPT !.cur = c, !.hist = h, !.heard = o]
  BY DEF Drained
<1> HIDE DEF new
<1>5. /\ Kept(h) /\ h # <<>> /\ Origins(h) = Origins(r.hist) \cup Range(inbox[t])
      /\ Good(c) /\ Origins(c) = Origins(r.cur) \cup Range(inbox[t])
  BY <1>1, <1>2, GoodConcat, KeptConcat
<1>6. h \in Seq(Messages) /\ c \in Seq(Messages) /\ o \in SUBSET Steers
  BY <1>1, <1>3, <1>5 DEF Good, Kept
<1>7. HomeOf = SessionOf => Remembers(t, r)
  BY DEF SessionInv, NothingForgotten
<1> HIDE DEF h, c, r
<1>8. /\ Drained(t) \in TurnRecord /\ Drained(t).pc = r.pc /\ Drained(t).count = r.count
      /\ Drained(t).hist = h /\ Drained(t).cur = c /\ Drained(t).heard = o
  BY <1>1, <1>4, <1>6 DEF TurnRecord
<1>9. HomeOf = SessionOf => Remembers(t, Drained(t))
  BY <1>5, <1>7, <1>8 DEF Remembers, Owed
<1>. QED
  BY <1>1, <1>5, <1>8, <1>9 DEF r

LEMMA InboxEmptied ==
    ASSUME InboxOK, NEW t \in Turns, inbox' = [inbox EXCEPT ![t] = <<>>]
    PROVE  InboxOK'
<1>1. <<>> \in Seq(Steers)
  OBVIOUS
<1>. QED
  BY <1>1 DEF InboxOK

\* The session parts a step leaves alone.
LEMMA Untouched ==
    ASSUME SessionInv
    PROVE  /\ UNCHANGED ckpt => CkptOK'
           /\ UNCHANGED agent => AgentOK'
           /\ UNCHANGED inbox => InboxOK'
           /\ UNCHANGED <<sent, acts>> /\ shown' \subseteq Agents => RestOK'
           /\ UNCHANGED <<sent, shown, acts>> => RestOK'
  BY Parts DEF CkptOK, AgentOK, InboxOK, RestOK

\* A compaction in the loop replaces both lists and the file.
LEMMA CompactKeeps ==
    ASSUME SessionInv, NEW t \in Turns, Running(t),
           NEW new \in TurnRecord, Good(new.cur), new.pc \in {"start", "loop"},
           HomeOf = SessionOf => Remembers(t, new),
           CompactInLoop(t, new),
           settled' = settled, CkptOK', InboxOK', AgentOK', RestOK'
    PROVE  SessionInv'
<1> DEFINE ms == Compacted(new.cur)
           next == [new EXCEPT !.cur = ms, !.hist = ms, !.pc = "loop"]
<1>1. Kept(ms) /\ ms # <<>> /\ Good(ms) /\ Origins(ms) = Origins(new.cur)
  BY KeptCompacted DEF Kept
<1>2. works(t, next) /\ stored' = [stored EXCEPT ![SessionOf[t]] = ms]
  BY DEF CompactInLoop
<1> HIDE DEF ms
<1>3. /\ next \in TurnRecord /\ next.hist = ms /\ next.cur = ms /\ next.pc = "loop"
      /\ next.heard = new.heard
  BY <1>1 DEF TurnRecord, Good
<1>4. HomeOf = SessionOf => /\ settled[SessionOf[t]] \ Agents \subseteq Origins(ms)
                            /\ Remembers(t, next)
  BY <1>1, <1>3 DEF Remembers, Owed
<1>5. Fits(next)
  BY <1>1, <1>3 DEF Fits
<1> HIDE DEF next
<1>. QED
  BY <1>1, <1>2, <1>4, <1>5, WorksKeeps

LEMMA PreLoopKeeps ==
    ASSUME SessionInv, NEW t \in Turns, PreLoop(t)
    PROVE  SessionInv'
<1>1. /\ Fits(turn[t]) /\ turn[t] \in TurnRecord /\ Good(turn[t].hist) /\ Good(turn[t].cur)
      /\ turn[t].pc = "start" /\ Running(t)
      /\ settled' = settled
      /\ HomeOf = SessionOf => Remembers(t, turn[t])
  BY TurnFacts DEF PreLoop, Running, SessionInv, NothingForgotten
<1>2. CkptOK' /\ InboxOK' /\ AgentOK' /\ RestOK'
  BY Untouched DEF PreLoop
<1>3. CASE CompactInLoop(t, turn[t])
  BY <1>1, <1>2, <1>3, CompactKeeps
<1>4. CASE works(t, [turn[t] EXCEPT !.pc = "loop"]) /\ UNCHANGED stored
  <2> DEFINE r == turn[t]
             next == [r EXCEPT !.pc = "loop"]
  <2>1. /\ next \in TurnRecord /\ next.hist = r.hist /\ next.cur = r.cur /\ next.pc = "loop"
        /\ next.heard = r.heard
    BY <1>1 DEF TurnRecord
  <2>4. Fits(next)
    BY <1>1, <2>1 DEF Fits
  <2>2. HomeOf = SessionOf => Remembers(t, next)
    BY <1>1, <2>1 DEF Remembers, Owed
  <2>3. works(t, next)
    BY <1>4
  <2> HIDE DEF next
  <2>. QED
    BY <1>1, <1>2, <1>4, <2>2, <2>3, <2>4, WorksKeeps
<1>. QED
  BY <1>3, <1>4 DEF PreLoop

\* An answer goes into the history, and the loop is left.
LEMMA AnswerKeeps ==
    ASSUME SessionInv, NEW t \in Turns, Called(t), NEW failed \in BOOLEAN,
           works(t, [Drained(t) EXCEPT !.hist = Append(@, Assistant(t)), !.failed = failed,
                                       !.pc = "wait"]),
           UNCHANGED <<stored, settled>>, CkptOK', AgentOK', RestOK'
    PROVE  SessionInv'
<1> DEFINE d == Drained(t)
           h == Append(d.hist, Assistant(t))
           next == [d EXCEPT !.hist = h, !.failed = failed, !.pc = "wait"]
<1>1. /\ d \in TurnRecord /\ Kept(d.hist) /\ Good(d.cur) /\ d.pc = "loop" /\ Running(t)
      /\ HomeOf = SessionOf => Remembers(t, d)
  BY DrainedFacts DEF Called, Running
<1>2. InboxOK'
  BY Parts, InboxEmptied DEF Called
<1>3. /\ Assistant(t) \in Messages /\ Assistant(t).role = "assistant"
      /\ Assistant(t).calls = {} /\ Assistant(t).of = {t}
  BY DEF Assistant, Message, Messages
<1> HIDE DEF d
<1>4. Kept(h) /\ h # <<>> /\ h \in Seq(Messages) /\ Origins(h) = Origins(d.hist) \cup {t}
  BY <1>1, <1>3, KeptAppend DEF Kept, Good
<1>5. works(t, next)
  BY DEF d
<1> HIDE DEF h
<1>6. /\ next \in TurnRecord /\ next.hist = h /\ next.cur = d.cur /\ next.pc = "wait"
      /\ next.heard = d.heard
  BY <1>1, <1>4 DEF TurnRecord
<1>7. HomeOf = SessionOf => Remembers(t, next)
  BY <1>1, <1>4, <1>6 DEF Remembers, Owed
<1>8. Fits(next)
  BY <1>1, <1>4, <1>6 DEF Fits
<1> HIDE DEF next
<1>. QED
  BY <1>1, <1>2, <1>5, <1>7, <1>8, WorksKeeps

LEMMA ShownGrows ==
    ASSUME SessionInv, NEW t \in Turns, Succeeds(t), UNCHANGED <<sent, acts>>
    PROVE  RestOK'
<1>1. turn[t].prompted \subseteq Agents
  BY TurnFacts DEF TurnRecord
<1>2. shown \subseteq Agents
  BY Parts DEF RestOK
<1>. QED
  BY <1>1, <1>2, Untouched DEF Succeeds, Prompted

LEMMA LlmFailsKeeps ==
    ASSUME SessionInv, NEW t \in Turns, LlmFails(t)
    PROVE  SessionInv'
<1>1. CkptOK' /\ AgentOK' /\ RestOK'
  BY Untouched DEF LlmFails
<1>. QED
  BY <1>1, AnswerKeeps DEF LlmFails

LEMMA FinalAnswerKeeps ==
    ASSUME SessionInv, NEW t \in Turns, FinalAnswer(t)
    PROVE  SessionInv'
<1> DEFINE d == Drained(t)
           h == Append(d.hist, Assistant(t))
<1>1. CkptOK' /\ AgentOK' /\ RestOK'
  BY Untouched, ShownGrows DEF FinalAnswer
<1>2. d \in TurnRecord
  BY DrainedFacts DEF FinalAnswer
<1>3. works(t, [d EXCEPT !.hist = h, !.pc = "wait"])
  BY DEF FinalAnswer
<1> HIDE DEF d, h
<1>4. /\ [d EXCEPT !.hist = h, !.pc = "wait"] = [d EXCEPT !.hist = h, !.failed = d.failed, !.pc = "wait"]
      /\ d.failed \in BOOLEAN
  BY <1>2 DEF TurnRecord
<1>5. works(t, [d EXCEPT !.hist = h, !.failed = d.failed, !.pc = "wait"])
  BY <1>3, <1>4
<1>. QED
  BY <1>1, <1>4, <1>5, AnswerKeeps DEF FinalAnswer, d, h

\* A turn that stops, and may have settled nothing.
LEMMA EndsKeeps ==
    ASSUME SessionInv, NEW t \in Turns, Running(t), works(t, Ended),
           UNCHANGED <<stored, settled>>, CkptOK', InboxOK', AgentOK', RestOK'
    PROVE  SessionInv'
  BY EndedFacts, WorksKeeps

LEMMA TwoInARow ==
    ASSUME NEW S, NEW x \in S, NEW y \in S
    PROVE  <<x>> \o <<y>> = <<x, y>>
<1>1. <<x>> \in Seq(S)
  OBVIOUS
<1>2. <<x>> \o <<y>> = Append(<<x>>, y)
  BY <1>1, AppendIsConcat
<1>3. <<x, y>> = Append(<<x>>, y)
  OBVIOUS
<1>. QED
  BY <1>2, <1>3

LEMMA GoodPair ==
    ASSUME NEW t \in Turns, NEW c \in Tools
    PROVE  LET pair == <<ToolCalls(t, {c}), ToolResult(t, c)>>
           IN  Good(pair) /\ Origins(pair) \subseteq {t}
<1> DEFINE order == <<c>>
<1>1. order \in Seq({c}) /\ {c} \in SUBSET Tools /\ Len(order) = 1 /\ order[1] = c
      /\ DOMAIN order = 1 .. 1
  OBVIOUS
<1> HIDE DEF order
<1>2. \A d \in {c} : \E i \in 1 .. Len(order) : order[i] = d
  BY <1>1
<1> DEFINE results == [i \in DOMAIN order |-> ToolResult(t, order[i])]
           round == <<ToolCalls(t, {c})>> \o results
<1>3. Good(round) /\ Origins(round) \subseteq {t}
  BY <1>1, <1>2, GoodRound
<1>4. results = <<ToolResult(t, c)>>
  <2>1. results = [i \in 1 .. 1 |-> ToolResult(t, c)]
    BY <1>1
  <2> DEFINE e == ToolResult(t, c)
  <2> HIDE DEF e
  <2>2. [i \in 1 .. 1 |-> e] = <<e>>
    OBVIOUS
  <2>. QED
    BY <2>1, <2>2 DEF e
<1>5. \A x, y \in Messages : <<x>> \o <<y>> = <<x, y>>
  BY TwoInARow
<1>6. round = <<ToolCalls(t, {c}), ToolResult(t, c)>>
  <2>1. ToolCalls(t, {c}) \in Messages /\ ToolResult(t, c) \in Messages
    BY DEF ToolCalls, ToolResult, Message, Messages
  <2>. QED
    BY <2>1, <1>4, <1>5
<1>. QED
  BY <1>3, <1>6

LEMMA ListsAssociative ==
    \A ks, ms, ns \in Seq(Messages) : (ks \o ms) \o ns = ks \o (ms \o ns)
  BY ConcatAssociative

\* The trace of a skill is two whole rounds and an answer, if the call that
\* activated it was the only one.
LEMMA SkillTrace ==
    ASSUME NEW t \in Turns, NEW c \in Tools, NEW extra \in SUBSET Tools,
           Quirks = {} => extra = {}
    PROVE  Good(<<ToolCalls(t, {c} \cup extra)>>
                  \o <<ToolResult(t, c), ToolCalls(t, {c}), ToolResult(t, c), Assistant(t)>>)
<1> DEFINE b == ToolCalls(t, {c})
           e == ToolResult(t, c)
           a == Assistant(t)
           x == ToolCalls(t, {c} \cup extra)
           pair == <<b, e>>
<1>1. x \in Messages /\ b \in Messages /\ e \in Messages /\ a \in Messages
  BY DEF ToolCalls, ToolResult, Assistant, Message, Messages
<1>2. a.role # "tool" /\ a.calls = {}
  BY DEF Assistant, Message
<1>3. Good(pair)
  BY GoodPair
<1>4. Quirks = {} => x = b
  OBVIOUS
<1> HIDE DEF a, b, e, x
<1>5. <<x>> \o <<e, b, e, a>> \in Seq(Messages)
  BY <1>1
<1>6. ASSUME Quirks = {} PROVE Good(<<x>> \o <<e, b, e, a>>)
  <2>1. <<b>> \o <<e, b, e, a>> = Append(<<b, e>> \o <<b, e>>, a)
    BY <1>1
  <2>2. Good(pair \o pair)
    BY <1>3, GoodConcat
  <2> DEFINE two == pair \o pair
  <2> HIDE DEF two
  <2>3. Good(Append(two, a))
    BY <1>1, <1>2, <2>2, GoodAppend DEF two
  <2>. QED
    BY <1>4, <1>6, <2>1, <2>3 DEF two
<1>7. Good(<<x>> \o <<e, b, e, a>>)
  BY <1>5, <1>6 DEF Good
<1>. QED
  BY <1>7 DEF a, b, e, x

LEMMA ActivateSkillKeeps ==
    ASSUME SessionInv, NEW t \in Turns, ActivateSkill(t)
    PROVE  SessionInv'
<1>1. CkptOK' /\ AgentOK' /\ RestOK'
  BY Untouched, ShownGrows DEF ActivateSkill
<1>2. InboxOK' /\ Running(t) /\ Called(t)
  BY Parts, InboxEmptied DEF ActivateSkill, Called, Running
<1>3. CASE works(t, Ended)
  BY <1>1, <1>2, <1>3, EndsKeeps DEF ActivateSkill
<1>4. ASSUME NEW c \in Tools, NEW extra \in SUBSET Tools, extra # {} => "extra" \in Quirks,
             works(t, [Drained(t) EXCEPT
                          !.hist = @ \o <<ToolCalls(t, {c} \cup extra)>>
                                     \o <<ToolResult(t, c), ToolCalls(t, {c}), ToolResult(t, c),
                                          Assistant(t)>>,
                          !.pc = "wait"])
      PROVE  SessionInv'
  <2> DEFINE d == Drained(t)
             first == <<ToolCalls(t, {c} \cup extra)>>
             rest == <<ToolResult(t, c), ToolCalls(t, {c}), ToolResult(t, c), Assistant(t)>>
             trace == first \o rest
             h == d.hist \o trace
  <2>1. /\ d \in TurnRecord /\ Kept(d.hist) /\ d.hist # <<>> /\ Good(d.cur) /\ d.pc = "loop"
        /\ HomeOf = SessionOf => Remembers(t, d)
    BY <1>2, DrainedFacts
  <2>2. Good(trace)
    BY <1>4, SkillTrace
  <2>3. first \in Seq(Messages) /\ rest \in Seq(Messages)
    <3>1. /\ ToolCalls(t, {c} \cup extra) \in Messages /\ ToolCalls(t, {c}) \in Messages
          /\ ToolResult(t, c) \in Messages /\ Assistant(t) \in Messages
      BY DEF ToolCalls, ToolResult, Assistant, Message, Messages
    <3>. QED
      BY <3>1
  <2>4. works(t, [d EXCEPT !.hist = (d.hist \o first) \o rest, !.pc = "wait"])
    BY <1>4
  <2> HIDE DEF d, first, rest
  <2>5. (d.hist \o first) \o rest = h
    <3>1. d.hist \in Seq(Messages)
      BY <2>1 DEF Kept, Good
    <3>. QED
      BY <3>1, <2>3, ListsAssociative
  <2> HIDE DEF trace
  <2>6. Kept(h) /\ h # <<>> /\ Origins(d.hist) \subseteq Origins(h)
    BY <2>1, <2>2, KeptConcat
  <2> HIDE DEF h
  <2> DEFINE next == [d EXCEPT !.hist = h, !.pc = "wait"]
  <2>7. /\ next \in TurnRecord /\ next.hist = h /\ next.cur = d.cur /\ next.pc = "wait"
        /\ next.heard = d.heard
    BY <2>1, <2>6 DEF TurnRecord, Good, Kept
  <2>8. HomeOf = SessionOf => Remembers(t, next)
    BY <2>1, <2>6, <2>7 DEF Remembers, Owed
  <2>9. Fits(next)
    BY <2>1, <2>6, <2>7 DEF Fits
  <2>10. works(t, next) /\ UNCHANGED <<stored, settled>>
    BY <2>4, <2>5 DEF ActivateSkill
  <2> HIDE DEF next
  <2>. QED
    BY <1>1, <1>2, <2>8, <2>9, <2>10, WorksKeeps
<1>. QED
  BY <1>3, <1>4 DEF ActivateSkill

LEMMA FrontOfAppend ==
    ASSUME NEW ms \in Seq(Messages), NEW m \in Messages
    PROVE  Front(Append(ms, m)) = ms
<1> DEFINE zs == Append(ms, m)
<1>1. /\ zs \in Seq(Messages) /\ Len(zs) = Len(ms) + 1 /\ Len(ms) \in Nat
      /\ \A i \in 1 .. Len(ms) : zs[i] = ms[i]
  BY AppendProperties
<1> HIDE DEF zs
<1>2. Len(zs) - 1 = Len(ms) /\ \A i \in 1 .. Len(ms) : zs[i] \in Messages
  BY <1>1
<1>3. Front(zs) = SubSeq(zs, 1, Len(ms))
  BY <1>2 DEF Front
<1>4. /\ SubSeq(zs, 1, Len(ms)) \in Seq(Messages)
      /\ Len(SubSeq(zs, 1, Len(ms))) = Len(ms)
      /\ \A i \in 1 .. Len(ms) : SubSeq(zs, 1, Len(ms))[i] = zs[i]
  BY <1>1, <1>2
<1>5. SubSeq(zs, 1, Len(ms)) = ms
  BY <1>1, <1>4, SeqEqual
<1>. QED
  BY <1>3, <1>5 DEF zs

\* What stands before the last part of a list is not touched by taking a
\* message away from its end.
LEMMA FrontKeeps ==
    ASSUME NEW ms \in Seq(Messages), NEW ns \in Seq(Messages), ns # <<>>
    PROVE  /\ Front(ms \o ns) \in Seq(Messages)
           /\ Origins(ms) \subseteq Origins(Front(ms \o ns))
<1> DEFINE zs == ms \o ns
           fs == SubSeq(zs, 1, Len(zs) - 1)
<1>1. /\ zs \in Seq(Messages) /\ Len(zs) = Len(ms) + Len(ns)
      /\ Len(ms) \in Nat /\ Len(ns) \in Nat \ {0}
      /\ \A i \in 1 .. Len(ms) : zs[i] = ms[i]
  BY ConcatProperties
<1> HIDE DEF zs
<1>2. \A i \in 1 .. Len(zs) - 1 : zs[i] \in Messages
  BY <1>1
<1>3. /\ fs \in Seq(Messages) /\ Len(fs) = Len(zs) - 1
      /\ \A i \in 1 .. Len(zs) - 1 : fs[i] = zs[i]
  BY <1>1, <1>2
<1>4. \A i \in 1 .. Len(ms) : i \in 1 .. Len(zs) - 1
  BY <1>1
<1>5. Front(zs) = fs
  BY DEF Front
<1> HIDE DEF fs
<1>6. \A x \in Origins(ms) : x \in Origins(fs)
  <2> SUFFICES ASSUME NEW x \in Origins(ms) PROVE x \in Origins(fs)
    OBVIOUS
  <2>1. PICK i \in 1 .. Len(ms) : x \in ms[i].of
    BY OriginsOf
  <2>2. i \in 1 .. Len(fs) /\ fs[i] = ms[i]
    BY <1>1, <1>3, <1>4
  <2>. QED
    BY <2>1, <2>2, <1>3, OriginsOf
<1>. QED
  BY <1>3, <1>5, <1>6 DEF zs

LEMMA CountsInRange ==
    ASSUME NEW count \in [Tools -> 0 .. MaxIter + 1], NEW out
    PROVE  CountedUp(count, out) \in [Tools -> 0 .. MaxIter + 1]
<1>1. MaxIter \in Nat
  BY TurnAssumption
<1>2. \A c \in Tools : count[c] =< MaxIter => count[c] + 1 \in 0 .. MaxIter + 1
  BY <1>1
<1>. QED
  BY <1>2 DEF CountedUp

LEMMA RoundInOrder ==
    ASSUME NEW t \in Turns, NEW cs \in SUBSET Tools
    PROVE  LET round == <<ToolCalls(t, cs)>>
                          \o [i \in DOMAIN InOrder(cs) |-> ToolResult(t, InOrder(cs)[i])]
           IN  Good(round) /\ Origins(round) \subseteq {t}
<1>1. \A order \in Seq(cs) :
          (\A c \in cs : \E i \in 1 .. Len(order) : order[i] = c)
          => LET round == <<ToolCalls(t, cs)>> \o [i \in DOMAIN order |-> ToolResult(t, order[i])]
             IN  Good(round) /\ Origins(round) \subseteq {t}
  BY GoodRound
<1>2. /\ InOrder(cs) \in Seq(cs)
      /\ \A c \in cs : \E i \in 1 .. Len(InOrder(cs)) : InOrder(cs)[i] = c
  BY InOrderFacts
<1>. QED
  BY <1>1, <1>2

\* Calls and results are added to both lists together, and no hint gets in
\* between; the calls of a model that lacked a schema are taken back.
LEMMA ToolRoundKeeps ==
    ASSUME SessionInv, NEW t \in Turns, ToolRound(t)
    PROVE  SessionInv'
<1> DEFINE d == Drained(t)
           asked(cs) == Append(d.cur, ToolCalls(t, cs))
           results(cs) == [i \in DOMAIN InOrder(cs) |-> ToolResult(t, InOrder(cs)[i])]
           hints(cs, out) == [i \in 1 .. Cardinality({c \in cs : out[c] = "hint"}) |-> Hint]
           committed(cs, out) ==
               [d EXCEPT !.count = CountedUp(d.count, out),
                         !.cur = asked(cs) \o hints(cs, out) \o results(cs),
                         !.hist = Append(@, ToolCalls(t, cs)) \o results(cs)]
           taken(cs, out) ==
               \E count \in [Tools -> 0 .. MaxIter + 1], full \in SUBSET Tools :
                   /\ works(t, [d EXCEPT !.count = count, !.full = full,
                                         !.cur = Front(asked(cs) \o hints(cs, out))])
                   /\ UNCHANGED <<stored, ckpt>>
           given(cs, out) ==
               LET new == committed(cs, out) IN
               /\ ckpt' = [ckpt EXCEPT ![t] = [msgs |-> new.hist, completed |-> FALSE]]
               /\ \/ CompactInLoop(t, new)
                  \/ works(t, [new EXCEPT !.pc = "loop"]) /\ UNCHANGED stored
                  \/ /\ works(t, [new EXCEPT !.hist = Append(@, Assistant(t)), !.pc = "wait"])
                     /\ UNCHANGED stored
                  \/ works(t, [new EXCEPT !.pc = "wait"]) /\ UNCHANGED stored
<1>1. /\ d \in TurnRecord /\ Kept(d.hist) /\ d.hist # <<>> /\ Good(d.cur) /\ d.pc = "loop"
      /\ Running(t)
      /\ d.count \in [Tools -> 0 .. MaxIter + 1] /\ d.full \in SUBSET Tools
      /\ HomeOf = SessionOf => Remembers(t, d)
  <2>1. Called(t) /\ Running(t)
    BY DEF ToolRound, Called, Running
  <2>. QED
    BY <2>1, DrainedFacts DEF TurnRecord
<1>a. PICK cs \in SUBSET Tools : \E out \in [cs -> Outcomes] :
          /\ Quirks = {} => \A c \in cs : out[c] # "hint"
          /\ taken(cs, out) \/ given(cs, out)
  <2>b. PICK cs \in (SUBSET Tools) \ {{}} : \E out \in [cs -> Outcomes] :
            /\ \A c \in cs :
                  /\ out[c] = "denied" <=> d.count[c] >= MaxIter
                  /\ out[c] = "missing" =>
                        c \notin d.full /\ \A e \in cs : e > c => out[e] = "ok"
                  /\ out[c] = "hint" => "hint" \in Quirks
            /\ Cardinality({c \in cs : out[c] = "missing"}) <= 1
            /\ IF \E c \in cs : out[c] = "missing"
               THEN LET m == CHOOSE c \in cs : out[c] = "missing"
                        ran == [c \in {e \in cs : e <= m} |-> out[c]]
                    IN  /\ works(t, [d EXCEPT !.count = CountedUp(d.count, ran),
                                              !.full = @ \cup {m},
                                              !.cur = Front(asked(cs) \o hints(cs, out))])
                        /\ UNCHANGED <<stored, ckpt>>
               ELSE LET new == committed(cs, out)
                        over == \E c \in Tools : CountedUp(d.count, out)[c] > MaxIter
                    IN
                    /\ ckpt' = [ckpt EXCEPT ![t] = [msgs |-> new.hist, completed |-> FALSE]]
                    /\ \/ /\ \E c \in cs : out[c] # "denied"
                          /\ CompactInLoop(t, new)
                       \/ /\ ~over
                          /\ works(t, [new EXCEPT !.pc = "loop"]) /\ UNCHANGED stored
                       \/ /\ works(t, [new EXCEPT !.hist = Append(@, Assistant(t)), !.pc = "wait"])
                          /\ UNCHANGED stored
                       \/ /\ ~over
                          /\ works(t, [new EXCEPT !.pc = "wait"]) /\ UNCHANGED stored
            /\ \/ UNCHANGED agent
               \/ \E a \in Agents :
                    /\ agent[a].status = "none" /\ \E c \in cs : out[c] = "ok"
                    /\ ~\E c \in cs : out[c] = "missing"
                    /\ agent' = [agent EXCEPT ![a].status = "running", ![a].home = HomeOf[t]]
    BY Zenon DEF ToolRound
  <2>a. \E out \in [cs -> Outcomes] :
            /\ \A c \in cs : out[c] = "hint" => "hint" \in Quirks
            /\ IF \E c \in cs : out[c] = "missing"
               THEN LET m == CHOOSE c \in cs : out[c] = "missing"
                        ran == [c \in {e \in cs : e <= m} |-> out[c]]
                    IN  /\ works(t, [d EXCEPT !.count = CountedUp(d.count, ran),
                                              !.full = @ \cup {m},
                                              !.cur = Front(asked(cs) \o hints(cs, out))])
                        /\ UNCHANGED <<stored, ckpt>>
               ELSE given(cs, out)
    <3> HIDE DEF d, asked, results, hints, committed
    <3>. QED
      BY <2>b, Zenon
  <2>1. PICK out \in [cs -> Outcomes] :
            /\ \A c \in cs : out[c] = "hint" => "hint" \in Quirks
            /\ IF \E c \in cs : out[c] = "missing"
               THEN LET m == CHOOSE c \in cs : out[c] = "missing"
                        ran == [c \in {e \in cs : e <= m} |-> out[c]]
                    IN  /\ works(t, [d EXCEPT !.count = CountedUp(d.count, ran),
                                              !.full = @ \cup {m},
                                              !.cur = Front(asked(cs) \o hints(cs, out))])
                        /\ UNCHANGED <<stored, ckpt>>
               ELSE given(cs, out)
    BY <2>a, Zenon
  <2>2. CASE \E c \in cs : out[c] = "missing"
    <3> DEFINE m == CHOOSE c \in cs : out[c] = "missing"
               ran == [c \in {e \in cs : e <= m} |-> out[c]]
    <3>1. m \in cs
      BY <2>2
    <3>2. CountedUp(d.count, ran) \in [Tools -> 0 .. MaxIter + 1]
      BY <1>1, CountsInRange
    <3>3. d.full \cup {m} \in SUBSET Tools
      BY <1>1, <3>1
    <3>4. /\ works(t, [d EXCEPT !.count = CountedUp(d.count, ran),
                                !.full = d.full \cup {m},
                                !.cur = Front(asked(cs) \o hints(cs, out))])
          /\ UNCHANGED <<stored, ckpt>>
      BY <2>1, <2>2
    <3> HIDE DEF m, ran, d, asked, hints
    <3>5. taken(cs, out)
      BY <3>2, <3>3, <3>4, Zenon
    <3>. QED
      BY <2>1, <3>5
  <2>3. CASE ~\E c \in cs : out[c] = "missing"
    BY <2>1, <2>3
  <2>. QED
    BY <2>2, <2>3
<1>2. PICK out \in [cs -> Outcomes] :
          /\ Quirks = {} => \A c \in cs : out[c] # "hint"
          /\ taken(cs, out) \/ given(cs, out)
  BY <1>a, Zenon
<1> DEFINE call == ToolCalls(t, cs)
           round == <<call>> \o results(cs)
<1>3. /\ InOrder(cs) \in Seq(cs)
      /\ \A c \in cs : \E i \in 1 .. Len(InOrder(cs)) : InOrder(cs)[i] = c
  BY InOrderFacts
<1>4. Good(round) /\ Origins(round) \subseteq {t}
  BY RoundInOrder, Zenon
<1>5. /\ call \in Messages
      /\ results(cs) \in Seq(Messages)
  <2>1. /\ ToolCalls(t, cs) \in Messages
        /\ \A c \in cs : ToolResult(t, c) \in Messages
    BY DEF ToolCalls, ToolResult, Message, Messages
  <2>2. \A i \in DOMAIN InOrder(cs) : InOrder(cs)[i] \in cs
    BY <1>3
  <2>3. DOMAIN InOrder(cs) = 1 .. Len(InOrder(cs)) /\ Len(InOrder(cs)) \in Nat
    BY <1>3
  <2>4. results(cs) \in [1 .. Len(InOrder(cs)) -> Messages]
    BY <2>1, <2>2, <2>3
  <2>. QED
    BY <2>1, <2>3, <2>4
<1>6. /\ hints(cs, out) \in Seq(Messages)
      /\ Quirks = {} => hints(cs, out) = <<>>
  <2> DEFINE told == {c \in cs : out[c] = "hint"}
             n == Cardinality(told)
  <2>1. n \in Nat
    BY TurnAssumption, FS_Subset, FS_CardinalityType
  <2>2. Hint \in Messages
    BY DEF Hint, Message, Messages
  <2>3. hints(cs, out) = [i \in 1 .. n |-> Hint]
    OBVIOUS
  <2>4. Quirks = {} => n = 0
    <3>1. Quirks = {} => told = {}
      BY <1>2
    <3>. QED
      BY <3>1, FS_EmptySet
  <2> HIDE DEF n, hints
  <2>5. [i \in 1 .. n |-> Hint] \in Seq(Messages)
    <3>1. [i \in 1 .. n |-> Hint] \in [1 .. n -> Messages]
      BY <2>2
    <3>. QED
      BY <2>1, <3>1
  <2>6. 1 .. 0 = {} /\ \A x : [i \in {} |-> x] = <<>>
    OBVIOUS
  <2>. QED
    BY <2>3, <2>4, <2>5, <2>6
<1>7. CountedUp(d.count, out) \in [Tools -> 0 .. MaxIter + 1]
  BY <1>1, CountsInRange
<1>8. CkptOK /\ InboxOK' /\ AgentOK' /\ RestOK' /\ UNCHANGED settled
  <2>1. InboxOK' /\ CkptOK /\ AgentOK
    BY Parts, InboxEmptied DEF ToolRound, Called
  <2>2. RestOK' /\ UNCHANGED settled
    BY ShownGrows DEF ToolRound
  <2>3. \/ UNCHANGED agent
        \/ \E a \in Agents : agent' = [agent EXCEPT ![a].status = "running", ![a].home = HomeOf[t]]
    BY DEF ToolRound
  <2>4. HomeOf[t] \in Chats
    BY TurnAssumption
  <2>5. AgentOK'
    <3>1. CASE UNCHANGED agent
      BY <3>1, <2>1 DEF AgentOK
    <3>2. ASSUME NEW a \in Agents,
                 agent' = [agent EXCEPT ![a].status = "running", ![a].home = HomeOf[t]]
          PROVE  AgentOK'
      <4>1. /\ DOMAIN agent = Agents
            /\ agent[a] \in [status : {"none", "running", "completed", "failed"},
                             home : Chats \cup {"none"}, injected : BOOLEAN, delivered : BOOLEAN]
        BY <2>1 DEF AgentOK
      <4>2. agent'[a] = [agent[a] EXCEPT !.status = "running", !.home = HomeOf[t]]
        BY <3>2, <4>1
      <4>3. \A b \in Agents : b # a => agent'[b] = agent[b]
        BY <3>2, <4>1
      <4>4. agent'[a].home = HomeOf[t]
        BY <4>1, <4>2
      <4>5. agent'[a] \in [status : {"none", "running", "completed", "failed"},
                           home : Chats \cup {"none"}, injected : BOOLEAN, delivered : BOOLEAN]
        BY <4>1, <4>2, <2>4
      <4>6. agent' = [b \in Agents |-> agent'[b]]
        BY <3>2, <4>1
      <4>. QED
        BY <2>1, <2>4, <4>3, <4>4, <4>5, <4>6 DEF AgentOK
    <3>. QED
      BY <2>3, <3>1, <3>2
  <2>. QED
    BY <2>1, <2>2, <2>5
<1> DEFINE hs == hints(cs, out)
           front == Front(asked(cs) \o hs)
           k == asked(cs) \o hs \o results(cs)
           h == d.hist \o round
<1>9. /\ d.cur \in Seq(Messages) /\ d.hist \in Seq(Messages) /\ <<call>> \in Seq(Messages)
      /\ asked(cs) = Append(d.cur, call)
      /\ asked(cs) = d.cur \o <<call>>
  <2>1. d.cur \in Seq(Messages) /\ d.hist \in Seq(Messages) /\ <<call>> \in Seq(Messages)
    BY <1>1, <1>5 DEF Good, Kept
  <2>. QED
    BY <2>1, <1>5, AppendIsConcat
<1> DEFINE rs == results(cs)
<1>13. /\ hs \in Seq(Messages) /\ rs \in Seq(Messages)
       /\ Quirks = {} => hs = <<>>
       /\ round = <<call>> \o rs /\ k = asked(cs) \o hs \o rs
       /\ Append(d.hist, ToolCalls(t, cs)) \o rs = Append(d.hist, call) \o rs
       /\ front = Front(asked(cs) \o hs)
  BY <1>5, <1>6
<1> HIDE DEF asked, results, hints, hs, rs, round, call, d, h, k, front
<1>14. Append(d.hist, call) \o rs = h
  <2>1. Append(d.hist, call) = d.hist \o <<call>>
    BY <1>5, <1>9, AppendIsConcat
  <2>2. (d.hist \o <<call>>) \o rs = d.hist \o (<<call>> \o rs)
    BY <1>9, <1>13, ListsAssociative
  <2>. QED
    BY <2>1, <2>2, <1>13, Zenon DEF h
<1>10. /\ Kept(h) /\ h # <<>> /\ h \in Seq(Messages)
       /\ Origins(h) = Origins(d.hist) \cup Origins(round)
  BY <1>1, <1>4, KeptConcat DEF Kept, Good, h
<1>15. /\ Good(k) /\ Origins(d.cur) \subseteq Origins(k)
  <2> DEFINE middle == (<<call>> \o hs) \o rs
  <2>1. <<call>> \o hs \in Seq(Messages) /\ middle \in Seq(Messages)
    BY <1>9, <1>13, ConcatProperties
  <2>2. Good(middle)
    <3>1. ASSUME Quirks = {} PROVE Paired(middle)
      <4>1. <<call>> \o hs = <<call>>
        BY <3>1, <1>9, <1>13, ConcatEmptySeq
      <4>. QED
        BY <3>1, <4>1, <1>4, <1>13 DEF Good
    <3>. QED
      BY <2>1, <3>1 DEF Good
  <2>3. k = d.cur \o middle
    <3>1. (d.cur \o <<call>>) \o hs = d.cur \o (<<call>> \o hs)
      BY <1>9, <1>13, ListsAssociative
    <3> DEFINE ch == <<call>> \o hs
    <3>2. ch \in Seq(Messages)
      BY <2>1
    <3> HIDE DEF ch
    <3>3. (d.cur \o ch) \o rs = d.cur \o (ch \o rs)
      BY <1>9, <1>13, <3>2, ListsAssociative
    <3>. QED
      BY <1>9, <1>13, <3>1, <3>3 DEF ch
  <2> HIDE DEF middle
  <2>. QED
    BY <1>1, <2>2, <2>3, GoodConcat
<1>16. /\ Good(front) /\ Origins(d.cur) \subseteq Origins(front)
  <2> DEFINE ch == <<call>> \o hs
  <2>1. ch \in Seq(Messages) /\ ch # <<>>
    <3>1. /\ ch \in Seq(Messages) /\ Len(ch) = Len(<<call>>) + Len(hs)
          /\ Len(<<call>>) = 1 /\ Len(hs) \in Nat
      BY <1>9, <1>13, ConcatProperties
    <3>. QED
      BY <3>1, EmptySeq
  <2>2. front = Front(d.cur \o ch)
    <3>1. (d.cur \o <<call>>) \o hs = d.cur \o ch
      BY <1>9, <1>13, ListsAssociative
    <3>. QED
      BY <3>1, <1>9, <1>13
  <2>3. ASSUME Quirks = {} PROVE front = d.cur
    <3>1. asked(cs) \in Seq(Messages)
      BY <1>5, <1>9
    <3>2. asked(cs) \o hs = Append(d.cur, call)
      BY <2>3, <3>1, <1>9, <1>13, ConcatEmptySeq
    <3>. QED
      BY <3>2, <1>5, <1>9, <1>13, FrontOfAppend
  <2> HIDE DEF ch
  <2>4. front \in Seq(Messages) /\ Origins(d.cur) \subseteq Origins(front)
    BY <2>1, <2>2, <1>9, FrontKeeps
  <2>. QED
    BY <2>3, <2>4, <1>1 DEF Good
<1>11. CASE taken(cs, out)
  <2>1. PICK count \in [Tools -> 0 .. MaxIter + 1], full \in SUBSET Tools :
            /\ works(t, [d EXCEPT !.count = count, !.full = full, !.cur = front])
            /\ UNCHANGED <<stored, ckpt>>
    BY <1>11, Zenon DEF front, hs
  <2> DEFINE next == [d EXCEPT !.count = count, !.full = full, !.cur = front]
  <2>a. front \in Seq(Messages)
    BY <1>16 DEF Good
  <2>2. /\ next \in TurnRecord /\ next.hist = d.hist /\ next.cur = front /\ next.pc = d.pc
        /\ next.heard = d.heard
    BY <1>1, <2>1, <2>a DEF TurnRecord
  <2>3. HomeOf = SessionOf => Remembers(t, next)
    BY <1>1, <1>16, <2>2 DEF Remembers, Owed
  <2>4. works(t, next) /\ UNCHANGED <<stored, ckpt>>
    BY <2>1
  <2>5. CkptOK'
    BY <2>4, <1>8 DEF CkptOK
  <2>6. Fits(next)
    BY <1>1, <1>16, <2>2 DEF Fits
  <2> HIDE DEF next
  <2>. QED
    BY <1>1, <1>8, <2>3, <2>4, <2>5, <2>6, WorksKeeps
<1>12. CASE given(cs, out)
  <2> DEFINE new == committed(cs, out)
  <2>1. new = [d EXCEPT !.count = CountedUp(d.count, out), !.cur = k, !.hist = h]
    BY <1>13, <1>14, Zenon DEF rs, hs, k
  <2>2. h \in Seq(Messages) /\ k \in Seq(Messages)
    BY <1>10, <1>15 DEF Good
  <2>3. /\ ckpt' = [ckpt EXCEPT ![t] = [msgs |-> new.hist, completed |-> FALSE]]
        /\ \/ CompactInLoop(t, new)
           \/ works(t, [new EXCEPT !.pc = "loop"]) /\ UNCHANGED stored
           \/ /\ works(t, [new EXCEPT !.hist = Append(@, Assistant(t)), !.pc = "wait"])
              /\ UNCHANGED stored
           \/ works(t, [new EXCEPT !.pc = "wait"]) /\ UNCHANGED stored
    BY <1>12, Zenon
  <2> HIDE DEF new
  <2>4. /\ new \in TurnRecord /\ new.hist = h /\ new.cur = k /\ new.pc = "loop"
        /\ new.heard = d.heard
    BY <1>1, <1>7, <2>1, <2>2 DEF TurnRecord
  <2>5. HomeOf = SessionOf => Remembers(t, new)
    BY <1>1, <1>10, <1>15, <2>4 DEF Remembers, Owed
  <2>6. CkptOK'
    BY <1>8, <1>10, <2>3, <2>4, CkptUpdate
  <2>7. CASE CompactInLoop(t, new)
    BY <1>1, <1>8, <1>15, <2>4, <2>5, <2>6, <2>7, CompactKeeps
  <2>8. ASSUME NEW pc \in {"loop", "wait"}, works(t, [new EXCEPT !.pc = pc]), UNCHANGED stored
        PROVE  SessionInv'
    <3> DEFINE next == [new EXCEPT !.pc = pc]
    <3>1. /\ next \in TurnRecord /\ next.hist = h /\ next.cur = k /\ next.pc \in {"loop", "wait"}
          /\ next.heard = new.heard
      BY <2>4 DEF TurnRecord
    <3>2. HomeOf = SessionOf => Remembers(t, next)
      BY <2>4, <2>5, <3>1 DEF Remembers, Owed
    <3>3. works(t, next)
      BY <2>8
    <3>4. Fits(next)
      BY <1>10, <1>15, <3>1 DEF Fits
    <3> HIDE DEF next
    <3>. QED
      BY <1>1, <1>8, <2>6, <2>8, <3>2, <3>3, <3>4, WorksKeeps
  <2>9. ASSUME works(t, [new EXCEPT !.hist = Append(@, Assistant(t)), !.pc = "wait"]),
               UNCHANGED stored
        PROVE  SessionInv'
    <3> DEFINE ha == Append(new.hist, Assistant(t))
               next == [new EXCEPT !.hist = ha, !.pc = "wait"]
    <3>1. /\ Assistant(t) \in Messages /\ Assistant(t).role = "assistant"
          /\ Assistant(t).calls = {} /\ Assistant(t).of = {t}
      BY DEF Assistant, Message, Messages
    <3>2. Kept(ha) /\ ha # <<>> /\ ha \in Seq(Messages) /\ Origins(h) \subseteq Origins(ha)
      BY <1>10, <2>4, <3>1, KeptAppend DEF Kept, Good
    <3>3. works(t, next)
      BY <2>9
    <3> HIDE DEF ha
    <3>4. /\ next \in TurnRecord /\ next.hist = ha /\ next.cur = k /\ next.pc = "wait"
          /\ next.heard = new.heard
      BY <2>4, <3>2 DEF TurnRecord
    <3>5. HomeOf = SessionOf => Remembers(t, next)
      BY <2>4, <2>5, <3>2, <3>4 DEF Remembers, Owed
    <3>6. Fits(next)
      BY <1>15, <3>2, <3>4 DEF Fits
    <3> HIDE DEF next
    <3>. QED
      BY <1>1, <1>8, <2>6, <2>9, <3>3, <3>5, <3>6, WorksKeeps
  <2>. QED
    BY <2>3, <2>7, <2>8, <2>9
<1>. QED
  BY <1>2, <1>11, <1>12

-----------------------------------------------------------------------------
(* After the loop, and those who touch the session from outside *)

LEMMA WaitForAgentsKeeps ==
    ASSUME SessionInv, NEW t \in Turns, WaitForAgents(t)
    PROVE  SessionInv'
<1> DEFINE r == turn[t]
           mine == {a \in Agents : agent[a].status = "running" /\ agent[a].home = HomeOf[t]}
           pc == IF mine = {} THEN "save" ELSE "await"
           next == [r EXCEPT !.awaited = mine, !.pc = pc]
<1>1. /\ r \in TurnRecord /\ Fits(r) /\ Good(r.hist) /\ Good(r.cur) /\ r.pc = "wait" /\ Running(t)
      /\ HomeOf = SessionOf => Remembers(t, r)
  BY TurnFacts DEF WaitForAgents, Running, SessionInv, NothingForgotten
<1>2. works(t, next) /\ UNCHANGED <<stored, settled>>
  BY DEF WaitForAgents
<1>3. CkptOK' /\ InboxOK' /\ AgentOK' /\ RestOK'
  BY Untouched DEF WaitForAgents
<1>4. mine \in SUBSET Agents /\ pc \in {"save", "await"}
  OBVIOUS
<1> HIDE DEF mine, pc, r
<1>5. /\ next \in TurnRecord /\ next.hist = r.hist /\ next.cur = r.cur /\ next.heard = r.heard
      /\ next.pc \in {"save", "await"}
  BY <1>1, <1>4 DEF TurnRecord
<1>6. HomeOf = SessionOf => Remembers(t, next)
  BY <1>1, <1>5 DEF Remembers, Owed
<1>7. Fits(next)
  BY <1>1, <1>5 DEF Fits
<1> HIDE DEF next
<1>. QED
  BY <1>1, <1>2, <1>3, <1>6, <1>7, WorksKeeps

LEMMA InjectedKeeps ==
    ASSUME AgentOK, NEW S,
           agent' = [a \in Agents |-> [agent[a] EXCEPT !.injected = @ \/ a \in S]]
    PROVE  AgentOK'
<1> DEFINE Record == [status : {"none", "running", "completed", "failed"},
                      home : Chats \cup {"none"}, injected : BOOLEAN, delivered : BOOLEAN]
<1>1. ASSUME NEW a \in Agents
      PROVE  /\ agent'[a] \in Record
             /\ agent'[a].status = agent[a].status /\ agent'[a].home = agent[a].home
  <2>1. agent[a] \in Record
    BY DEF AgentOK
  <2>2. agent'[a] = [agent[a] EXCEPT !.injected = @ \/ a \in S]
    OBVIOUS
  <2> DEFINE b == agent[a].injected \/ a \in S
  <2>3. b \in BOOLEAN /\ agent'[a] = [agent[a] EXCEPT !.injected = b]
    BY <2>2
  <2> HIDE DEF b
  <2>. QED
    BY <2>1, <2>3
<1>2. agent' = [a \in Agents |-> agent'[a]]
  OBVIOUS
<1>. QED
  BY <1>1, <1>2 DEF AgentOK

LEMMA SummarizeKeeps ==
    ASSUME SessionInv, NEW t \in Turns, Summarize(t)
    PROVE  SessionInv'
<1> DEFINE r == turn[t]
           mine == {a \in Agents : Waiting(a) /\ agent[a].home = HomeOf[t]}
           new == [r EXCEPT !.awaited = {}, !.pc = "save"]
           h == Append(new.hist, Assistant(t))
<1>1. /\ r \in TurnRecord /\ Kept(r.hist) /\ r.hist # <<>> /\ Good(r.cur) /\ r.pc = "await" /\ Running(t)
      /\ HomeOf = SessionOf => Remembers(t, r)
  BY TurnFacts DEF Summarize, Running, SessionInv, NothingForgotten, Fits
<1>2. CkptOK' /\ InboxOK' /\ UNCHANGED <<stored, settled>>
  BY Untouched DEF Summarize
<1>3. AgentOK' /\ RestOK'
  <2>1. AgentOK /\ RestOK
    BY Parts
  <2>2. CASE UNCHANGED <<agent, shown>>
    BY <2>2, Untouched DEF Summarize
  <2>3. CASE /\ agent' = [a \in Agents |-> [agent[a] EXCEPT !.injected = @ \/ a \in mine]]
             /\ shown' = shown \cup mine
    <3>1. RestOK'
      BY <2>1, <2>3 DEF Summarize, RestOK
    <3>2. AgentOK'
      BY <2>1, <2>3, InjectedKeeps
    <3>. QED
      BY <3>1, <3>2
  <2>. QED
    BY <2>2, <2>3 DEF Summarize
<1> HIDE DEF r
<1>4. /\ new \in TurnRecord /\ new.hist = r.hist /\ new.cur = r.cur /\ new.heard = r.heard
      /\ new.pc = "save"
  BY <1>1 DEF TurnRecord
<1>5. HomeOf = SessionOf => Remembers(t, new)
  BY <1>1, <1>4 DEF Remembers, Owed
<1>6. works(t, new) \/ works(t, [new EXCEPT !.hist = h])
  BY DEF Summarize, r
<1>9. Fits(new)
  BY <1>1, <1>4 DEF Fits
<1> HIDE DEF new
<1>7. CASE works(t, new)
  BY <1>1, <1>2, <1>3, <1>5, <1>7, <1>9, WorksKeeps
<1>8. CASE works(t, [new EXCEPT !.hist = h])
  <2> DEFINE next == [new EXCEPT !.hist = h]
  <2>1. /\ Assistant(t) \in Messages /\ Assistant(t).role = "assistant"
        /\ Assistant(t).calls = {} /\ Assistant(t).of = {t}
    BY DEF Assistant, Message, Messages
  <2>2. Kept(h) /\ h # <<>> /\ h \in Seq(Messages) /\ Origins(new.hist) \subseteq Origins(h)
    BY <1>1, <1>4, <2>1, KeptAppend DEF Kept, Good
  <2> HIDE DEF h
  <2>3. /\ next \in TurnRecord /\ next.hist = h /\ next.cur = r.cur /\ next.heard = new.heard
        /\ next.pc = "save"
    BY <1>4, <2>2 DEF TurnRecord
  <2>4. HomeOf = SessionOf => Remembers(t, next)
    BY <1>4, <1>5, <2>2, <2>3 DEF Remembers, Owed
  <2>5. works(t, next)
    BY <1>8
  <2>6. Fits(next)
    BY <1>1, <2>2, <2>3 DEF Fits
  <2> HIDE DEF next
  <2>. QED
    BY <1>1, <1>2, <1>3, <2>4, <2>5, <2>6, WorksKeeps
<1>. QED
  BY <1>6, <1>7, <1>8

\* The history that replaces the file stands for all that is settled: for what
\* was settled before, because no other turn ran in this session meanwhile.
LEMMA SaveKeeps ==
    ASSUME SessionInv, NEW t \in Turns, Save(t)
    PROVE  SessionInv'
<1> DEFINE r == turn[t]
           s == SessionOf[t]
           next == [r EXCEPT !.hist = <<>>, !.cur = <<>>, !.heard = {}, !.pc = "told"]
<1>1. /\ r \in TurnRecord /\ Kept(r.hist) /\ Good(r.hist) /\ Good(r.cur) /\ r.pc = "save" /\ Running(t)
      /\ s \in Chats /\ r.heard \subseteq Steers
  BY TurnFacts DEF Save, Running
<1>2. CkptOK' /\ InboxOK' /\ AgentOK' /\ RestOK'
  BY Untouched DEF Save
<1>3. CASE works(t, Ended) /\ UNCHANGED <<stored, settled>>
  BY <1>1, <1>2, <1>3, EndsKeeps
<1>4. ASSUME NEW hist \in {r.hist, Compacted(r.hist)},
             stored' = [stored EXCEPT ![s] = hist],
             settled' = [settled EXCEPT ![s] = @ \cup {t} \cup r.heard],
             works(t, next)
      PROVE  SessionInv'
  <2>1. Kept(hist) /\ Origins(hist) = Origins(r.hist)
    BY <1>1, KeptCompacted
  <2>2. StoredOK /\ TurnOK /\ SettledOK
    BY Parts
  <2>3. StoredOK'
    BY <1>1, <1>4, <2>1, <2>2, StoredUpdate
  <2>4. SettledOK'
    BY <1>1, <1>4, <2>2 DEF SettledOK
  <2> HIDE DEF r
  <2>5. /\ next \in TurnRecord /\ next.hist = <<>> /\ next.cur = <<>> /\ next.pc = "told"
    <3>1. <<>> \in Seq(Messages)
      OBVIOUS
    <3>. QED
      BY <1>1, <3>1 DEF TurnRecord
  <2> HIDE DEF next
  <2>6. TurnOK' /\ turn'[t] = next /\ \A u \in Turns \ {t} : turn'[u] = turn[u]
    <3>1. Fits(next)
      BY <2>5, GoodEmpty, KeptEmpty DEF Fits
    <3>. QED
      BY <1>4, <2>2, <3>1, TurnUpdate
  <2>7. ASSUME HomeOf = SessionOf PROVE NothingForgotten'
    <3>1. NothingForgotten
      BY <2>7 DEF SessionInv
    <3>2. ASSUME NEW u \in Turns PROVE Remembers(u, turn[u])'
      <4>1. CASE u = t
        BY <4>1, <2>5, <2>6 DEF Remembers
      <4>2. CASE u # t /\ SessionOf[u] = s
        <5>1. ~Running(u)
          BY <4>2, <1>1, <3>1 DEF NothingForgotten, OneRuns
        <5>2. turn'[u] = turn[u]
          BY <4>2, <2>6
        <5>. QED
          BY <5>1, <5>2 DEF Running, Remembers
      <4>3. CASE u # t /\ SessionOf[u] # s
        <5>1. turn'[u] = turn[u] /\ settled'[SessionOf[u]] = settled[SessionOf[u]]
          BY <4>3, <2>6, <1>4, <2>2, TurnAssumption DEF SettledOK
        <5>2. Remembers(u, turn[u])
          BY <3>1 DEF NothingForgotten
        <5>. QED
          BY <5>1, <5>2 DEF Remembers, Owed
      <4>. QED
        BY <4>1, <4>2, <4>3
    <3>3. OneRuns'
      BY <1>1, <2>5, <2>6, <3>1 DEF NothingForgotten, OneRuns, Running, r
    <3>4. SettledIsStored'
      <4> SUFFICES ASSUME NEW c \in Chats PROVE settled'[c] \ Agents \subseteq Origins(stored'[c])
        BY DEF SettledIsStored
      <4>1. CASE c = s
        <5>1. settled'[c] = settled[s] \cup {t} \cup r.heard /\ stored'[c] = hist
          BY <4>1, <1>4, <2>2 DEF SettledOK, StoredOK
        <5>2. (settled[s] \ Agents) \cup {t} \cup r.heard \subseteq Origins(r.hist)
          BY <1>1, <3>1 DEF NothingForgotten, Remembers, Owed, r
        <5>. QED
          BY <5>1, <5>2, <2>1
      <4>2. CASE c # s
        <5>1. settled'[c] = settled[c] /\ stored'[c] = stored[c]
          BY <4>2, <1>4, <2>2 DEF SettledOK, StoredOK
        <5>. QED
          BY <5>1, <3>1 DEF NothingForgotten, SettledIsStored
      <4>. QED
        BY <4>1, <4>2
    <3>. QED
      BY <3>2, <3>3, <3>4 DEF NothingForgotten
  <2>. QED
    BY <1>2, <2>3, <2>4, <2>6, <2>7, PartsNext
<1>. QED
  BY <1>3, <1>4 DEF Save

LEMMA FinishKeeps ==
    ASSUME SessionInv, NEW t \in Turns, Finish(t)
    PROVE  SessionInv'
<1>1. Running(t) /\ works(t, Ended) /\ UNCHANGED <<stored, settled>>
  BY DEF Finish, Running
<1>2. InboxOK' /\ AgentOK' /\ RestOK'
  BY Parts, InboxEmptied, InjectedKeeps, Untouched DEF Finish
<1>3. CkptOK'
  <2>1. NoCheckpoint \in [msgs : Seq(Messages), completed : BOOLEAN] /\ Kept(NoCheckpoint.msgs)
    <3>1. <<>> \in Seq(Messages)
      OBVIOUS
    <3>. QED
      BY <3>1, KeptEmpty DEF NoCheckpoint
  <2>2. CkptOK
    BY Parts
  <2>. QED
    BY <2>1, <2>2 DEF Finish, CkptOK
<1>. QED
  BY <1>1, <1>2, <1>3, EndsKeeps

LEMMA EndCompactKeeps ==
    ASSUME SessionInv, NEW t \in Turns, EndCompact(t)
    PROVE  SessionInv'
<1> DEFINE ms == Compacted(turn[t].hist)
<1>1. /\ turn[t].pc = "compact" /\ Running(t) /\ works(t, Ended) /\ settled' = settled
      /\ Good(turn[t].hist)
      /\ HomeOf = SessionOf => Remembers(t, turn[t])
  BY TurnFacts DEF EndCompact, Running, SessionInv, NothingForgotten
<1>2. CkptOK' /\ InboxOK' /\ AgentOK' /\ RestOK'
  BY Parts, InboxEmptied, Untouched DEF EndCompact
<1>3. Kept(ms) /\ Origins(ms) = Origins(turn[t].hist)
  BY <1>1, KeptCompacted
<1>4. HomeOf = SessionOf => settled[SessionOf[t]] \ Agents \subseteq Origins(ms)
  BY <1>1, <1>3 DEF Remembers
<1>5. UNCHANGED stored \/ stored' = [stored EXCEPT ![SessionOf[t]] = ms]
  BY DEF EndCompact
<1> HIDE DEF ms
<1>. QED
  BY <1>1, <1>2, <1>3, <1>4, <1>5, EndedFacts, WorksKeeps

LEMMA AbortKeeps ==
    ASSUME SessionInv, NEW t \in Turns, Abort(t)
    PROVE  SessionInv'
<1>1. CkptOK' /\ InboxOK' /\ AgentOK' /\ RestOK'
  BY Parts, InboxEmptied, Untouched DEF Abort
<1>. QED
  BY <1>1, EndsKeeps DEF Abort

\* A step that moves no turn, and settles nothing that is not in the file.
LEMMA OutsideKeeps ==
    ASSUME SessionInv, UNCHANGED turn, StoredOK', SettledOK',
           \A c \in Chats : settled'[c] \ Agents \subseteq settled[c] \ Agents,
           HomeOf = SessionOf =>
               \A c \in Chats : settled'[c] \ Agents \subseteq Origins(stored'[c]),
           CkptOK', InboxOK', AgentOK', RestOK'
    PROVE  SessionInv'
<1>1. TurnOK'
  BY Parts DEF TurnOK
<1>2. ASSUME HomeOf = SessionOf PROVE NothingForgotten'
  <2>1. NothingForgotten
    BY <1>2 DEF SessionInv
  <2>2. ASSUME NEW t \in Turns PROVE Remembers(t, turn[t])'
    <3>1. SessionOf[t] \in Chats /\ turn'[t] = turn[t]
      BY TurnAssumption
    <3>2. Remembers(t, turn[t])
      BY <2>1 DEF NothingForgotten
    <3>3. settled'[SessionOf[t]] \ Agents \subseteq settled[SessionOf[t]] \ Agents
      BY <3>1
    <3>. QED
      BY <3>1, <3>2, <3>3 DEF Remembers, Owed
  <2>3. OneRuns'
    BY <2>1 DEF NothingForgotten, OneRuns, Running
  <2>4. SettledIsStored'
    BY <1>2 DEF SettledIsStored
  <2>. QED
    BY <2>2, <2>3, <2>4 DEF NothingForgotten
<1>. QED
  BY <1>1, <1>2, PartsNext

LEMMA QuietKeeps ==
    ASSUME SessionInv, UNCHANGED <<stored, turn, settled>>, CkptOK', InboxOK', AgentOK', RestOK'
    PROVE  SessionInv'
<1>1. StoredOK' /\ SettledOK'
  BY Parts DEF StoredOK, SettledOK
<1>2. HomeOf = SessionOf => \A c \in Chats : settled'[c] \ Agents \subseteq Origins(stored'[c])
  BY DEF SessionInv, NothingForgotten, SettledIsStored
<1>. QED
  BY <1>1, <1>2, OutsideKeeps

LEMMA SteerKeeps ==
    ASSUME SessionInv, NEW t \in Turns, NEW m \in Steers, Steer(t, m)
    PROVE  SessionInv'
<1>1. CkptOK' /\ AgentOK'
  BY Untouched DEF Steer
<1>2. InboxOK' /\ RestOK'
  BY Parts DEF Steer, InboxOK, RestOK
<1>. QED
  BY <1>1, <1>2, QuietKeeps DEF Steer

LEMMA AgentEndsKeeps ==
    ASSUME SessionInv, NEW a \in Agents, AgentEnds(a)
    PROVE  SessionInv'
<1>1. CkptOK' /\ InboxOK' /\ RestOK'
  BY Untouched DEF AgentEnds
<1>2. AgentOK'
  <2>1. AgentOK
    BY Parts
  <2>2. PICK s \in {"completed", "failed"} : agent' = [agent EXCEPT ![a].status = s]
    BY DEF AgentEnds
  <2>3. agent[a].status = "running"
    BY DEF AgentEnds
  <2>. QED
    BY <2>1, <2>2, <2>3 DEF AgentOK
<1>. QED
  BY <1>1, <1>2, QuietKeeps DEF AgentEnds

LEMMA ClearKeeps ==
    ASSUME SessionInv, NEW c \in Chats, Clear(c)
    PROVE  SessionInv'
<1>1. CkptOK' /\ InboxOK' /\ AgentOK' /\ UNCHANGED turn
  BY Untouched DEF Clear
<1>2. StoredOK /\ SettledOK /\ RestOK
  BY Parts
<1>3. RestOK'
  BY <1>2, TurnAssumption DEF Clear, RestOK
<1>4. StoredOK'
  BY <1>2, KeptEmpty, StoredUpdate DEF Clear
<1>5. \A e \in Chats : /\ settled'[e] = (IF e = c THEN {} ELSE settled[e])
                       /\ stored'[e] = (IF e = c THEN <<>> ELSE stored[e])
  BY <1>2 DEF Clear, SettledOK, StoredOK
<1>6. SettledOK'
  BY <1>2 DEF Clear, SettledOK
<1>7. HomeOf = SessionOf => \A e \in Chats : settled'[e] \ Agents \subseteq Origins(stored'[e])
  <2> SUFFICES ASSUME HomeOf = SessionOf, NEW e \in Chats
               PROVE  settled'[e] \ Agents \subseteq Origins(stored'[e])
    OBVIOUS
  <2>1. settled[e] \ Agents \subseteq Origins(stored[e])
    BY DEF SessionInv, NothingForgotten, SettledIsStored
  <2>. QED
    BY <2>1, <1>5
<1>8. \A e \in Chats : settled'[e] \ Agents \subseteq settled[e] \ Agents
  BY <1>5
<1>. QED
  BY <1>1, <1>3, <1>4, <1>6, <1>7, <1>8, OutsideKeeps

LEMMA AgentDeliversKeeps ==
    ASSUME SessionInv, NEW a \in Agents, AgentDelivers(a)
    PROVE  SessionInv'
<1> DEFINE c == agent[a].home
           m == Assistant(a)
<1>1. CkptOK' /\ InboxOK' /\ RestOK' /\ UNCHANGED turn
  BY Untouched DEF AgentDelivers
<1>2. StoredOK /\ SettledOK /\ AgentOK
  BY Parts
<1>3. c \in Chats
  BY <1>2 DEF AgentDelivers, AgentOK
<1>4. AgentOK'
  BY <1>2 DEF AgentDelivers, AgentOK
<1>5. m \in Messages /\ m.role = "assistant" /\ m.calls = {} /\ m.of = {a}
  BY DEF Assistant, Message, Messages
<1>6. Kept(stored[c])
  BY <1>2, <1>3 DEF StoredOK
<1>7. /\ stored' = [stored EXCEPT ![c] = Append(stored[c], m)]
      /\ settled' = [settled EXCEPT ![c] = settled[c] \cup {a}]
  BY DEF AgentDelivers
<1> HIDE DEF m, c
<1>8. Kept(Append(stored[c], m)) /\ Origins(stored[c]) \subseteq Origins(Append(stored[c], m))
  BY <1>5, <1>6, KeptAppend
<1>9. StoredOK'
  BY <1>2, <1>3, <1>7, <1>8, StoredUpdate
<1>10. \A e \in Chats :
          /\ settled'[e] = (IF e = c THEN settled[c] \cup {a} ELSE settled[e])
          /\ stored'[e] = (IF e = c THEN Append(stored[c], m) ELSE stored[e])
  BY <1>2, <1>7 DEF SettledOK, StoredOK
<1>11. SettledOK'
  BY <1>2, <1>3, <1>7 DEF SettledOK
<1>12. \A e \in Chats : settled'[e] \ Agents \subseteq settled[e] \ Agents
  BY <1>10
<1>13. HomeOf = SessionOf => \A e \in Chats : settled'[e] \ Agents \subseteq Origins(stored'[e])
  <2> SUFFICES ASSUME HomeOf = SessionOf, NEW e \in Chats
               PROVE  settled'[e] \ Agents \subseteq Origins(stored'[e])
    OBVIOUS
  <2>1. settled[e] \ Agents \subseteq Origins(stored[e])
    BY DEF SessionInv, NothingForgotten, SettledIsStored
  <2>2. Origins(stored[e]) \subseteq Origins(stored'[e])
    BY <1>8, <1>10
  <2>. QED
    BY <2>1, <2>2, <1>12
<1>. QED
  BY <1>1, <1>4, <1>9, <1>11, <1>12, <1>13, OutsideKeeps

-----------------------------------------------------------------------------
(* Messages that take the conversation's place *)

Replaced(t) == {u \in Turns \ {t} : Running(u) /\ HomeOf[u] = HomeOf[t]}

\* Whoever ran in this conversation is aborted, so the new turn is alone.
LEMMA TakesPlace ==
    ASSUME SessionInv, NEW t \in Turns, ~Running(t),
           NEW new, Fits(new), new.heard = {},
           turn' = [u \in Turns |-> IF u = t THEN new
                                    ELSE IF u \in Replaced(t) THEN Ended ELSE turn[u]],
           inbox' = [u \in Turns |-> IF u \in Replaced(t) THEN <<>> ELSE inbox[u]],
           StoredOK', SettledOK', CkptOK', AgentOK', RestOK',
           HomeOf = SessionOf =>
               LET s == SessionOf[t] IN
               /\ \A c \in Chats \ {s} : stored'[c] = stored[c] /\ settled'[c] = settled[c]
               /\ settled'[s] \ Agents \subseteq Origins(stored'[s])
               /\ \/ /\ new.pc = "compact"
                     /\ settled'[s] \ Agents \subseteq Origins(new.hist)
                  \/ /\ new.pc = "start"
                     /\ (settled'[s] \ Agents) \cup {t} \subseteq Origins(new.hist)
                     /\ (settled'[s] \ Agents) \cup {t} \subseteq Origins(new.cur)
    PROVE  SessionInv'
<1>1. TurnOK /\ InboxOK
  BY Parts
<1>2. \A u \in Turns : turn'[u] = (IF u = t THEN new
                                   ELSE IF u \in Replaced(t) THEN Ended ELSE turn[u])
  OBVIOUS
<1>3. TurnOK'
  <2>1. \A u \in Turns : turn'[u] \in TurnRecord /\ Fits(turn'[u])
    <3>1. new \in TurnRecord
      BY DEF Fits
    <3>. QED
      BY <1>1, <1>2, <3>1, EndedFacts DEF TurnOK
  <2>2. turn' = [u \in Turns |-> turn'[u]]
    OBVIOUS
  <2>. QED
    BY <2>1, <2>2 DEF TurnOK
<1>4. InboxOK'
  <2>1. <<>> \in Seq(Steers)
    OBVIOUS
  <2>. QED
    BY <1>1, <2>1 DEF InboxOK
<1>5. ASSUME HomeOf = SessionOf PROVE NothingForgotten'
  <2> DEFINE s == SessionOf[t]
  <2>1. NothingForgotten
    BY <1>5 DEF SessionInv
  <2>2. /\ \A c \in Chats \ {s} : stored'[c] = stored[c] /\ settled'[c] = settled[c]
        /\ settled'[s] \ Agents \subseteq Origins(stored'[s])
        /\ \/ /\ new.pc = "compact"
              /\ settled'[s] \ Agents \subseteq Origins(new.hist)
           \/ /\ new.pc = "start"
              /\ (settled'[s] \ Agents) \cup {t} \subseteq Origins(new.hist)
              /\ (settled'[s] \ Agents) \cup {t} \subseteq Origins(new.cur)
    BY <1>5
  <2>3. ASSUME NEW u \in Turns, u # t, SessionOf[u] = s PROVE turn'[u].pc \in {"idle", "over"}
    <3>1. CASE Running(u)
      <4>1. u \in Replaced(t)
        BY <2>3, <3>1, <1>5 DEF Replaced
      <4>. QED
        BY <4>1, <2>3, <1>2, EndedFacts
    <3>2. CASE ~Running(u)
      <4>1. u \notin Replaced(t) /\ turn'[u] = turn[u]
        BY <3>2, <2>3, <1>2 DEF Replaced
      <4>2. turn[u].pc \in {"idle", "start", "loop", "wait", "await", "save", "told", "compact", "over"}
        BY <1>1 DEF TurnOK, TurnRecord
      <4>. QED
        BY <4>1, <4>2, <3>2 DEF Running
    <3>. QED
      BY <3>1, <3>2
  <2>4. ASSUME NEW u \in Turns, SessionOf[u] # s PROVE turn'[u] = turn[u]
    BY <2>4, <1>2, <1>5 DEF Replaced
  <2>5. ASSUME NEW u \in Turns PROVE Remembers(u, turn[u])'
    <3>1. CASE u = t
      <4>1. turn'[u] = new
        BY <3>1, <1>2
      <4>. QED
        BY <3>1, <4>1, <2>2 DEF Remembers, Owed
    <3>2. CASE u # t /\ SessionOf[u] = s
      BY <3>2, <2>3 DEF Remembers
    <3>3. CASE SessionOf[u] # s
      <4>1. turn'[u] = turn[u] /\ settled'[SessionOf[u]] = settled[SessionOf[u]]
        BY <3>3, <2>2, <2>4, TurnAssumption
      <4>2. Remembers(u, turn[u])
        BY <2>1 DEF NothingForgotten
      <4>. QED
        BY <4>1, <4>2 DEF Remembers, Owed
    <3>. QED
      BY <3>1, <3>2, <3>3
  <2>6. OneRuns'
    <3> SUFFICES ASSUME NEW u \in Turns, NEW v \in Turns, Running(u)', Running(v)',
                        SessionOf[u] = SessionOf[v]
                 PROVE  u = v
      BY DEF OneRuns
    <3>1. CASE SessionOf[u] = s
      <4>1. turn'[u].pc \notin {"idle", "over"} /\ turn'[v].pc \notin {"idle", "over"}
        BY DEF Running
      <4>. QED
        BY <3>1, <4>1, <2>3
    <3>2. CASE SessionOf[u] # s
      <4>1. turn'[u] = turn[u] /\ turn'[v] = turn[v]
        BY <3>2, <2>4
      <4>2. Running(u) /\ Running(v)
        BY <4>1 DEF Running
      <4>. QED
        BY <4>2, <2>1 DEF NothingForgotten, OneRuns
    <3>. QED
      BY <3>1, <3>2
  <2>7. SettledIsStored'
    <3>1. \A c \in Chats : settled[c] \ Agents \subseteq Origins(stored[c])
      BY <2>1 DEF NothingForgotten, SettledIsStored
    <3>. QED
      BY <3>1, <2>2 DEF SettledIsStored
  <2>. QED
    BY <2>5, <2>6, <2>7 DEF NothingForgotten
<1>. QED
  BY <1>3, <1>4, <1>5, PartsNext

LEMMA BeginCompactKeeps ==
    ASSUME SessionInv, NEW t \in Turns, BeginCompact(t)
    PROVE  SessionInv'
<1> DEFINE s == SessionOf[t]
           new == [Idle EXCEPT !.pc = "compact", !.hist = stored[s]]
<1>1. /\ turn[t].pc = "idle" /\ ~Running(t) /\ s \in Chats
      /\ acts < MaxFiles /\ acts' = acts + 1
      /\ UNCHANGED <<stored, ckpt, sent, agent, settled, shown>>
  BY TurnFacts DEF BeginCompact, Running
<1>2. StoredOK /\ SettledOK /\ RestOK
  BY Parts
<1>3. CkptOK' /\ AgentOK' /\ StoredOK' /\ SettledOK'
  BY <1>1, <1>2, Untouched DEF StoredOK, SettledOK
<1>4. RestOK'
  BY <1>1, <1>2, TurnAssumption DEF RestOK
<1>5. Kept(stored[s])
  BY <1>1, <1>2 DEF StoredOK
<1>6. /\ new \in TurnRecord /\ new.pc = "compact" /\ new.hist = stored[s] /\ new.cur = <<>>
      /\ new.heard = {}
  BY <1>5, EndedFacts DEF TurnRecord, Kept, Good, Idle
<1>7. /\ turn' = [u \in Turns |-> IF u = t THEN new
                                  ELSE IF u \in Replaced(t) THEN Ended ELSE turn[u]]
      /\ inbox' = [u \in Turns |-> IF u \in Replaced(t) THEN <<>> ELSE inbox[u]]
  BY DEF BeginCompact, Replaced
<1>9. Fits(new)
  BY <1>5, <1>6, GoodEmpty DEF Fits
<1> HIDE DEF new
<1>8. HomeOf = SessionOf => settled'[s] \ Agents \subseteq Origins(stored'[s])
  BY <1>1 DEF SessionInv, NothingForgotten, SettledIsStored
<1>. QED
  BY <1>1, <1>3, <1>4, <1>6, <1>7, <1>8, <1>9, TakesPlace

\* The prompt is the whole file: nothing of a good list is skipped.
LEMMA BeginKeeps ==
    ASSUME SessionInv, NEW t \in Turns, turn[t].pc = "idle", NEW resumed \in SUBSET Turns,
           NEW file, Kept(file), Begin(t, resumed, file),
           StoredOK', SettledOK', AgentOK', RestOK',
           HomeOf = SessionOf =>
               LET s == SessionOf[t] IN
               /\ \A c \in Chats \ {s} : stored'[c] = stored[c] /\ settled'[c] = settled[c]
               /\ stored'[s] = file
               /\ settled'[s] \ Agents \subseteq Origins(file)
    PROVE  SessionInv'
<1> DEFINE hist == Append(file, User(t))
           cur == <<Message("system", {}, {})>> \o SubSeq(file, SafeStart(file), Len(file))
                    \o <<RuntimeContext, User(t)>>
           prompted == {a \in Agents : Waiting(a)}
           new == [Idle EXCEPT !.pc = "start", !.hist = hist, !.cur = cur,
                               !.prompted = prompted, !.resumes = resumed]
<1>1. /\ turn' = [u \in Turns |-> IF u = t THEN new
                                  ELSE IF u \in Replaced(t) THEN Ended ELSE turn[u]]
      /\ inbox' = [u \in Turns |-> IF u \in Replaced(t) THEN <<>> ELSE inbox[u]]
      /\ ckpt' = [ckpt EXCEPT ![t] = [msgs |-> hist, completed |-> FALSE]]
  BY DEF Begin, Replaced
<1>2. /\ User(t) \in Messages /\ User(t).role = "user" /\ User(t).calls = {} /\ User(t).of = {t}
      /\ RuntimeContext \in Messages /\ RuntimeContext.role = "context" /\ RuntimeContext.calls = {}
  BY DEF User, RuntimeContext, Message, Messages
<1>3. Kept(hist) /\ hist # <<>> /\ Origins(hist) = Origins(file) \cup {t}
  BY <1>2, KeptAppend
<1>4. Good(cur) /\ Origins(file) \cup {t} \subseteq Origins(cur)
  <2> DEFINE system == Message("system", {}, {})
             context == RuntimeContext
             user == User(t)
             front == <<system>> \o file
  <2>1. system \in Messages /\ system.role # "tool" /\ system.calls = {}
    BY DEF Message, Messages
  <2>2. SubSeq(file, SafeStart(file), Len(file)) = file
    BY SafeStartIsOne DEF Kept, Good
  <2>3. cur = front \o <<context, user>>
    BY <2>2
  <2>4. context \in Messages /\ context.role # "tool" /\ context.calls = {}
    BY <1>2
  <2>5. user \in Messages /\ user.role # "tool" /\ user.calls = {} /\ user.of = {t}
    BY <1>2
  <2> HIDE DEF system, context, user
  <2>6. Good(<<system>>)
    BY <2>1, GoodOne
  <2>7. Good(front) /\ Origins(front) = Origins(<<system>>) \cup Origins(file)
    BY <2>6, GoodConcat DEF Kept
  <2>8. Good(<<context>>) /\ Good(<<user>>) /\ Origins(<<user>>) = {t}
    BY <2>4, <2>5, GoodOne
  <2>9. /\ Good(<<context>> \o <<user>>)
        /\ Origins(<<context>> \o <<user>>) = Origins(<<context>>) \cup Origins(<<user>>)
    BY <2>8, GoodConcat
  <2>10. <<context>> \o <<user>> = <<context, user>>
    BY <2>4, <2>5, TwoInARow
  <2> DEFINE end == <<context, user>>
  <2>11. Good(end) /\ t \in Origins(end)
    BY <2>8, <2>9, <2>10
  <2> HIDE DEF end, front
  <2>12. Good(front \o end) /\ Origins(front \o end) = Origins(front) \cup Origins(end)
    BY <2>7, <2>11, GoodConcat
  <2>. QED
    BY <2>3, <2>7, <2>11, <2>12 DEF end
<1> HIDE DEF hist, cur
<1>5. prompted \in SUBSET Agents /\ hist \in Seq(Messages) /\ cur \in Seq(Messages)
  BY <1>3, <1>4 DEF Good, Kept
<1> HIDE DEF prompted
<1>6. /\ new \in TurnRecord /\ new.pc = "start" /\ new.hist = hist /\ new.cur = cur
      /\ new.heard = {}
  BY <1>5, EndedFacts DEF TurnRecord, Idle
<1>10. Fits(new)
  BY <1>3, <1>4, <1>6 DEF Fits
<1> HIDE DEF new
<1>7. CkptOK'
  BY <1>1, <1>3, Parts, CkptUpdate
<1>8. ~Running(t)
  BY DEF Running
<1>9. HomeOf = SessionOf =>
          LET s == SessionOf[t] IN
          /\ \A c \in Chats \ {s} : stored'[c] = stored[c] /\ settled'[c] = settled[c]
          /\ settled'[s] \ Agents \subseteq Origins(stored'[s])
          /\ (settled'[s] \ Agents) \cup {t} \subseteq Origins(new.hist)
          /\ (settled'[s] \ Agents) \cup {t} \subseteq Origins(new.cur)
  BY <1>3, <1>4, <1>6
<1>. QED
  BY <1>1, <1>6, <1>7, <1>8, <1>9, <1>10, TakesPlace

LEMMA StartKeeps ==
    ASSUME SessionInv, NEW t \in Turns, Start(t)
    PROVE  SessionInv'
<1> DEFINE s == SessionOf[t]
           file == stored[s]
<1>1. StoredOK /\ SettledOK
  BY Parts
<1>2. StoredOK' /\ SettledOK' /\ AgentOK' /\ RestOK' /\ UNCHANGED <<stored, settled>>
  BY <1>1, Untouched DEF Start, StoredOK, SettledOK
<1>3. s \in Chats /\ Kept(file)
  BY <1>1, TurnAssumption DEF StoredOK
<1>4. HomeOf = SessionOf => settled[s] \ Agents \subseteq Origins(file)
  BY <1>3 DEF SessionInv, NothingForgotten, SettledIsStored
<1>5. turn[t].pc = "idle" /\ Begin(t, {}, file) /\ {} \in SUBSET Turns
  BY DEF Start
<1> HIDE DEF file
<1>6. stored'[s] = file
  BY <1>2 DEF file
<1>. QED
  BY <1>2, <1>3, <1>4, <1>5, <1>6, BeginKeeps

LEMMA ResumeKeeps ==
    ASSUME SessionInv, NEW t \in Turns, NEW old \in Turns, Resume(t, old)
    PROVE  SessionInv'
<1> DEFINE s == SessionOf[old]
           file == ckpt[old].msgs
<1>1. StoredOK /\ SettledOK /\ RestOK /\ Kept(file) /\ s \in Chats
  BY Parts, TurnFacts
<1>2. /\ turn[t].pc = "idle" /\ SessionOf[t] = s
      /\ stored' = [stored EXCEPT ![s] = file]
      /\ settled' = [settled EXCEPT ![s] = @ \cap Origins(file)]
      /\ Begin(t, {old}, file) /\ {old} \in SUBSET Turns
      /\ acts < MaxFiles /\ acts' = acts + 1 /\ UNCHANGED <<sent, agent, shown>>
  BY DEF Resume
<1> HIDE DEF file
<1>3. StoredOK'
  BY <1>1, <1>2, StoredUpdate
<1>4. SettledOK'
  BY <1>1, <1>2 DEF SettledOK
<1>5. RestOK' /\ AgentOK'
  BY <1>1, <1>2, Untouched, TurnAssumption DEF RestOK
<1>6. /\ \A c \in Chats \ {s} : stored'[c] = stored[c] /\ settled'[c] = settled[c]
      /\ stored'[s] = file /\ settled'[s] = settled[s] \cap Origins(file)
  BY <1>1, <1>2 DEF StoredOK, SettledOK
<1>. QED
  BY <1>1, <1>2, <1>3, <1>4, <1>5, <1>6, BeginKeeps

-----------------------------------------------------------------------------
(* The theorems *)

LEMMA InitHolds == Init => SessionInv
<1> SUFFICES ASSUME Init PROVE SessionInv
  OBVIOUS
<1>1. <<>> \in Seq(Messages) /\ <<>> \in Seq(Steers) /\ Kept(<<>>) /\ Origins(<<>>) = {}
  BY GoodEmpty, KeptEmpty
<1>2. StoredOK /\ InboxOK /\ SettledOK
  BY <1>1 DEF Init, StoredOK, InboxOK, SettledOK
<1>3. CkptOK
  BY <1>1 DEF Init, CkptOK, NoCheckpoint
<1>4. TurnOK
  BY <1>1, EndedFacts DEF Init, TurnOK
<1>5. AgentOK
  BY DEF Init, AgentOK
<1>6. RestOK
  BY TurnAssumption DEF Init, RestOK
<1>7. NothingForgotten
  <2>1. \A t \in Turns : Remembers(t, turn[t]) /\ ~Running(t)
    BY EndedFacts DEF Init, Remembers, Running
  <2>2. SettledIsStored
    BY DEF Init, SettledIsStored
  <2>. QED
    BY <2>1, <2>2 DEF NothingForgotten, OneRuns
<1>. QED
  BY <1>2, <1>3, <1>4, <1>5, <1>6, <1>7, Parts

LEMMA StepKeeps ==
    ASSUME SessionInv, [Next]_vars
    PROVE  SessionInv'
<1>1. ASSUME NEW t \in Turns, TurnStep(t) PROVE SessionInv'
  BY <1>1, PreLoopKeeps, LlmFailsKeeps, FinalAnswerKeeps, ActivateSkillKeeps, ToolRoundKeeps,
     WaitForAgentsKeeps, SummarizeKeeps, SaveKeeps, FinishKeeps, EndCompactKeeps DEF TurnStep
<1>2. ASSUME NEW t \in Turns, Start(t) \/ BeginCompact(t) \/ Abort(t) PROVE SessionInv'
  BY <1>2, StartKeeps, BeginCompactKeeps, AbortKeeps
<1>3. ASSUME NEW t \in Turns, NEW old \in Turns, Resume(t, old) PROVE SessionInv'
  BY <1>3, ResumeKeeps
<1>4. ASSUME NEW t \in Turns, NEW m \in Steers, Steer(t, m) PROVE SessionInv'
  BY <1>4, SteerKeeps
<1>5. ASSUME NEW c \in Chats, Clear(c) PROVE SessionInv'
  BY <1>5, ClearKeeps
<1>6. ASSUME NEW a \in Agents, AgentEnds(a) \/ AgentDelivers(a) PROVE SessionInv'
  BY <1>6, AgentEndsKeeps, AgentDeliversKeeps
<1>7. CASE UNCHANGED vars
  <2>1. CkptOK' /\ InboxOK' /\ AgentOK' /\ RestOK'
    BY <1>7, Untouched DEF vars
  <2>. QED
    BY <1>7, <2>1, QuietKeeps DEF vars
<1>. QED
  BY <1>1, <1>2, <1>3, <1>4, <1>5, <1>6, <1>7 DEF Next

\* For any turns, tools, chats, agents and limits: every list is a list of
\* messages that begins with one of its own, without the two quirks no list
\* ever holds half a tool round, and where each conversation keeps its own
\* session file the lists of the one turn that may run there stand for all
\* that the file stands for.
THEOREM SessionInvariance == Spec => []SessionInv
<1>1. Init => SessionInv
  BY InitHolds
<1>2. SessionInv /\ [Next]_vars => SessionInv'
  BY StepKeeps
<1>. QED
  BY <1>1, <1>2, PTL DEF Spec

\* What is saved, in the session file or in a checkpoint, can be sent to a
\* provider again, if no tool fails for good and activate_skill comes alone.
THEOREM StoredPairedHolds ==
    ASSUME Quirks = {}
    PROVE  Spec => []StoredPaired
<1>1. SessionInv => StoredPaired
  BY DEF SessionInv, ListsPaired
<1>. QED
  BY <1>1, SessionInvariance, PTL

\* What the LLM is sent is paired as well: safe starts, safe suffixes and whole
\* rounds leave no call without its results.
THEOREM PromptPairedHolds ==
    ASSUME Quirks = {}
    PROVE  Spec => []PromptPaired
<1>1. SessionInv => PromptPaired
  BY DEF SessionInv, ListsPaired
<1>. QED
  BY <1>1, SessionInvariance, PTL

\* Without scheduled jobs that are delivered into another conversation, an
\* exchange that was saved stays in the file or in its summary, whatever is
\* aborted, compacted, cleared, resumed or written by an agent beside it, and
\* whether or not the lists are paired.
THEOREM SettledIsStoredHolds ==
    ASSUME HomeOf = SessionOf
    PROVE  Spec => []SettledIsStored
<1>1. SessionInv => SettledIsStored
  BY DEF SessionInv, NothingForgotten
<1>. QED
  BY <1>1, SessionInvariance, PTL
=============================================================================
