----------------------------- MODULE TopicsLemmas -----------------------------
(***************************************************************************)
(* Lemmas about topics, for every set of levels and device ids: the        *)
(* pattern match is a prefix test, and the subscribe check confines a      *)
(* device to topics that begin like its own.                               *)
(***************************************************************************)
EXTENDS Topics, SequenceTheorems, TLAPS

(* A sequence of more than one element is not a sequence of one.           *)
LEMMA Longer ==
    ASSUME NEW S, NEW s \in Seq(S), NEW l, Len(s) > 1
    PROVE  s # <<l>>
<1>1. Len(<<l>>) = 1
  OBVIOUS
<1>2. \A n : n > 1 => n # 1
  OBVIOUS
<1>3. Len(s) # 1
  BY ONLY <1>2, Len(s) > 1
<1> QED BY ONLY <1>1, <1>3

(* A sequence that is not empty has one element or more.                   *)
LEMMA OneOrMore ==
    ASSUME NEW S, NEW s \in Seq(S), s # <<>>
    PROVE  Len(s) = 1 \/ Len(s) > 1
<1>1. Len(s) \in Nat \ {0}
  BY EmptySeq
<1>2. \A n \in Nat \ {0} : n = 1 \/ n > 1
  OBVIOUS
<1> QED BY ONLY <1>1, <1>2

(* A sequence whose last element is replaced.                              *)
LEMMA LastReplaced ==
    ASSUME NEW S, NEW s \in Seq(S), s # <<>>, NEW v \in S
    PROVE  /\ [s EXCEPT ![Len(s)] = v] \in Seq(S)
           /\ Len([s EXCEPT ![Len(s)] = v]) = Len(s)
           /\ \A i \in 1..Len(s) : [s EXCEPT ![Len(s)] = v][i] = IF i = Len(s) THEN v ELSE s[i]
OBVIOUS

(* Below the last of the numbers 1 to n.                                   *)
LEMMA BelowLast ==
    ASSUME NEW n \in Nat, NEW i \in 1..n
    PROVE  /\ i + 1 \in 1..n => i # n
           /\ \A k \in i..n : k # n => i \in 1..(n - 1)
OBVIOUS

(* A prefix agrees with the sequence on every level it has.                *)
LEMMA PrefixLevels ==
    ASSUME NEW s \in Seq(Level), NEW t \in Seq(Level), IsPrefix(s, t)
    PROVE  Len(s) <= Len(t) /\ \A i \in 1..Len(s) : s[i] = t[i]
<1>1. Len(s) <= Len(t) /\ SubSeq(s, 1, Len(s)) = SubSeq(t, 1, Len(s))
  BY DEF IsPrefix
<1> SUFFICES ASSUME NEW i \in 1..Len(s) PROVE s[i] = t[i]
  BY <1>1
<1>2. SubSeq(s, 1, Len(s))[i] = s[i] /\ SubSeq(t, 1, Len(s))[i] = t[i]
  BY <1>1
<1> QED BY <1>1, <1>2

(* The match is equality, or a test of a prefix under a last "#".          *)
LEMMA MatchIsPrefix ==
    ASSUME NEW p \in Seq(Level), p # <<>>, NEW t \in Seq(Level)
    PROVE  Matches(p, t) <=> p = t \/ (Last(p) = "#" /\ IsPrefix(Front(p), t))
<1>1. CASE Len(p) = 1
  <2>1. Front(p) = <<>>
    BY <1>1 DEF Front
  <2>2. Last(p) = "#" <=> p = <<"#">>
    BY <1>1 DEF Last
  <2>3. IsPrefix(<<>>, t)
    BY DEF IsPrefix
  <2> QED BY <1>1, <2>1, <2>2, <2>3 DEF Matches
<1>2. CASE Len(p) > 1
  <2>1. p # <<"#">>
    BY <1>2, Longer
  <2>2. Front(p) \in Seq(Level)
    BY <1>2 DEF Front
  <2>3. IsPrefix(Front(p), Front(p))
    BY <2>2 DEF IsPrefix
  <2>4. IsPrefix(Front(p), t) <=> t = Front(p) \/ IsStrictPrefix(Front(p), t)
    BY <2>3 DEF IsStrictPrefix
  <2> QED BY <1>2, <2>1, <2>4 DEF Matches
<1> QED BY <1>1, <1>2, OneOrMore

(* What rstrip("/") keeps.                                                 *)
LEMMA Stripped ==
    ASSUME NEW s \in Seq(Level), NEW i \in DOMAIN RstripSlash(s)
    PROVE  /\ i \in 1..Len(s) /\ RstripSlash(s)[i] = s[i]
           /\ \E k \in i..Len(s) : s[k] # ""
<1> DEFINE kept == {j \in DOMAIN s : \E k \in j..Len(s) : s[k] # ""}
<1>1. i \in kept /\ RstripSlash(s)[i] = [j \in kept |-> s[j]][i]
  BY Zenon DEF RstripSlash
<1>2. [j \in kept |-> s[j]][i] = s[i]
  BY <1>1
<1>3. i \in DOMAIN s /\ \E k \in i..Len(s) : s[k] # ""
  BY ONLY <1>1, Zenon
<1>4. DOMAIN s = 1..Len(s)
  BY LenProperties
<1> HIDE DEF kept
<1> QED BY ONLY <1>1, <1>2, <1>3, <1>4

(* Access control, for one pattern and one topic: what a pattern accepted  *)
(* from d matches begins with the topic prefix of d, its last slash left   *)
(* out.                                                                    *)
LEMMA AcceptedBegins ==
    ASSUME NEW d \in Device, NEW p \in Seq(Level), p # <<>>, NEW t \in Seq(Level),
           CheckSubscribeAcl(d, p), Matches(p, t)
    PROVE  Begins(t, AllowedPrefix(d))
<1> DEFINE A == AllowedPrefix(d)
           last == Len(p)
           u == [p EXCEPT ![last] = Unhash[p[last]]]
<1>1. last \in Nat /\ last \in 1..last /\ p[last] \in Level
  <2>1. Len(p) = 1 \/ Len(p) > 1
    BY OneOrMore
  <2> QED BY <2>1
<1>2. /\ u \in Seq(Level) /\ Len(u) = last
      /\ \A k \in 1..last : u[k] = IF k = last THEN Unhash[p[last]] ELSE p[k]
  <2>1. Unhash[p[last]] \in Level
    BY <1>1, LevelAssumption
  <2> QED BY <2>1, LastReplaced
<1>3. Begins(RstripSlash(u), A)
  BY DEF CheckSubscribeAcl, StripWildcard
<1> SUFFICES ASSUME NEW i \in DOMAIN A
             PROVE  /\ i \in DOMAIN t
                    /\ <<t[i], A[i]>> \in StartsWith
                    /\ i + 1 \in DOMAIN A => t[i] = A[i]
  BY DEF Begins
<1> HIDE DEF A, u
<1>4. /\ i \in DOMAIN RstripSlash(u)
      /\ <<RstripSlash(u)[i], A[i]>> \in StartsWith
      /\ i + 1 \in DOMAIN A => i + 1 \in DOMAIN RstripSlash(u) /\ RstripSlash(u)[i] = A[i]
  BY <1>3 DEF Begins
<1>5. /\ i \in 1..last
      /\ <<u[i], A[i]>> \in StartsWith
      /\ i + 1 \in DOMAIN A => i + 1 \in 1..last /\ u[i] = A[i]
      /\ \E k \in i..last : u[k] # ""
  BY <1>2, <1>4, Stripped
<1>6. CASE p = t
  <2>1. p[i] \in Level /\ A[i] \in Level /\ u[i] \in Level /\ <<p[i], u[i]>> \in StartsWith
    BY <1>5, <1>2, <1>1, LevelAssumption
  <2>2. <<p[i], A[i]>> \in StartsWith
    BY <2>1, <1>5, LevelAssumption
  <2>3. i + 1 \in 1..last => i # last
    BY ONLY <1>1, <1>5, BelowLast
  <2>4. i \in DOMAIN t
    BY <1>5, <1>6, LenProperties
  <2>5. i # last => u[i] = t[i]
    BY ONLY <1>5, <1>2, <1>6
  <2> QED BY <1>5, <1>6, <2>2, <2>3, <2>4, <2>5
<1>7. CASE Last(p) = "#" /\ IsPrefix(Front(p), t)
  <2>1. u[last] = ""
    BY <1>1, <1>2, <1>7, LevelAssumption DEF Last
  <2>2. i \in 1..(last - 1)
    <3>1. PICK k \in i..last : u[k] # ""
      BY <1>5
    <3>2. k # last
      BY <2>1, <3>1
    <3> QED BY <1>1, <1>5, <3>2, BelowLast
  <2>3. Front(p) \in Seq(Level) /\ Len(Front(p)) = last - 1 /\ Front(p)[i] = p[i]
    BY <1>1, <2>2 DEF Front
  <2>4. last - 1 <= Len(t) /\ t[i] = p[i]
    BY <1>7, <2>2, <2>3, PrefixLevels
  <2>5. u[i] = p[i] /\ i \in DOMAIN t
    BY <1>2, <2>2, <2>4
  <2> QED BY <1>5, <2>4, <2>5
<1> QED BY <1>6, <1>7, MatchIsPrefix
=============================================================================
