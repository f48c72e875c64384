--------------------------- MODULE TerminalProofs ---------------------------
(* What Host promises of the output of a session, for any output and any      *)
(* limits: the signals found in it are those that a reading of the whole      *)
(* finds, and a client that attaches gets the modes that it has set.          *)
EXTENDS Host, Iteration, SequenceTheorems

\* The part that moves is chosen at the start.
LEMMA PartStays == [HostNext]_HostVars => part' = part
BY DEF HostNext, HostVars, Moves

\* A step of the two parts that read the output.
LEMMA TerminalSteps ==
  ASSUME [HostNext]_HostVars
  PROVE  /\ part = "bells" => [Signals!Next]_bellVars
         /\ part = "modes" => [Terminal!Next]_modeVars
BY DEF HostNext, HostVars, Moves

-----------------------------------------------------------------------------
(* The places that are escaped *)

\* The n escapes before place i are all that stand next to each other there.
IsRunOfEscapes(text, i, n) ==
  /\ n \in 0..(i - 1)
  /\ \A j \in (i - n)..(i - 1) : text[j] = "ESC"
  /\ n = i - 1 \/ text[i - n - 1] # "ESC"

LEMMA RunOfEscapesIsUnique ==
  ASSUME NEW text, NEW i \in Nat \ {0}, NEW m, NEW n,
         IsRunOfEscapes(text, i, m), IsRunOfEscapes(text, i, n)
  PROVE  m = n
<1>1. m \in Nat /\ n \in Nat /\ m <= i - 1 /\ n <= i - 1
  BY DEF IsRunOfEscapes
<1>2. ASSUME m < n PROVE FALSE
  <2>1. text[i - m - 1] # "ESC" /\ i - m - 1 \in (i - n)..(i - 1)
    BY <1>1, <1>2 DEF IsRunOfEscapes
  <2> QED
    BY <2>1 DEF IsRunOfEscapes
<1>3. ASSUME n < m PROVE FALSE
  <2>1. text[i - n - 1] # "ESC" /\ i - n - 1 \in (i - m)..(i - 1)
    BY <1>1, <1>3 DEF IsRunOfEscapes
  <2> QED
    BY <2>1 DEF IsRunOfEscapes
<1> QED
  BY <1>1, <1>2, <1>3

LEMMA RunsOfEscapesExist ==
  ASSUME NEW text, NEW i \in Nat \ {0}
  PROVE  \E n : IsRunOfEscapes(text, i, n)
<1> DEFINE Counted == {k \in 0..i : k # 0 => \E n : IsRunOfEscapes(text, k, n)}
<1>1. 0 \in Counted
  OBVIOUS
<1>2. ASSUME NEW k \in 0..i, k \in Counted, k # i PROVE k + 1 \in Counted
  <2>0. k + 1 \in 0..i /\ k \in Nat
    BY <1>2
  <2>1. CASE k = 0
    <3>1. IsRunOfEscapes(text, 1, 0)
      BY DEF IsRunOfEscapes
    <3> QED
      BY <2>0, <2>1, <3>1
  <2>2. CASE k # 0 /\ text[k] # "ESC"
    <3>1. IsRunOfEscapes(text, k + 1, 0)
      BY <2>0, <2>2 DEF IsRunOfEscapes
    <3> QED
      BY <2>0, <3>1
  <2>3. CASE k # 0 /\ text[k] = "ESC"
    <3>1. PICK n : IsRunOfEscapes(text, k, n)
      BY <1>2, <2>3
    <3>2. IsRunOfEscapes(text, k + 1, n + 1)
      BY <2>0, <2>3, <3>1 DEF IsRunOfEscapes
    <3> QED
      BY <2>0, <3>2
  <2> QED
    BY <2>1, <2>2, <2>3
<1>3. i \in Counted
  <2> HIDE DEF Counted
  <2> QED
    BY <1>1, <1>2, Climb
<1> QED
  BY <1>3

\* So RunBefore is their number.
LEMMA RunOfEscapesIs ==
  ASSUME NEW text, NEW i \in Nat \ {0}
  PROVE  IsRunOfEscapes(text, i, Signals!RunBefore(text, i))
<1>1. \E n : IsRunOfEscapes(text, i, n)
  BY RunsOfEscapesExist
<1>2. \E n \in 0..(i - 1) : /\ \A j \in (i - n)..(i - 1) : text[j] = "ESC"
                            /\ n = i - 1 \/ text[i - n - 1] # "ESC"
  BY <1>1 DEF IsRunOfEscapes
<1> QED
  BY <1>2 DEF IsRunOfEscapes, Signals!RunBefore

\* What follows an escape is escaped, unless the escape is.
LEMMA EscapedNext ==
  ASSUME NEW text, NEW i \in Nat \ {0}
  PROVE  /\ ~Signals!IsEscaped(text, 1)
         /\ Signals!IsEscaped(text, i + 1) <=> text[i] = "ESC" /\ ~Signals!IsEscaped(text, i)
<1>1. IsRunOfEscapes(text, i + 1, Signals!RunBefore(text, i + 1))
  BY RunOfEscapesIs
<1>2. ~Signals!IsEscaped(text, 1)
  <2>1. IsRunOfEscapes(text, 1, Signals!RunBefore(text, 1))
    BY RunOfEscapesIs
  <2>2. Signals!RunBefore(text, 1) = 0
    BY <2>1 DEF IsRunOfEscapes
  <2> QED
    BY <2>2 DEF Signals!IsEscaped
<1>3. CASE text[i] # "ESC"
  <2>1. IsRunOfEscapes(text, i + 1, 0)
    BY <1>3 DEF IsRunOfEscapes
  <2>2. Signals!RunBefore(text, i + 1) = 0
    BY <1>1, <2>1, RunOfEscapesIsUnique
  <2> QED
    BY <1>2, <1>3, <2>2 DEF Signals!IsEscaped
<1>4. CASE text[i] = "ESC"
  <2> DEFINE r == Signals!RunBefore(text, i)
  <2>1. IsRunOfEscapes(text, i, r)
    BY RunOfEscapesIs
  <2>2. IsRunOfEscapes(text, i + 1, r + 1) /\ r \in Nat
    BY <1>4, <2>1 DEF IsRunOfEscapes
  <2>3. Signals!RunBefore(text, i + 1) = r + 1
    BY <1>1, <2>2, RunOfEscapesIsUnique
  <2>4. (r + 1) % 2 = 1 <=> r % 2 # 1
    <3> HIDE DEF r
    <3> QED
      BY <2>2
  <2> QED
    BY <1>2, <1>4, <2>3, <2>4 DEF Signals!IsEscaped
<1> QED
  BY <1>3, <1>4

-----------------------------------------------------------------------------
(* Two texts that begin alike are read alike so far *)

BeginAlike(text, more, n) == \A j \in 1..n : text[j] = more[j]

LEMMA EscapedAlike ==
  ASSUME NEW text, NEW more, NEW n \in Nat, BeginAlike(text, more, n)
  PROVE  \A i \in 1..(n + 1) : Signals!IsEscaped(text, i) <=> Signals!IsEscaped(more, i)
<1> DEFINE Same == {k \in 0..n : Signals!IsEscaped(text, k + 1) <=> Signals!IsEscaped(more, k + 1)}
<1>1. 0 \in Same
  BY EscapedNext
<1>2. ASSUME NEW k \in 0..n, k \in Same, k # n PROVE k + 1 \in Same
  <2>1. k + 1 \in 1..n /\ k + 1 \in 0..n /\ k + 1 \in Nat \ {0}
    BY <1>2
  <2>2. text[k + 1] = more[k + 1]
    BY <2>1 DEF BeginAlike
  <2>3. Signals!IsEscaped(text, (k + 1) + 1) <=> text[k + 1] = "ESC" /\ ~Signals!IsEscaped(text, k + 1)
    BY <2>1, EscapedNext
  <2>4. Signals!IsEscaped(more, (k + 1) + 1) <=> more[k + 1] = "ESC" /\ ~Signals!IsEscaped(more, k + 1)
    BY <2>1, EscapedNext
  <2> QED
    BY <1>2, <2>1, <2>2, <2>3, <2>4
<1>3. \A k \in 0..n : k \in Same
  <2> HIDE DEF Same
  <2> QED
    BY <1>1, <1>2, ClimbAll
<1> TAKE i \in 1..(n + 1)
<1>4. i - 1 \in 0..n /\ (i - 1) + 1 = i
  OBVIOUS
<1> QED
  BY <1>3, <1>4

LEMMA MarksAlike ==
  ASSUME NEW text, NEW more, NEW n \in Nat, BeginAlike(text, more, n)
  PROVE  /\ \A i \in 1..n : /\ Signals!Opens(text, i) <=> Signals!Opens(more, i)
                            /\ Signals!Ends(text, i) <=> Signals!Ends(more, i)
         /\ \A i \in 1..(n + 1) : Signals!Opening(text, i) = Signals!Opening(more, i)
<1>1. ASSUME NEW i \in 1..n
      PROVE  /\ Signals!Opens(text, i) <=> Signals!Opens(more, i)
             /\ Signals!Ends(text, i) <=> Signals!Ends(more, i)
  <2>1. i \in 1..(n + 1) /\ text[i] = more[i]
    BY DEF BeginAlike
  <2>2. Signals!IsEscaped(text, i) <=> Signals!IsEscaped(more, i)
    BY <2>1, EscapedAlike
  <2> QED
    BY <2>1, <2>2, Zenon DEF Signals!Opens, Signals!Ends
<1>2. ASSUME NEW i \in 1..(n + 1)
      PROVE  Signals!Opening(text, i) = Signals!Opening(more, i)
  <2>1. \A j \in 1..(i - 1) : j \in 1..n /\ \A k \in (j + 1)..(i - 1) : k \in 1..n
    OBVIOUS
  <2> QED
    BY <1>1, <2>1 DEF Signals!Opening
<1> QED
  BY <1>1, <1>2

-----------------------------------------------------------------------------
(* The payload *)

\* Contents is the function its recursion describes.
LEMMA ContentsIs ==
  ASSUME NEW text \in Seq(Signals!Tokens), NEW j \in Nat
  PROVE  LET f == Signals!Contents(text, j) IN
         \A i \in 0..Len(text) :
           /\ f[i] \in Seq(Signals!Tokens)
           /\ i <= j => f[i] = <<>>
           /\ ~(i <= j) => f[i] = IF Signals!IsEscaped(text, i) \/ text[i] = "ESC" THEN f[i - 1]
                                  ELSE Append(f[i - 1], text[i])
<1> DEFINE N == Len(text)
           U == Seq(Signals!Tokens)
           skip(i) == Signals!IsEscaped(text, i) \/ text[i] = "ESC"
           more(i, s) == IF skip(i) THEN s ELSE Append(s, text[i])
           step == [i \in 0..N |-> [s \in U |-> IF i <= j THEN <<>> ELSE more(i, s)]]
           Read(f) == f = [i \in 0..N |-> IF i <= j THEN <<>> ELSE more(i, f[i - 1])]
<1>1. N \in Nat /\ <<>> \in U
  OBVIOUS
<1>2. \A i \in 0..N, s \in U : i # 0 => more(i, s) \in U
  <2> TAKE i \in 0..N, s \in U
  <2>1. i # 0 => text[i] \in Signals!Tokens
    OBVIOUS
  <2>2. i # 0 => Append(s, text[i]) \in U
    BY <2>1
  <2> HIDE DEF skip, U, N
  <2> QED
    BY <2>2, Zenon
<1> HIDE DEF N, U, more
<1>3. IsStepOn(step, N, U)
  <2> SUFFICES ASSUME NEW i \in 0..N PROVE step[i] \in [U -> U]
    BY DEF IsStepOn
  <2>1. ~(i <= j) => i # 0
    BY <1>1
  <2>2. \A s \in U : (IF i <= j THEN <<>> ELSE more(i, s)) \in U
    BY <1>1, <1>2, <2>1
  <2> QED
    BY <2>2
<1>4. PICK f : Iterates(f, N, U, <<>>, step)
  <2> HIDE DEF step
  <2> QED
    BY <1>1, <1>3, StepsIterate
<1>5. \A i \in 0..N : f[i] = IF i <= j THEN <<>> ELSE more(i, f[i - 1])
  <2> SUFFICES ASSUME NEW i \in 0..N PROVE f[i] = IF i <= j THEN <<>> ELSE more(i, f[i - 1])
    OBVIOUS
  <2>1. CASE i = 0
    BY <1>4, <2>1 DEF Iterates
  <2>2. CASE i # 0
    <3>1. f[i - 1] \in U
      BY <1>1, <1>4, <2>2 DEF Iterates
    <3>2. f[i] = step[i][f[i - 1]]
      <4> HIDE DEF step
      <4> QED
        BY <1>4, <2>2 DEF Iterates
    <3> QED
      BY <3>1, <3>2
  <2> QED
    BY <2>1, <2>2
<1>6. Read(f)
  <2> HIDE DEF step
  <2> QED
    BY <1>4, <1>5 DEF Iterates
<1> DEFINE g == Signals!Contents(text, j)
<1>7. Read(g)
  <2>1. \E h : Read(h)
    BY <1>6
  <2> QED
    BY <2>1, Zenon DEF Signals!Contents, N, more
<1> HIDE DEF g
<1>8. \A i \in 0..N : g[i] = IF i <= j THEN <<>> ELSE more(i, g[i - 1])
  BY <1>7, Zenon
<1>9. \A i \in 0..N : g[i] \in U
  <2> DEFINE Typed == {i \in 0..N : g[i] \in U}
  <2>1. 0 \in Typed
    BY <1>1, <1>8
  <2>2. ASSUME NEW i \in 0..N, i \in Typed, i # N PROVE i + 1 \in Typed
    <3>1. i + 1 \in 0..N /\ i + 1 # 0 /\ (i + 1) - 1 = i
      BY <1>1, <2>2
    <3>2. g[i + 1] = IF i + 1 <= j THEN <<>> ELSE more(i + 1, g[i])
      BY <1>8, <3>1
    <3>3. more(i + 1, g[i]) \in U
      BY <1>2, <2>2, <3>1
    <3> QED
      BY <1>1, <3>1, <3>2, <3>3
  <2> HIDE DEF Typed
  <2>3. \A i \in 0..N : i \in Typed
    BY <1>1, <2>1, <2>2, ClimbAll
  <2> QED
    BY <2>3 DEF Typed
<1> QED
  BY <1>8, <1>9, Zenon DEF g, N, U, more

\* What comes later changes nothing of the contents.
LEMMA ContentsAlike ==
  ASSUME NEW text \in Seq(Signals!Tokens), NEW more \in Seq(Signals!Tokens),
         NEW n \in Nat,
         n <= Len(text), n <= Len(more), BeginAlike(text, more, n), NEW j \in Nat
  PROVE  \A i \in 0..n : Signals!Contents(text, j)[i] = Signals!Contents(more, j)[i]
<1> DEFINE f == Signals!Contents(text, j)
           g == Signals!Contents(more, j)
<1>1. \A i \in 0..n : i \in 0..Len(text) /\ i \in 0..Len(more)
  OBVIOUS
<1>2. \A i \in 0..n :
        /\ i <= j => f[i] = <<>>
        /\ ~(i <= j) => f[i] = IF Signals!IsEscaped(text, i) \/ text[i] = "ESC" THEN f[i - 1]
                               ELSE Append(f[i - 1], text[i])
  BY <1>1, ContentsIs
<1>3. \A i \in 0..n :
        /\ i <= j => g[i] = <<>>
        /\ ~(i <= j) => g[i] = IF Signals!IsEscaped(more, i) \/ more[i] = "ESC" THEN g[i - 1]
                               ELSE Append(g[i - 1], more[i])
  BY <1>1, ContentsIs
<1> HIDE DEF f, g
<1>4. f[0] = g[0]
  BY <1>2, <1>3
<1>5. ASSUME NEW i \in 0..n, i # n, f[i] = g[i] PROVE f[i + 1] = g[i + 1]
  <2>1. i + 1 \in 1..n /\ i + 1 \in 0..n /\ (i + 1) - 1 = i /\ i + 1 \in 1..(n + 1)
    BY <1>5
  <2>2. text[i + 1] = more[i + 1]
    BY <2>1 DEF BeginAlike
  <2>3. Signals!IsEscaped(text, i + 1) <=> Signals!IsEscaped(more, i + 1)
    BY <2>1, EscapedAlike
  <2>4. CASE i + 1 <= j
    BY <1>2, <1>3, <2>1, <2>4
  <2>5. CASE ~(i + 1 <= j)
    <3>1. f[i + 1] = IF Signals!IsEscaped(text, i + 1) \/ text[i + 1] = "ESC" THEN f[i]
                     ELSE Append(f[i], text[i + 1])
      BY <1>2, <2>1, <2>5
    <3>2. g[i + 1] = IF Signals!IsEscaped(more, i + 1) \/ more[i + 1] = "ESC" THEN g[i]
                     ELSE Append(g[i], more[i + 1])
      BY <1>3, <2>1, <2>5
    <3> QED
      BY <1>5, <2>2, <2>3, <3>1, <3>2, Zenon
  <2> QED
    BY <2>4, <2>5
<1>6. \A i \in 0..n : f[i] = g[i]
  <2>1. \A i \in 0..n : i # n /\ f[i] = g[i] => f[i + 1] = g[i + 1]
    BY <1>5
  <2> QED
    BY ONLY n \in Nat, <1>4, <2>1, StepsAgree, ZenonT(60)
<1> QED
  BY <1>6 DEF f, g

\* Nor of what is notified.
LEMMA NotifiedAlike ==
  ASSUME NEW text \in Seq(Signals!Tokens), NEW more \in Seq(Signals!Tokens),
         NEW n \in Nat,
         n <= Len(text), n <= Len(more), BeginAlike(text, more, n), NEW i \in 1..n
  PROVE  Signals!NotifiedAt(text, i) = Signals!NotifiedAt(more, i)
<1>1. Signals!Opening(text, i) = Signals!Opening(more, i)
      /\ (Signals!Ends(text, i) <=> Signals!Ends(more, i))
  BY MarksAlike
<1>2. \A j \in Signals!Opening(text, i) : Signals!Payload(text, j, i) = Signals!Payload(more, j, i)
  <2> TAKE j \in Signals!Opening(text, i)
  <2>1. j \in Nat /\ i - 1 \in 0..n
    BY DEF Signals!Opening
  <2>2. Signals!Contents(text, j)[i - 1] = Signals!Contents(more, j)[i - 1]
    BY <2>1, ContentsAlike
  <2> QED
    BY <2>2 DEF Signals!Payload
<1> QED
  BY <1>1, <1>2 DEF Signals!NotifiedAt

\* The sequence that is open after place i.
LEMMA OpeningNext ==
  ASSUME NEW text, NEW i \in Nat \ {0}
  PROVE  /\ Signals!Opening(text, 1) = {}
         /\ Signals!Opening(text, i + 1) =
              IF Signals!Opens(text, i) THEN {i}
              ELSE IF Signals!Ends(text, i) THEN {} ELSE Signals!Opening(text, i)
<1>1. Signals!Opening(text, 1) = {}
  BY DEF Signals!Opening
<1> DEFINE Latest(j, n) == /\ Signals!Opens(text, j)
                           /\ \A k \in (j + 1)..n : ~Signals!Opens(text, k) /\ ~Signals!Ends(text, k)
<1>2. /\ \A j : j \in Signals!Opening(text, i + 1) <=> j \in 1..i /\ Latest(j, i)
      /\ \A j : j \in Signals!Opening(text, i) <=> j \in 1..(i - 1) /\ Latest(j, i - 1)
  BY DEF Signals!Opening
<1>3. Latest(i, i) <=> Signals!Opens(text, i)
  OBVIOUS
<1>4. \A j \in 1..(i - 1) :
        Latest(j, i) <=> /\ Latest(j, i - 1) /\ ~Signals!Opens(text, i) /\ ~Signals!Ends(text, i)
  <2> TAKE j \in 1..(i - 1)
  <2>1. (j + 1)..i = ((j + 1)..(i - 1)) \cup {i}
    OBVIOUS
  <2> QED
    BY <2>1, Zenon
<1> HIDE DEF Latest
<1>5. \A j : j \in 1..i <=> j \in 1..(i - 1) \/ j = i
  OBVIOUS
<1>6. CASE Signals!Opens(text, i)
  <2>1. \A j : j \in Signals!Opening(text, i + 1) <=> j = i
    BY <1>2, <1>3, <1>4, <1>5, <1>6
  <2> QED
    BY <1>1, <1>6, <2>1
<1>7. CASE ~Signals!Opens(text, i)
  <2>1. \A j : j \in Signals!Opening(text, i + 1) <=> j \in Signals!Opening(text, i) /\ ~Signals!Ends(text, i)
    BY <1>2, <1>3, <1>4, <1>5, <1>7
  <2> QED
    BY <1>1, <1>7, <2>1
<1> QED
  BY <1>6, <1>7

\* What is kept of a payload after one more token.
LEMMA PayloadNext ==
  ASSUME NEW text \in Seq(Signals!Tokens), NEW i \in 1..Len(text), NEW j \in Nat,
         MaxOSC \in Nat
  PROVE  /\ j = i => Signals!Payload(text, j, i + 1) = <<>>
         /\ j < i =>
              Signals!Payload(text, j, i + 1) =
                LET p == Signals!Payload(text, j, i) IN
                IF Signals!IsEscaped(text, i) \/ text[i] = "ESC" \/ ~(Len(p) < MaxOSC) THEN p
                ELSE Append(p, text[i])
<1> DEFINE f == Signals!Contents(text, j)
           Kept(s) == SubSeq(s, 1, IF Len(s) < MaxOSC THEN Len(s) ELSE MaxOSC)
<1>1. /\ f[i] \in Seq(Signals!Tokens) /\ f[i - 1] \in Seq(Signals!Tokens)
      /\ i <= j => f[i] = <<>>
      /\ ~(i <= j) => f[i] = IF Signals!IsEscaped(text, i) \/ text[i] = "ESC" THEN f[i - 1]
                             ELSE Append(f[i - 1], text[i])
  <2>1. i \in 0..Len(text) /\ i - 1 \in 0..Len(text)
    OBVIOUS
  <2> QED
    BY <2>1, ContentsIs
<1>2. Signals!Payload(text, j, i + 1) = Kept(f[i]) /\ Signals!Payload(text, j, i) = Kept(f[i - 1])
  <2>1. (i + 1) - 1 = i
    OBVIOUS
  <2> QED
    BY <2>1 DEF Signals!Payload
<1>3. Kept(<<>>) = <<>>
  OBVIOUS
<1>4. \A s \in Seq(Signals!Tokens), b \in Signals!Tokens :
        Kept(Append(s, b)) = IF Len(Kept(s)) < MaxOSC THEN Append(Kept(s), b) ELSE Kept(s)
  <2> TAKE s \in Seq(Signals!Tokens), b \in Signals!Tokens
  <2> DEFINE r == Append(s, b)
  <2>0. Len(s) \in Nat /\ r \in Seq(Signals!Tokens) /\ Len(r) = Len(s) + 1
        /\ r[Len(s) + 1] = b /\ \A k \in 1..Len(s) : r[k] = s[k]
    OBVIOUS
  <2> HIDE DEF r
  <2>1. CASE Len(s) < MaxOSC
    <3>1. Kept(s) = s
      BY <2>1
    <3>2. Kept(r) = SubSeq(r, 1, Len(r))
      BY <2>0, <2>1
    <3>3. SubSeq(r, 1, Len(r)) = r
      BY <2>0
    <3> HIDE DEF Kept
    <3> QED
      BY <2>1, <3>1, <3>2, <3>3 DEF r
  <2>2. CASE ~(Len(s) < MaxOSC)
    <3>1. Kept(s) = SubSeq(s, 1, MaxOSC)
      BY <2>2
    <3>2. Kept(r) = SubSeq(r, 1, MaxOSC)
      BY <2>0, <2>2
    <3>3. /\ SubSeq(r, 1, MaxOSC) \in Seq(Signals!Tokens) /\ Len(SubSeq(r, 1, MaxOSC)) = MaxOSC
          /\ \A k \in 1..MaxOSC : SubSeq(r, 1, MaxOSC)[k] = r[k]
      BY <2>0, <2>2
    <3>4. /\ SubSeq(s, 1, MaxOSC) \in Seq(Signals!Tokens) /\ Len(SubSeq(s, 1, MaxOSC)) = MaxOSC
          /\ \A k \in 1..MaxOSC : SubSeq(s, 1, MaxOSC)[k] = s[k]
      BY <2>0, <2>2
    <3>5. SubSeq(r, 1, MaxOSC) = SubSeq(s, 1, MaxOSC)
      <4> DEFINE p == SubSeq(r, 1, MaxOSC)
                 q == SubSeq(s, 1, MaxOSC)
      <4>1. \A k \in 1..MaxOSC : p[k] = q[k]
        BY <2>0, <2>2, <3>3, <3>4
      <4>2. /\ p \in Seq(Signals!Tokens) /\ Len(p) = MaxOSC
            /\ q \in Seq(Signals!Tokens) /\ Len(q) = MaxOSC
        BY <3>3, <3>4
      <4> HIDE DEF p, q
      <4>3. p = q
        BY <4>1, <4>2
      <4> QED
        BY <4>3 DEF p, q
    <3>6. ~(MaxOSC < MaxOSC)
      OBVIOUS
    <3> HIDE DEF Kept
    <3>7. Kept(r) = Kept(s)
      BY <3>1, <3>2, <3>5
    <3>8. ~(Len(Kept(s)) < MaxOSC)
      BY <3>1, <3>4, <3>6, Zenon
    <3> QED
      BY <3>7, <3>8, Zenon DEF r
  <2> QED
    BY <2>1, <2>2
<1>5. Len(Kept(f[i - 1])) < MaxOSC \/ ~(Len(Kept(f[i - 1])) < MaxOSC)
  OBVIOUS
<1> HIDE DEF Kept, f
<1>6. text[i] \in Signals!Tokens
  OBVIOUS
<1>7. ASSUME j = i PROVE Signals!Payload(text, j, i + 1) = <<>>
  BY <1>1, <1>2, <1>3, <1>7
<1>8. ASSUME j < i
      PROVE  Signals!Payload(text, j, i + 1) =
               LET p == Signals!Payload(text, j, i) IN
               IF Signals!IsEscaped(text, i) \/ text[i] = "ESC" \/ ~(Len(p) < MaxOSC) THEN p
               ELSE Append(p, text[i])
  <2>1. f[i] = IF Signals!IsEscaped(text, i) \/ text[i] = "ESC" THEN f[i - 1]
               ELSE Append(f[i - 1], text[i])
    BY <1>1, <1>8
  <2>2. CASE Signals!IsEscaped(text, i) \/ text[i] = "ESC"
    BY <1>2, <2>1, <2>2
  <2>3. CASE ~(Signals!IsEscaped(text, i) \/ text[i] = "ESC")
    <3>1. f[i] = Append(f[i - 1], text[i])
      BY <2>1, <2>3
    <3>2. Kept(f[i]) = IF Len(Kept(f[i - 1])) < MaxOSC THEN Append(Kept(f[i - 1]), text[i])
                       ELSE Kept(f[i - 1])
      BY <1>1, <1>4, <1>6, <3>1
    <3> QED
      BY <1>2, <2>3, <3>2
  <2> QED
    BY <2>2, <2>3
<1> QED
  BY <1>7, <1>8

-----------------------------------------------------------------------------
(* The bell detector keeps up with that reading *)

\* What the bell detector holds.
BellsInv == part = "bells" => Signals!TypeOK

\* bell.go:76-120, for one byte, through a sequence of any length.
LEMMA BellsTyped == ASSUME BellsInv, [HostNext]_HostVars PROVE BellsInv'
<1> SUFFICES ASSUME part = "bells", Signals!TypeOK, [Signals!Next]_bellVars
             PROVE  Signals!TypeOK'
  BY PartStays, TerminalSteps DEF BellsInv
<1> USE DEF Signals!TypeOK
<1>1. MaxOSC \in Nat
  BY HostAssumption
<1>2. CASE UNCHANGED bellVars
  BY <1>2 DEF bellVars
<1>3. ASSUME NEW b \in Signals!Tokens, Signals!Output(b) PROVE Signals!TypeOK'
  <2>1. bellOutput' \in Seq(Signals!Tokens)
    BY <1>3 DEF Signals!Output
  <2>2. Signals!Process(b, Len(bellOutput) + 1)
    BY <1>3 DEF Signals!Output
  <2> DEFINE n == Len(bellOutput) + 1
  <2>3. bellAfterEscape' \in BOOLEAN /\ bellInOSC' \in BOOLEAN
        /\ bellOscBuf' \in {bellOscBuf, <<>>, IF Len(bellOscBuf) < MaxOSC
                                             THEN Append(bellOscBuf, b) ELSE bellOscBuf}
    <3> HIDE DEF n
    <3>1. CASE bellAfterEscape
      <4>1. Signals!Escaped(b, n)
        BY <2>2, <3>1 DEF Signals!Process, n
      <4>2. CASE b = "]"
        BY <4>1, <4>2, Zenon DEF Signals!Escaped
      <4>3. CASE b # "]" /\ b = "\\" /\ bellInOSC
        BY <4>1, <4>3 DEF Signals!Escaped, Signals!EndOSC
      <4>4. CASE b # "]" /\ ~(b = "\\" /\ bellInOSC)
        BY <4>1, <4>4 DEF Signals!Escaped
      <4> QED
        BY <4>2, <4>3, <4>4
    <3>2. CASE ~bellAfterEscape /\ b = "ESC"
      <4>1. bellAfterEscape' = TRUE /\ bellInOSC' = bellInOSC /\ bellOscBuf' = bellOscBuf
        BY <2>2, <3>2 DEF Signals!Process
      <4> QED
        BY <4>1, Zenon
    <3>3. CASE ~bellAfterEscape /\ b = "BEL"
      <4>1. Signals!Bell(n)
        BY <2>2, <3>3 DEF Signals!Process, n
      <4> QED
        BY <4>1 DEF Signals!Bell, Signals!EndOSC
    <3>4. CASE ~bellAfterEscape /\ b # "ESC" /\ b # "BEL"
      <4>1. Signals!Plain(b)
        BY <2>2, <3>4 DEF Signals!Process
      <4> QED
        BY <4>1 DEF Signals!Plain
    <3> QED
      BY <3>1, <3>2, <3>3, <3>4
  <2>4. bellOscBuf' \in Seq(Signals!Tokens) /\ Len(bellOscBuf') <= MaxOSC
    <3>1. Append(bellOscBuf, b) \in Seq(Signals!Tokens)
          /\ Len(Append(bellOscBuf, b)) = Len(bellOscBuf) + 1
      OBVIOUS
    <3>2. <<>> \in Seq(Signals!Tokens) /\ Len(<<>>) = 0 /\ Len(bellOscBuf) \in Nat
      OBVIOUS
    <3>3. Len(bellOscBuf) < MaxOSC => Len(bellOscBuf) + 1 <= MaxOSC
      BY <1>1, <3>2
    <3>4. Len(bellOscBuf) <= MaxOSC /\ 0 <= MaxOSC
      BY <1>1
    <3>5. CASE bellOscBuf' = bellOscBuf
      BY <3>4, <3>5
    <3>6. CASE bellOscBuf' = <<>>
      BY <3>2, <3>4, <3>6
    <3>7. CASE Len(bellOscBuf) < MaxOSC /\ bellOscBuf' = Append(bellOscBuf, b)
      BY <3>1, <3>3, <3>7
    <3> QED
      BY <2>3, <3>5, <3>6, <3>7
  <2> QED
    BY <2>1, <2>3, <2>4
<1> QED
  BY <1>2, <1>3 DEF Signals!Next

\* What has been found agrees with a reading of the whole output, and the state of the
\* automaton with where that reading stands.
FoundInv ==
  part = "bells" =>
    LET next == Len(bellOutput) + 1 IN
    /\ Signals!TypeOK
    /\ bellAfterEscape <=> Signals!IsEscaped(bellOutput, next)
    /\ bellInOSC <=> Signals!Opening(bellOutput, next) # {}
    /\ \A j \in Signals!Opening(bellOutput, next) : bellOscBuf = Signals!Payload(bellOutput, j, next)
    /\ ~bellInOSC => bellOscBuf = <<>>
    /\ Signals!SignalsAreFound

\* A text with one more token.
LEMMA OneMore ==
  ASSUME NEW text \in Seq(Signals!Tokens), NEW b \in Signals!Tokens
  PROVE  LET more == Append(text, b)
             n == Len(text) IN
         /\ more \in Seq(Signals!Tokens) /\ n \in Nat /\ Len(more) = n + 1 /\ more[n + 1] = b
         /\ BeginAlike(text, more, n)
BY DEF BeginAlike

LEMMA BellsNext ==
  ASSUME NEW text \in Seq(Signals!Tokens), NEW b \in Signals!Tokens
  PROVE  LET n == Len(text) + 1 IN
         Signals!Bells(Append(text, b)) =
           Signals!Bells(text) \cup
             {i \in {n} : /\ b = "BEL" /\ ~Signals!IsEscaped(text, n)
                          /\ Signals!Opening(text, n) = {}}
<1> DEFINE more == Append(text, b)
           n == Len(text)
           Rings(t, i) == /\ t[i] = "BEL" /\ ~Signals!IsEscaped(t, i)
                          /\ Signals!Opening(t, i) = {}
<1>1. /\ more \in Seq(Signals!Tokens) /\ n \in Nat /\ Len(more) = n + 1 /\ more[n + 1] = b
      /\ BeginAlike(text, more, n)
  BY OneMore
<1>2. DOMAIN more = 1..(n + 1) /\ DOMAIN text = 1..n
  BY <1>1
<1> HIDE DEF more, n
<1>3. \A i \in 1..(n + 1) : /\ Signals!IsEscaped(text, i) <=> Signals!IsEscaped(more, i)
                            /\ Signals!Opening(text, i) = Signals!Opening(more, i)
  BY <1>1, EscapedAlike, MarksAlike
<1>4. \A i \in 1..n : i \in 1..(n + 1) /\ text[i] = more[i]
  BY <1>1 DEF BeginAlike
<1>5. \A i : i \in 1..(n + 1) <=> i \in 1..n \/ i = n + 1
  BY <1>1
<1>6. /\ Signals!Bells(more) = {i \in 1..(n + 1) : Rings(more, i)}
      /\ Signals!Bells(text) = {i \in 1..n : Rings(text, i)}
  BY <1>2 DEF Signals!Bells
<1>7. \A i \in 1..n : Rings(more, i) <=> Rings(text, i)
  BY <1>3, <1>4, Zenon
<1>8. Rings(more, n + 1) <=> /\ b = "BEL" /\ ~Signals!IsEscaped(text, n + 1)
                             /\ Signals!Opening(text, n + 1) = {}
  BY <1>1, <1>3, <1>5, Zenon
<1> HIDE DEF Rings
<1>9. Signals!Bells(more) =
        Signals!Bells(text) \cup
          {i \in {n + 1} : /\ b = "BEL" /\ ~Signals!IsEscaped(text, n + 1)
                           /\ Signals!Opening(text, n + 1) = {}}
  BY <1>5, <1>6, <1>7, <1>8
<1> QED
  BY <1>9 DEF more, n

\* What is notified at the last token depends on what is open before it.
LEMMA NotificationsNext ==
  ASSUME NEW text \in Seq(Signals!Tokens), NEW b \in Signals!Tokens
  PROVE  LET n == Len(text) + 1 IN
         Signals!Notifications(Append(text, b)) =
           Signals!Notifications(text) \cup Signals!NotifiedAt(Append(text, b), n)
<1> DEFINE more == Append(text, b)
           n == Len(text)
<1>1. /\ more \in Seq(Signals!Tokens) /\ n \in Nat /\ Len(more) = n + 1
      /\ BeginAlike(text, more, n)
  BY OneMore
<1>2. DOMAIN more = 1..(n + 1) /\ DOMAIN text = 1..n
  BY <1>1
<1>3. n <= Len(text) /\ n <= Len(more)
  BY <1>1
<1>4. \A i \in 1..n : Signals!NotifiedAt(text, i) = Signals!NotifiedAt(more, i)
  BY <1>1, <1>3, NotifiedAlike
<1> HIDE DEF more, n
<1>5. \A i : i \in 1..(n + 1) <=> i \in 1..n \/ i = n + 1
  BY <1>1
<1>6. /\ Signals!Notifications(more) = UNION {Signals!NotifiedAt(more, i) : i \in 1..(n + 1)}
      /\ Signals!Notifications(text) = UNION {Signals!NotifiedAt(text, i) : i \in 1..n}
  BY <1>2, Zenon DEF Signals!Notifications
<1>7. Signals!Notifications(more) = Signals!Notifications(text) \cup Signals!NotifiedAt(more, n + 1)
  BY <1>4, <1>5, <1>6
<1> QED
  BY <1>7 DEF more, n

\* At the last token, the payload is the one that is open.
LEMMA NotifiedNext ==
  ASSUME NEW text \in Seq(Signals!Tokens), NEW b \in Signals!Tokens, NEW buffer,
         LET n == Len(text) + 1 IN
           \A j \in Signals!Opening(text, n) : buffer = Signals!Payload(text, j, n)
  PROVE  LET n == Len(text) + 1
             more == Append(text, b) IN
         Signals!NotifiedAt(more, n) =
           IF Signals!Opening(text, n) # {} /\ Signals!Ends(more, n)
           THEN {[at |-> n, text |-> m] : m \in Signals!Notification(buffer)} ELSE {}
<1> DEFINE more == Append(text, b)
           n == Len(text)
           What(p) == {[at |-> n + 1, text |-> m] : m \in Signals!Notification(p)}
<1>1. /\ more \in Seq(Signals!Tokens) /\ n \in Nat /\ Len(more) = n + 1
      /\ BeginAlike(text, more, n) /\ n <= Len(text) /\ n <= Len(more)
  <2>1. n <= Len(text) /\ Len(more) = n + 1 => n <= Len(more)
    OBVIOUS
  <2>2. Len(text) <= Len(text)
    OBVIOUS
  <2> QED
    BY <2>1, <2>2, OneMore
<1> HIDE DEF more
<1>2. Signals!Opening(text, n + 1) = Signals!Opening(more, n + 1)
  BY <1>1, MarksAlike
<1>3. \A j \in Signals!Opening(text, n + 1) : Signals!Payload(more, j, n + 1) = buffer
  <2> TAKE j \in Signals!Opening(text, n + 1)
  <2>1. j \in Nat /\ (n + 1) - 1 = n /\ n \in 0..n
    BY <1>1 DEF Signals!Opening
  <2>2. Signals!Contents(text, j)[n] = Signals!Contents(more, j)[n]
    BY <1>1, <2>1, ContentsAlike
  <2>3. Signals!Payload(text, j, n + 1) = Signals!Payload(more, j, n + 1)
    BY <2>1, <2>2 DEF Signals!Payload
  <2> QED
    BY <2>3
<1>4. Signals!NotifiedAt(more, n + 1) =
        UNION {What(Signals!Payload(more, j, n + 1)) :
                 j \in {k \in Signals!Opening(text, n + 1) : Signals!Ends(more, n + 1)}}
  BY <1>2 DEF Signals!NotifiedAt
<1> HIDE DEF What, n
<1>5. CASE Signals!Opening(text, n + 1) # {} /\ Signals!Ends(more, n + 1)
  <2>1. \A x : x \in Signals!NotifiedAt(more, n + 1) <=> x \in What(buffer)
    BY <1>3, <1>4, <1>5
  <2>2. Signals!NotifiedAt(more, n + 1) = What(buffer)
    BY <2>1
  <2> QED
    BY <1>5, <2>2 DEF What, n, more
<1>6. CASE ~(Signals!Opening(text, n + 1) # {} /\ Signals!Ends(more, n + 1))
  <2>1. \A x : x \notin Signals!NotifiedAt(more, n + 1)
    BY <1>4, <1>6
  <2>2. Signals!NotifiedAt(more, n + 1) = {}
    BY <2>1
  <2> QED
    BY <1>6, <2>2 DEF n, more
<1> QED
  BY <1>5, <1>6

\* What the automaton does with one token (bell.go:76-120).
OpensNow(b) == b = "]" /\ bellAfterEscape
EndsNow(b) == (b = "BEL" /\ ~bellAfterEscape) \/ (b = "\\" /\ bellAfterEscape)
Skipped(b) == ~bellInOSC \/ bellAfterEscape \/ b = "ESC" \/ ~(Len(bellOscBuf) < MaxOSC)

LEMMA AutomatonIs ==
  ASSUME NEW b \in Signals!Tokens, NEW n, Signals!Process(b, n), Signals!TypeOK,
         ~bellInOSC => bellOscBuf = <<>>
  PROVE  /\ bellAfterEscape' <=> b = "ESC" /\ ~bellAfterEscape
         /\ bellInOSC' <=> OpensNow(b) \/ (~EndsNow(b) /\ bellInOSC)
         /\ bellOscBuf' = IF OpensNow(b) \/ EndsNow(b) THEN <<>>
                          ELSE IF Skipped(b) THEN bellOscBuf ELSE Append(bellOscBuf, b)
         /\ bellBells' = bellBells \cup {i \in {n} : b = "BEL" /\ ~bellAfterEscape /\ ~bellInOSC}
         /\ bellMessages' = bellMessages \cup
              IF EndsNow(b) /\ bellInOSC
              THEN {[at |-> n, text |-> m] : m \in Signals!Notification(bellOscBuf)} ELSE {}
<1> DEFINE What == {[at |-> n, text |-> m] : m \in Signals!Notification(bellOscBuf)}
<1>1. bellAfterEscape \in BOOLEAN /\ bellInOSC \in BOOLEAN
  BY DEF Signals!TypeOK
<1> USE DEF OpensNow, EndsNow, Skipped
<1>2. Signals!EndOSC(n) => bellInOSC' = FALSE /\ bellOscBuf' = <<>> /\ bellMessages' = bellMessages \cup What
  BY DEF Signals!EndOSC
<1> HIDE DEF What
<1>3. CASE bellAfterEscape
  <2>1. Signals!Escaped(b, n)
    BY <1>3 DEF Signals!Process
  <2>2. bellAfterEscape' = FALSE /\ bellBells' = bellBells
    BY <2>1, Zenon DEF Signals!Escaped
  <2>3. CASE b = "]"
    <3>1. bellInOSC' = TRUE /\ bellOscBuf' = <<>> /\ bellMessages' = bellMessages
      BY <2>1, <2>3, Zenon DEF Signals!Escaped
    <3> QED
      BY <1>3, <2>2, <2>3, <3>1 DEF What
  <2>4. CASE b = "\\" /\ bellInOSC
    <3>1. bellInOSC' = FALSE /\ bellOscBuf' = <<>> /\ bellMessages' = bellMessages \cup What
      BY <1>2, <2>1, <2>4 DEF Signals!Escaped
    <3> QED
      BY <1>3, <2>2, <2>4, <3>1 DEF What
  <2>5. CASE b # "]" /\ ~(b = "\\" /\ bellInOSC)
    <3>1. bellInOSC' = bellInOSC /\ bellOscBuf' = bellOscBuf /\ bellMessages' = bellMessages
      BY <2>1, <2>5 DEF Signals!Escaped
    <3> QED
      BY <1>1, <1>3, <2>2, <2>5, <3>1 DEF What
  <2> QED
    BY <2>3, <2>4, <2>5
<1>4. CASE ~bellAfterEscape /\ b = "ESC"
  <2>1. /\ bellAfterEscape' = TRUE /\ bellInOSC' = bellInOSC /\ bellOscBuf' = bellOscBuf
        /\ bellBells' = bellBells /\ bellMessages' = bellMessages
    BY <1>4 DEF Signals!Process
  <2> QED
    BY <1>1, <1>4, <2>1 DEF What
<1>5. CASE ~bellAfterEscape /\ b = "BEL"
  <2>1. Signals!Bell(n)
    BY <1>5 DEF Signals!Process
  <2>2. bellAfterEscape' = bellAfterEscape
    BY <2>1 DEF Signals!Bell
  <2>3. CASE bellInOSC
    <3>1. /\ bellInOSC' = FALSE /\ bellOscBuf' = <<>> /\ bellMessages' = bellMessages \cup What
          /\ bellBells' = bellBells
      BY <1>2, <2>1, <2>3 DEF Signals!Bell
    <3> QED
      BY <1>5, <2>2, <2>3, <3>1 DEF What
  <2>4. CASE ~bellInOSC
    <3>1. /\ bellInOSC' = bellInOSC /\ bellOscBuf' = bellOscBuf /\ bellMessages' = bellMessages
          /\ bellBells' = bellBells \cup {n}
      BY <2>1, <2>4 DEF Signals!Bell
    <3> QED
      BY <1>1, <1>5, <2>2, <2>4, <3>1 DEF What
  <2> QED
    BY <2>3, <2>4
<1>6. CASE ~bellAfterEscape /\ b # "ESC" /\ b # "BEL"
  <2>1. Signals!Plain(b)
    BY <1>6 DEF Signals!Process
  <2>2. /\ bellAfterEscape' = bellAfterEscape /\ bellInOSC' = bellInOSC
        /\ bellBells' = bellBells /\ bellMessages' = bellMessages
        /\ bellOscBuf' = IF bellInOSC /\ Len(bellOscBuf) < MaxOSC THEN Append(bellOscBuf, b)
                         ELSE bellOscBuf
    BY <2>1 DEF Signals!Plain
  <2> QED
    BY <1>1, <1>6, <2>2 DEF What
<1> QED
  BY <1>3, <1>4, <1>5, <1>6

\* The reading of the output with that token.
LEMMA ReadingNext ==
  ASSUME NEW text \in Seq(Signals!Tokens), NEW b \in Signals!Tokens, NEW buffer,
         MaxOSC \in Nat,
         LET n == Len(text) + 1 IN
           \A j \in Signals!Opening(text, n) : buffer = Signals!Payload(text, j, n)
  PROVE  LET n == Len(text) + 1
             more == Append(text, b)
             escaped == Signals!IsEscaped(text, n)
             opens == b = "]" /\ escaped
             ends == (b = "BEL" /\ ~escaped) \/ (b = "\\" /\ escaped) IN
         /\ Signals!IsEscaped(more, n + 1) <=> b = "ESC" /\ ~escaped
         /\ Signals!Ends(more, n) <=> ends
         /\ Signals!Opening(more, n + 1) =
              IF opens THEN {n} ELSE IF ends THEN {} ELSE Signals!Opening(text, n)
         /\ opens => Signals!Payload(more, n, n + 1) = <<>>
         /\ \A j \in Signals!Opening(text, n) :
              Signals!Payload(more, j, n + 1) =
                IF escaped \/ b = "ESC" \/ ~(Len(buffer) < MaxOSC) THEN buffer
                ELSE Append(buffer, b)
<1> DEFINE more == Append(text, b)
           k == Len(text)
           n == k + 1
           escaped == Signals!IsEscaped(text, n)
           opens == b = "]" /\ escaped
           ends == (b = "BEL" /\ ~escaped) \/ (b = "\\" /\ escaped)
<1>1. /\ more \in Seq(Signals!Tokens) /\ k \in Nat /\ Len(more) = k + 1 /\ more[k + 1] = b
      /\ BeginAlike(text, more, k)
  BY OneMore
<1> HIDE DEF more
<1>2. n \in 1..(k + 1) /\ n \in Nat \ {0} /\ n \in 1..Len(more) /\ k <= Len(text) /\ k <= Len(more)
  BY <1>1
<1>3. (Signals!IsEscaped(more, n) <=> escaped) /\ Signals!Opening(more, n) = Signals!Opening(text, n)
  BY <1>1, <1>2, EscapedAlike, MarksAlike
<1>4. more[n] = b
  BY <1>1
<1> HIDE DEF n, escaped
<1>5. Signals!IsEscaped(more, n + 1) <=> b = "ESC" /\ ~escaped
  BY <1>2, <1>3, <1>4, EscapedNext
<1>6. (Signals!Opens(more, n) <=> opens) /\ (Signals!Ends(more, n) <=> ends)
  BY <1>3, <1>4, Zenon DEF Signals!Opens, Signals!Ends
<1>7. Signals!Opening(more, n + 1) =
        IF opens THEN {n} ELSE IF ends THEN {} ELSE Signals!Opening(text, n)
  BY <1>2, <1>3, <1>6, OpeningNext
<1>8. Signals!Payload(more, n, n + 1) = <<>>
  BY <1>1, <1>2, PayloadNext
<1>9. ASSUME NEW j \in Signals!Opening(text, n)
      PROVE  Signals!Payload(more, j, n + 1) =
               IF escaped \/ b = "ESC" \/ ~(Len(buffer) < MaxOSC) THEN buffer
               ELSE Append(buffer, b)
  <2>1. j \in Nat /\ j < n /\ n - 1 = k /\ k \in 0..k
    BY <1>1, <1>2, <1>9 DEF Signals!Opening, n
  <2>2. Signals!Contents(text, j)[k] = Signals!Contents(more, j)[k]
    BY <1>1, <1>2, <2>1, ContentsAlike
  <2>3. Signals!Payload(more, j, n) = buffer
    <3>1. Signals!Payload(more, j, n) = Signals!Payload(text, j, n)
      BY <2>1, <2>2 DEF Signals!Payload
    <3> QED
      BY <1>9, <3>1 DEF n
  <2>4. Signals!Payload(more, j, n + 1) =
          LET p == Signals!Payload(more, j, n) IN
          IF Signals!IsEscaped(more, n) \/ more[n] = "ESC" \/ ~(Len(p) < MaxOSC) THEN p
          ELSE Append(p, more[n])
    BY <1>1, <1>2, <2>1, PayloadNext
  <2> QED
    BY <1>3, <1>4, <2>3, <2>4, Zenon
<1> QED
  BY <1>5, <1>6, <1>7, <1>8, <1>9 DEF n, more, escaped

\* The automaton keeps up with the reading.
LEMMA FoundStays == ASSUME FoundInv, [HostNext]_HostVars PROVE FoundInv'
<1> DEFINE n == Len(bellOutput) + 1
           open == Signals!Opening(bellOutput, n)
           Fine == /\ Signals!TypeOK
                   /\ bellAfterEscape <=> Signals!IsEscaped(bellOutput, n)
                   /\ bellInOSC <=> open # {}
                   /\ \A j \in open : bellOscBuf = Signals!Payload(bellOutput, j, n)
                   /\ ~bellInOSC => bellOscBuf = <<>>
                   /\ Signals!SignalsAreFound
<1> SUFFICES ASSUME part = "bells", Fine, [Signals!Next]_bellVars PROVE Fine'
  BY PartStays, TerminalSteps DEF FoundInv
<1>1. CASE UNCHANGED bellVars
  BY <1>1 DEF bellVars, Signals!TypeOK, Signals!SignalsAreFound
<1>2. ASSUME NEW b \in Signals!Tokens, Signals!Output(b) PROVE Fine'
  <2>1. Signals!TypeOK' /\ MaxOSC \in Nat
    BY BellsTyped, PartStays, HostAssumption DEF BellsInv
  <2> DEFINE more == Append(bellOutput, b)
             What == {[at |-> n, text |-> m] : m \in Signals!Notification(bellOscBuf)}
  <2>2. bellOutput' = more /\ Signals!Process(b, n)
    BY <1>2 DEF Signals!Output
  <2>3. bellOutput \in Seq(Signals!Tokens)
    BY DEF Signals!TypeOK
  <2>4. /\ bellAfterEscape' <=> b = "ESC" /\ ~bellAfterEscape
        /\ bellInOSC' <=> OpensNow(b) \/ (~EndsNow(b) /\ bellInOSC)
        /\ bellOscBuf' = IF OpensNow(b) \/ EndsNow(b) THEN <<>>
                         ELSE IF Skipped(b) THEN bellOscBuf ELSE Append(bellOscBuf, b)
        /\ bellBells' = bellBells \cup {i \in {n} : b = "BEL" /\ ~bellAfterEscape /\ ~bellInOSC}
        /\ bellMessages' = bellMessages \cup IF EndsNow(b) /\ bellInOSC THEN What ELSE {}
    <3> HIDE DEF n
    <3> QED
      BY <2>2, AutomatonIs
  <2> DEFINE opens == OpensNow(b)
             ends == EndsNow(b)
             escaped == Signals!IsEscaped(bellOutput, n)
  <2>5. (bellAfterEscape <=> escaped) /\ (opens <=> b = "]" /\ escaped)
        /\ (ends <=> (b = "BEL" /\ ~escaped) \/ (b = "\\" /\ escaped))
    BY DEF OpensNow, EndsNow
  <2>6. /\ Signals!IsEscaped(more, n + 1) <=> b = "ESC" /\ ~bellAfterEscape
        /\ Signals!Ends(more, n) <=> ends
        /\ Signals!Opening(more, n + 1) = IF opens THEN {n} ELSE IF ends THEN {} ELSE open
        /\ opens => Signals!Payload(more, n, n + 1) = <<>>
        /\ \A j \in open :
             Signals!Payload(more, j, n + 1) =
               IF escaped \/ b = "ESC" \/ ~(Len(bellOscBuf) < MaxOSC) THEN bellOscBuf
               ELSE Append(bellOscBuf, b)
    <3>1. \A j \in open : bellOscBuf = Signals!Payload(bellOutput, j, n)
      OBVIOUS
    <3> HIDE DEF opens, ends
    <3> QED
      BY <2>1, <2>3, <2>5, <3>1, ReadingNext
  <2>7. Len(bellOutput') + 1 = n + 1
    BY <2>2, <2>3
  <2>8. bellBells' = Signals!Bells(more)
    <3>1. bellBells = Signals!Bells(bellOutput)
      BY DEF Signals!SignalsAreFound
    <3>2. Signals!Bells(more) =
            Signals!Bells(bellOutput) \cup {i \in {n} : b = "BEL" /\ ~escaped /\ open = {}}
      BY <2>3, BellsNext
    <3> HIDE DEF n, open, more, escaped
    <3> QED
      BY <2>4, <2>5, <3>1, <3>2
  <2>9. bellMessages' = Signals!Notifications(more)
    <3>1. bellMessages = Signals!Notifications(bellOutput)
      BY DEF Signals!SignalsAreFound
    <3>2. Signals!Notifications(more) =
            Signals!Notifications(bellOutput) \cup Signals!NotifiedAt(more, n)
      BY <2>3, NotificationsNext
    <3>3. Signals!NotifiedAt(more, n) = IF open # {} /\ Signals!Ends(more, n) THEN What ELSE {}
      <4>1. \A j \in open : bellOscBuf = Signals!Payload(bellOutput, j, n)
        OBVIOUS
      <4> QED
        BY <2>3, <4>1, NotifiedNext
    <3> HIDE DEF n, open, more, escaped, ends, What
    <3> QED
      BY <2>4, <2>6, <3>1, <3>2, <3>3 DEF ends
  <2>10. Signals!SignalsAreFound'
    BY <2>2, <2>8, <2>9 DEF Signals!SignalsAreFound
  <2> DEFINE open2 == Signals!Opening(more, n + 1)
  <2> HIDE DEF n, open, more, escaped, opens, ends, open2
  <2>11. bellInOSC' <=> open2 # {}
    <3>1. open2 = IF opens THEN {n} ELSE IF ends THEN {} ELSE open
      BY <2>6 DEF open2
    <3>2. bellInOSC' <=> opens \/ (~ends /\ bellInOSC)
      BY <2>4 DEF opens, ends
    <3> QED
      BY <3>1, <3>2
  <2>12. ASSUME NEW j \in open2 PROVE bellOscBuf' = Signals!Payload(more, j, n + 1)
    <3>1. open2 = IF opens THEN {n} ELSE IF ends THEN {} ELSE open
      BY <2>6 DEF open2
    <3>2. CASE opens
      <4>1. j = n /\ bellOscBuf' = <<>>
        BY <2>4, <3>1, <3>2, <2>12 DEF opens
      <4> QED
        BY <2>6, <3>2, <4>1
    <3>3. CASE ~opens
      <4>1. ~ends /\ j \in open /\ bellInOSC
        BY <2>12, <3>1, <3>3
      <4>2. Signals!Payload(more, j, n + 1) =
              IF escaped \/ b = "ESC" \/ ~(Len(bellOscBuf) < MaxOSC) THEN bellOscBuf
              ELSE Append(bellOscBuf, b)
        BY <2>6, <4>1
      <4>3. bellOscBuf' = IF Skipped(b) THEN bellOscBuf ELSE Append(bellOscBuf, b)
        BY <2>4, <3>3, <4>1, Zenon DEF opens, ends
      <4>4. Skipped(b) <=> escaped \/ b = "ESC" \/ ~(Len(bellOscBuf) < MaxOSC)
        BY <2>5, <4>1, Zenon DEF Skipped
      <4> QED
        BY <4>2, <4>3, <4>4, Zenon
    <3> QED
      BY <3>2, <3>3
  <2>13. ~bellInOSC' => bellOscBuf' = <<>>
    <3>1. ~bellInOSC => Skipped(b) /\ bellOscBuf = <<>>
      BY DEF Skipped
    <3> QED
      BY <2>4, <3>1, Zenon
  <2> QED
    BY <2>1, <2>2, <2>4, <2>6, <2>7, <2>10, <2>11, <2>12, <2>13 DEF open, n, open2
<1> QED
  BY <1>1, <1>2 DEF Signals!Next

LEMMA FoundIsTyped == FoundInv => BellsInv
BY DEF FoundInv, BellsInv

LEMMA FoundStarts == HostInit => FoundInv
<1> SUFFICES ASSUME Signals!Init PROVE FoundInv
  BY DEF HostInit
<1>1. /\ bellOutput = <<>> /\ bellAfterEscape = FALSE /\ bellInOSC = FALSE /\ bellOscBuf = <<>>
      /\ bellBells = {} /\ bellMessages = {}
  BY DEF Signals!Init
<1>2. Signals!TypeOK
  <2>1. <<>> \in Seq(Signals!Tokens) /\ Len(<<>>) = 0 /\ 0 <= MaxOSC
    BY HostAssumption
  <2> QED
    BY <1>1, <2>1 DEF Signals!TypeOK
<1>3. Len(bellOutput) + 1 = 1 /\ DOMAIN bellOutput = {}
  BY <1>1
<1>4. ~Signals!IsEscaped(bellOutput, 1) /\ Signals!Opening(bellOutput, 1) = {}
  <2>1. 1 \in Nat \ {0}
    OBVIOUS
  <2> QED
    BY <2>1, EscapedNext, OpeningNext
<1>5. Signals!Bells(bellOutput) = {} /\ Signals!Notifications(bellOutput) = {}
  BY <1>3 DEF Signals!Bells, Signals!Notifications
<1> QED
  BY <1>1, <1>2, <1>3, <1>4, <1>5 DEF FoundInv, Signals!SignalsAreFound

LEMMA SignalsAlways == HostSpec => [](part = "bells" => Signals!SignalsAreFound)
<1>1. FoundInv => (part = "bells" => Signals!SignalsAreFound)
  BY DEF FoundInv
<1> QED
  BY <1>1, FoundStarts, FoundStays, PTL DEF HostSpec

-----------------------------------------------------------------------------
(* The mode tracker, one token after the other *)

\* The states of a mode tracker.
Trackers ==
  [state : {"ground", "escape", "csi"}, params : Seq(Terminal!Tokens), overflow : BOOLEAN,
   alt : AltModes \cup {"0"}, mouse : MouseModes \cup {"0"},
   encoding : EncodingModes \cup {"0"},
   bools : UNION {[S -> BOOLEAN] : S \in SUBSET Terminal!Tokens}]

ModesInv == part = "modes" => modeTracker \in Trackers /\ Terminal!TypeOK

\* The tracker of a new session is one.
LEMMA FreshIsATracker == Terminal!Fresh \in Trackers
<1>1. <<>> \in Seq(Terminal!Tokens)
  OBVIOUS
<1>2. [m \in {} |-> TRUE] \in UNION {[S -> BOOLEAN] : S \in SUBSET Terminal!Tokens}
  <2>1. [m \in {} |-> TRUE] \in [{} -> BOOLEAN] /\ {} \in SUBSET Terminal!Tokens
    BY Zenon
  <2> QED
    BY <2>1, Zenon
<1> QED
  BY <1>1, <1>2 DEF Terminal!Fresh, Terminal!Off, Trackers

\* One mode of a sequence.
LEMMA AModeKeepsTheType ==
  ASSUME NEW t \in Trackers, NEW mode \in Terminal!Tokens, NEW on \in BOOLEAN
  PROVE  Terminal!ApplyMode(t, mode, on) \in Trackers
<1>1. Terminal!Pick(on, mode) \in {mode, "0"}
  BY Zenon DEF Terminal!Pick, Terminal!Off
<1>2. PICK S \in SUBSET Terminal!Tokens : t.bools \in [S -> BOOLEAN]
  BY DEF Trackers
<1> DEFINE b == [m \in DOMAIN t.bools \cup {mode} |-> IF m = mode THEN on ELSE t.bools[m]]
<1>3. b \in [S \cup {mode} -> BOOLEAN] /\ S \cup {mode} \in SUBSET Terminal!Tokens
  BY <1>2, Zenon
<1>4. b \in UNION {[T -> BOOLEAN] : T \in SUBSET Terminal!Tokens}
  BY <1>3, Zenon
<1> HIDE DEF b
<1>5. \A x \in AltModes \cup {"0"} : [t EXCEPT !.alt = x] \in Trackers
  BY DEF Trackers
<1>6. \A x \in MouseModes \cup {"0"} : [t EXCEPT !.mouse = x] \in Trackers
  BY DEF Trackers
<1>7. \A x \in EncodingModes \cup {"0"} : [t EXCEPT !.encoding = x] \in Trackers
  BY DEF Trackers
<1>8. [t EXCEPT !.bools = b] \in Trackers
  BY <1>4 DEF Trackers
<1>9. [t EXCEPT !.bools = b] =
        [t EXCEPT !.bools = [m \in DOMAIN @ \cup {mode} |-> IF m = mode THEN on ELSE @[m]]]
  BY DEF b
<1> QED
  BY <1>1, <1>5, <1>6, <1>7, <1>8, <1>9 DEF Terminal!ApplyMode

\* Applied is the function its recursion describes.
LEMMA AppliedIs ==
  ASSUME NEW t \in Trackers, NEW params \in Seq(Terminal!Tokens), NEW on \in BOOLEAN
  PROVE  LET g == Terminal!Applied(t, params, on) IN
         /\ g[0] = t
         /\ \A n \in 0..Len(params) : g[n] \in Trackers
         /\ \A n \in 1..Len(params) : g[n] = Terminal!ApplyMode(g[n - 1], params[n], on)
<1> DEFINE N == Len(params)
           step == [n \in 0..N |->
                      [u \in Trackers |-> IF n = 0 THEN u
                                         ELSE Terminal!ApplyMode(u, params[n], on)]]
           After(f) == f = [n \in 0..N |-> IF n = 0 THEN t
                                          ELSE Terminal!ApplyMode(f[n - 1], params[n], on)]
<1>1. N \in Nat
  OBVIOUS
<1>2. \A n \in 0..N, u \in Trackers : n # 0 => Terminal!ApplyMode(u, params[n], on) \in Trackers
  BY AModeKeepsTheType
<1>3. IsStepOn(step, N, Trackers)
  BY <1>2 DEF IsStepOn
<1>4. PICK f : Iterates(f, N, Trackers, t, step)
  <2> HIDE DEF N, step
  <2> QED
    BY <1>1, <1>3, StepsIterate
<1>5. \A n \in 0..N : f[n] \in Trackers
  BY <1>4 DEF Iterates
<1>6. \A n \in 0..N : n # 0 => f[n] = Terminal!ApplyMode(f[n - 1], params[n], on)
  <2> SUFFICES ASSUME NEW n \in 0..N, n # 0
               PROVE  f[n] = Terminal!ApplyMode(f[n - 1], params[n], on)
    OBVIOUS
  <2>1. f[n - 1] \in Trackers
    BY <1>1, <1>5
  <2>2. f[n] = step[n][f[n - 1]]
    <3> HIDE DEF N, step
    <3> QED
      BY <1>4 DEF Iterates
  <2> QED
    BY <2>1, <2>2
<1>7. After(f)
  <2> HIDE DEF step
  <2> QED
    BY <1>1, <1>4, <1>6 DEF Iterates
<1>8. After(Terminal!Applied(t, params, on))
  <2>1. \E g : After(g)
    BY <1>7
  <2> QED
    BY <2>1, Zenon DEF Terminal!Applied
<1> DEFINE g == Terminal!Applied(t, params, on)
           Typed == {n \in 0..N : g[n] \in Trackers}
<1> HIDE DEF g
<1>9. g[0] = t /\ \A n \in 0..N : n # 0 => g[n] = Terminal!ApplyMode(g[n - 1], params[n], on)
  BY <1>1, <1>8 DEF g
<1>10. \A n \in 0..N : n \in Typed /\ n # N => n + 1 \in Typed
  <2> SUFFICES ASSUME NEW n \in 0..N, n \in Typed, n # N PROVE g[n + 1] \in Trackers
    BY <1>1
  <2>1. n + 1 \in 0..N /\ n + 1 # 0 /\ (n + 1) - 1 = n
    BY <1>1
  <2>2. g[n + 1] = Terminal!ApplyMode(g[n], params[n + 1], on)
    BY <1>9, <2>1
  <2> QED
    BY <2>2, <2>1, AModeKeepsTheType
<1>11. 0 \in Typed
  BY <1>1, <1>9
<1>12. \A n \in 0..N : n \in Typed
  <2> HIDE DEF Typed, N
  <2> QED
    BY <1>1, <1>10, <1>11, ClimbAll
<1>13. \A n \in 1..N : g[n] = Terminal!ApplyMode(g[n - 1], params[n], on)
  BY <1>9
<1> QED
  BY <1>9, <1>12, <1>13 DEF g

\* modes.go:65-127, for one byte.
LEMMA ATokenKeepsTheType ==
  ASSUME NEW t \in Trackers, Len(t.params) <= MaxParams, NEW b \in Terminal!Tokens
  PROVE  LET u == Terminal!Process(t, b) IN u \in Trackers /\ Len(u.params) <= MaxParams
<1> DEFINE u == Terminal!Process(t, b)
<1> SUFFICES u \in Trackers /\ Len(u.params) <= MaxParams
  OBVIOUS
<1>1. MaxParams \in Nat
  BY ModesAssumption
<1>2. <<>> \in Seq(Terminal!Tokens) /\ Len(<<>>) = 0
  OBVIOUS
<1>3. t.params \in Seq(Terminal!Tokens) /\ Len(t.params) \in Nat
  BY DEF Trackers
<1>4. \A s \in {"ground", "escape", "csi"} : [t EXCEPT !.state = s] \in Trackers
                                            /\ [t EXCEPT !.state = s].params = t.params
  BY DEF Trackers
<1>5. CASE t.state = "ground"
  <2>1. u \in {t, [t EXCEPT !.state = "escape"]}
    BY <1>5 DEF Terminal!Process
  <2> QED
    BY <1>4, <2>1
<1>6. CASE t.state = "escape"
  <2>1. u = Terminal!InEscape(t, b)
    BY <1>6 DEF Terminal!Process
  <2>2. u \in {t, [t EXCEPT !.state = "csi"], [t EXCEPT !.state = "ground"]}
    BY <2>1 DEF Terminal!InEscape
  <2> QED
    BY <1>4, <2>2
<1>7. CASE t.state = "csi"
  <2>1. u = Terminal!InCSI(t, b)
    BY <1>7 DEF Terminal!Process
  <2> DEFINE Ended(v, s) == [v EXCEPT !.state = s, !.params = <<>>, !.overflow = FALSE]
  <2>2. \A v \in Trackers : \A s \in {"ground", "escape", "csi"} :
          Ended(v, s) \in Trackers /\ Ended(v, s).params = <<>>
    BY <1>2 DEF Trackers
  <2>3. CASE b = "ESC"
    <3>1. u = Ended(t, "escape")
      BY <2>1, <2>3 DEF Terminal!InCSI
    <3> HIDE DEF u, Ended
    <3> QED
      BY <1>1, <1>2, <2>2, <3>1
  <2>4. CASE b \in {"h", "l", "["}
    <3> DEFINE v == IF ~t.overflow /\ b \in {"h", "l"}
                    THEN Terminal!Apply(t, t.params, b = "h") ELSE t
    <3>1. u = Ended(v, "ground")
      BY <2>1, <2>4 DEF Terminal!InCSI
    <3>2. Terminal!Apply(t, t.params, b = "h") \in Trackers
      <4>1. CASE t.params # <<>>
        <5>1. Tail(t.params) \in Seq(Terminal!Tokens) /\ Len(Tail(t.params)) = Len(t.params) - 1
          BY <1>3, <4>1
        <5>2. (b = "h") \in BOOLEAN
          OBVIOUS
        <5>3. Terminal!Applied(t, Tail(t.params), b = "h")[Len(t.params) - 1] \in Trackers
          <6> DEFINE rest == Tail(t.params)
                     n == Len(t.params) - 1
          <6>1. n \in 0..Len(rest)
            BY <1>3, <5>1
          <6> HIDE DEF rest, n
          <6>2. Terminal!Applied(t, rest, b = "h")[n] \in Trackers
            BY <5>1, <5>2, <6>1, AppliedIs DEF rest
          <6> QED
            BY <6>2 DEF rest, n
        <5> QED
          BY <5>3, Zenon DEF Terminal!Apply
      <4>2. CASE t.params = <<>>
        BY <4>2, Zenon DEF Terminal!Apply
      <4> QED
        BY <4>1, <4>2
    <3>3. v \in Trackers
      BY <3>2, Zenon
    <3> HIDE DEF u, v, Ended
    <3> QED
      BY <1>1, <1>2, <2>2, <3>1, <3>3
  <2>5. CASE b # "ESC" /\ b \notin {"h", "l", "["}
    <3>1. u = IF Len(t.params) < MaxParams THEN [t EXCEPT !.params = Append(@, b)]
              ELSE [t EXCEPT !.overflow = TRUE]
      BY <2>1, <2>5 DEF Terminal!InCSI
    <3>2. Append(t.params, b) \in Seq(Terminal!Tokens)
          /\ Len(Append(t.params, b)) = Len(t.params) + 1
      BY <1>3
    <3>3. [t EXCEPT !.params = Append(@, b)] \in Trackers
          /\ [t EXCEPT !.params = Append(@, b)].params = Append(t.params, b)
      BY <3>2 DEF Trackers
    <3>4. [t EXCEPT !.overflow = TRUE] \in Trackers
          /\ [t EXCEPT !.overflow = TRUE].params = t.params
      BY DEF Trackers
    <3> HIDE DEF u
    <3>5. CASE Len(t.params) < MaxParams
      BY <1>1, <1>3, <3>1, <3>2, <3>3, <3>5
    <3>6. CASE ~(Len(t.params) < MaxParams)
      BY <3>1, <3>4, <3>6
    <3> QED
      BY <3>5, <3>6
  <2> QED
    BY <2>3, <2>4, <2>5
<1> QED
  BY <1>5, <1>6, <1>7 DEF Trackers

\* The session writes, and its scrollback is trimmed.
LEMMA ModesTyped == ASSUME ModesInv, [HostNext]_HostVars PROVE ModesInv'
<1> SUFFICES ASSUME part = "modes", modeTracker \in Trackers, Terminal!TypeOK,
                    [Terminal!Next]_modeVars
             PROVE  modeTracker' \in Trackers /\ Terminal!TypeOK'
  BY PartStays, TerminalSteps DEF ModesInv
<1>1. CASE UNCHANGED modeVars
  BY <1>1 DEF modeVars, Terminal!TypeOK
<1>2. CASE Terminal!Trim
  <2>1. modeKept' \in Seq(Terminal!Tokens) /\ modeTracker' = modeTracker
    BY <1>2 DEF Terminal!Trim, Terminal!TypeOK
  <2> QED
    BY <2>1 DEF Terminal!TypeOK
<1>3. ASSUME NEW b \in Terminal!Tokens, Terminal!Output(b)
      PROVE  modeTracker' \in Trackers /\ Terminal!TypeOK'
  <2>1. modeTracker' = Terminal!Process(modeTracker, b)
    BY <1>3 DEF Terminal!Output
  <2>2. modeTracker' \in Trackers /\ Len(modeTracker'.params) <= MaxParams
    BY <2>1, ATokenKeepsTheType DEF Terminal!TypeOK
  <2>3. modeKept' \in Seq(Terminal!Tokens)
    <3>1. modeKept \in Seq(Terminal!Tokens) /\ MaxKept \in Nat \ {0}
      BY HostAssumption DEF Terminal!TypeOK
    <3>2. CASE Len(modeKept) < MaxKept
      BY <1>3, <3>1, <3>2 DEF Terminal!Output
    <3>3. CASE ~(Len(modeKept) < MaxKept)
      <4>1. modeKept # <<>>
        BY <3>1, <3>3
      <4>2. Tail(modeKept) \in Seq(Terminal!Tokens)
        BY <3>1, <4>1
      <4>3. modeKept' = Append(Tail(modeKept), b)
        BY <1>3, <3>3 DEF Terminal!Output
      <4> QED
        BY <4>2, <4>3
    <3> QED
      BY <3>2, <3>3
  <2> QED
    BY <2>2, <2>3 DEF Terminal!TypeOK, Trackers, Terminal!Off
<1> QED
  BY <1>1, <1>2, <1>3 DEF Terminal!Next

-----------------------------------------------------------------------------
(* The tracker after a whole piece of output *)

\* The states of a tracker whose parameters are within their limit.
Bounded == {t \in Trackers : Len(t.params) <= MaxParams}

\* So is Processed.
LEMMA ProcessedIs ==
  ASSUME NEW t \in Bounded, NEW output \in Seq(Terminal!Tokens)
  PROVE  LET g == Terminal!Processed(t, output) IN
         /\ g[0] = t
         /\ \A n \in 0..Len(output) : g[n] \in Bounded
         /\ \A n \in 1..Len(output) : g[n] = Terminal!Process(g[n - 1], output[n])
<1> DEFINE N == Len(output)
           step == [n \in 0..N |->
                      [u \in Bounded |-> IF n = 0 THEN u ELSE Terminal!Process(u, output[n])]]
           After(f) == f = [n \in 0..N |-> IF n = 0 THEN t
                                          ELSE Terminal!Process(f[n - 1], output[n])]
<1>1. N \in Nat
  OBVIOUS
<1>2. ASSUME NEW n \in 0..N, NEW u \in Bounded, n # 0
      PROVE  Terminal!Process(u, output[n]) \in Bounded
  <2>1. output[n] \in Terminal!Tokens
    BY <1>2
  <2> QED
    BY <2>1, ATokenKeepsTheType DEF Bounded
<1>3. IsStepOn(step, N, Bounded)
  BY <1>2 DEF IsStepOn
<1>4. PICK f : Iterates(f, N, Bounded, t, step)
  <2> HIDE DEF N, step
  <2> QED
    BY <1>1, <1>3, StepsIterate
<1>5. \A n \in 0..N : f[n] \in Bounded
  BY <1>4 DEF Iterates
<1>6. \A n \in 0..N : n # 0 => f[n] = Terminal!Process(f[n - 1], output[n])
  <2> SUFFICES ASSUME NEW n \in 0..N, n # 0
               PROVE  f[n] = Terminal!Process(f[n - 1], output[n])
    OBVIOUS
  <2>1. f[n - 1] \in Bounded
    BY <1>1, <1>5
  <2>2. f[n] = step[n][f[n - 1]]
    <3> HIDE DEF N, step
    <3> QED
      BY <1>4 DEF Iterates
  <2> QED
    BY <2>1, <2>2
<1>7. After(f)
  <2> HIDE DEF step
  <2> QED
    BY <1>1, <1>4, <1>6 DEF Iterates
<1>8. After(Terminal!Processed(t, output))
  <2>1. \E g : After(g)
    BY <1>7
  <2> QED
    BY <2>1, Zenon DEF Terminal!Processed
<1> DEFINE g == Terminal!Processed(t, output)
<1> HIDE DEF g
<1>9. g[0] = t /\ \A n \in 0..N : n # 0 => g[n] = Terminal!Process(g[n - 1], output[n])
  BY <1>1, <1>8 DEF g
<1>10. \A n \in 0..N : g[n] = f[n]
  <2>1. g[0] = f[0]
    BY <1>4, <1>9 DEF Iterates
  <2>2. ASSUME NEW n \in 0..N, n # N, g[n] = f[n] PROVE g[n + 1] = f[n + 1]
    <3>1. n + 1 \in 0..N /\ n + 1 # 0 /\ (n + 1) - 1 = n
      BY <1>1, <2>2
    <3> QED
      BY <1>6, <1>9, <2>2, <3>1
  <2> HIDE DEF N
  <2> QED
    BY <1>1, <2>1, <2>2, StepsAgree, ZenonT(60)
<1>11. \A n \in 1..N : g[n] = Terminal!Process(g[n - 1], output[n])
  BY <1>9
<1> QED
  BY <1>5, <1>9, <1>10, <1>11 DEF g

\* What comes later changes nothing of what has been processed.
LEMMA ProcessedAgree ==
  ASSUME NEW t \in Bounded, NEW s \in Seq(Terminal!Tokens),
         NEW r \in Seq(Terminal!Tokens),
         NEW N \in Nat, N <= Len(s), N <= Len(r), \A n \in 1..N : s[n] = r[n]
  PROVE  \A n \in 0..N : Terminal!Processed(t, s)[n] = Terminal!Processed(t, r)[n]
<1> DEFINE f == Terminal!Processed(t, s)
           g == Terminal!Processed(t, r)
<1>1. f[0] = t /\ \A n \in 1..Len(s) : f[n] = Terminal!Process(f[n - 1], s[n])
  BY ProcessedIs
<1>2. g[0] = t /\ \A n \in 1..Len(r) : g[n] = Terminal!Process(g[n - 1], r[n])
  BY ProcessedIs
<1> HIDE DEF f, g
<1>3. ASSUME NEW n \in 0..N, n # N, f[n] = g[n] PROVE f[n + 1] = g[n + 1]
  <2>1. n + 1 \in 1..N /\ n + 1 \in 1..Len(s) /\ n + 1 \in 1..Len(r) /\ (n + 1) - 1 = n
    BY <1>3
  <2> QED
    BY <1>1, <1>2, <1>3, <2>1
<1>4. f[0] = g[0]
  BY <1>1, <1>2
<1>5. \A n \in 0..N : n # N /\ f[n] = g[n] => f[n + 1] = g[n + 1]
  BY <1>3
<1>6. \A n \in 0..N : f[n] = g[n]
  BY ONLY N \in Nat, <1>4, <1>5, StepsAgree, ZenonT(60)
<1> QED
  BY <1>6 DEF f, g

\* Output is processed token by token.
LEMMA ProcessAllIs ==
  ASSUME NEW t \in Bounded, NEW s \in Seq(Terminal!Tokens)
  PROVE  /\ Terminal!ProcessAll(t, s) \in Bounded
         /\ Terminal!ProcessAll(t, <<>>) = t
         /\ \A b \in Terminal!Tokens :
              Terminal!ProcessAll(t, Append(s, b)) = Terminal!Process(Terminal!ProcessAll(t, s), b)
<1>1. Terminal!ProcessAll(t, s) \in Bounded
  <2>1. Len(s) \in 0..Len(s)
    OBVIOUS
  <2> QED
    BY <2>1, ProcessedIs DEF Terminal!ProcessAll
<1>2. Terminal!ProcessAll(t, <<>>) = t
  <2>1. <<>> \in Seq(Terminal!Tokens) /\ Len(<<>>) = 0
    OBVIOUS
  <2> QED
    BY <2>1, ProcessedIs DEF Terminal!ProcessAll
<1>3. ASSUME NEW b \in Terminal!Tokens
      PROVE  Terminal!ProcessAll(t, Append(s, b)) = Terminal!Process(Terminal!ProcessAll(t, s), b)
  <2> DEFINE r == Append(s, b)
  <2>1. /\ r \in Seq(Terminal!Tokens) /\ Len(r) = Len(s) + 1 /\ Len(s) \in Nat
        /\ r[Len(s) + 1] = b /\ \A n \in 1..Len(s) : s[n] = r[n]
    OBVIOUS
  <2> HIDE DEF r
  <2>2. Terminal!Processed(t, s)[Len(s)] = Terminal!Processed(t, r)[Len(s)]
    <3>1. \A n \in 0..Len(s) : Terminal!Processed(t, s)[n] = Terminal!Processed(t, r)[n]
      BY <2>1, ProcessedAgree
    <3> QED
      BY <2>1, <3>1
  <2>3. Terminal!Processed(t, r)[Len(s) + 1] =
          Terminal!Process(Terminal!Processed(t, r)[Len(s)], r[Len(s) + 1])
    <3>1. Len(s) + 1 \in 1..Len(r) /\ (Len(s) + 1) - 1 = Len(s)
      BY <2>1
    <3> QED
      BY <2>1, <3>1, ProcessedIs
  <2> QED
    BY <2>1, <2>2, <2>3 DEF Terminal!ProcessAll, r
<1> QED
  BY <1>1, <1>2, <1>3

\* A piece at a time is as good as all at once.
LEMMA ProcessAllInPieces ==
  ASSUME NEW t \in Bounded, NEW s \in Seq(Terminal!Tokens), NEW r \in Seq(Terminal!Tokens)
  PROVE  Terminal!ProcessAll(t, s \o r) = Terminal!ProcessAll(Terminal!ProcessAll(t, s), r)
<1> DEFINE all == s \o r
           u == Terminal!ProcessAll(t, s)
           f == Terminal!Processed(t, all)
           g == Terminal!Processed(u, r)
           h == [n \in 0..Len(r) |-> f[Len(s) + n]]
<1>1. /\ all \in Seq(Terminal!Tokens) /\ Len(all) = Len(s) + Len(r)
      /\ Len(s) \in Nat /\ Len(r) \in Nat
      /\ \A n \in 1..Len(s) : s[n] = all[n]
      /\ \A n \in 1..Len(r) : r[n] = all[Len(s) + n]
  OBVIOUS
<1>2. u \in Bounded
  BY ProcessAllIs
<1> HIDE DEF all, u
<1>3. \A n \in 1..Len(all) : f[n] = Terminal!Process(f[n - 1], all[n])
  BY <1>1, ProcessedIs
<1>4. g[0] = u /\ \A n \in 1..Len(r) : g[n] = Terminal!Process(g[n - 1], r[n])
  BY <1>2, ProcessedIs
<1>5. f[Len(s)] = u
  <2>0. Len(s) <= Len(s) /\ Len(s) <= Len(all)
    BY <1>1
  <2>1. \A n \in 0..Len(s) : Terminal!Processed(t, s)[n] = Terminal!Processed(t, all)[n]
    BY <1>1, <2>0, ProcessedAgree
  <2>2. Len(s) \in 0..Len(s)
    BY <1>1
  <2> QED
    BY <2>1, <2>2 DEF u, Terminal!ProcessAll
<1> HIDE DEF f, g
<1>6. ASSUME NEW n \in 0..Len(r), n # Len(r), h[n] = g[n] PROVE h[n + 1] = g[n + 1]
  <2>1. /\ n + 1 \in 1..Len(r) /\ n + 1 \in 0..Len(r) /\ (n + 1) - 1 = n
        /\ Len(s) + (n + 1) \in 1..Len(all) /\ (Len(s) + (n + 1)) - 1 = Len(s) + n
    BY <1>1, <1>6
  <2>2. h[n + 1] = f[Len(s) + (n + 1)] /\ h[n] = f[Len(s) + n]
    BY <2>1
  <2> QED
    BY <1>1, <1>3, <1>4, <1>6, <2>1, <2>2
<1>7. h[0] = g[0]
  BY <1>1, <1>4, <1>5
<1>8. \A n \in 0..Len(r) : h[n] = g[n]
  <2> HIDE DEF h
  <2>1. \A n \in 0..Len(r) : n # Len(r) /\ h[n] = g[n] => h[n + 1] = g[n + 1]
    BY <1>6
  <2>2. Len(r) \in Nat
    BY <1>1
  <2> QED
    BY ONLY <2>2, <1>7, <2>1, StepsAgree, ZenonT(60)
<1>9. h[Len(r)] = f[Len(s) + Len(r)] /\ h[Len(r)] = g[Len(r)]
  BY <1>1, <1>8
<1> QED
  BY <1>1, <1>9 DEF f, g, all, u, Terminal!ProcessAll

-----------------------------------------------------------------------------
(* What setting a mode changes *)

\* The modes that are on or off.
Bools == Terminal!ToSet(BoolModes)

\* A mode is of one kind, and no other token.
LEMMA KindsApart ==
  /\ \A m \in AltModes : m \notin MouseModes /\ m \notin EncodingModes /\ m \notin Bools
  /\ \A m \in MouseModes : m \notin AltModes /\ m \notin EncodingModes /\ m \notin Bools
  /\ \A m \in EncodingModes : m \notin AltModes /\ m \notin MouseModes /\ m \notin Bools
  /\ \A m \in Bools : m \notin AltModes /\ m \notin MouseModes /\ m \notin EncodingModes
  /\ \A m \in AltModes \cup MouseModes \cup EncodingModes \cup Bools :
       m \notin {"0", "ESC", "[", "?", "h", "l"}
<1> DEFINE kinds == <<AltModes, MouseModes, EncodingModes, ToSet(BoolModes),
                      {"0", "ESC", "[", "?", "h", "l"}>>
<1>1. \A i, j \in 1..5 : i # j => kinds[i] \cap kinds[j] = {}
  BY ModesAssumption
<1>2. kinds[1] \cap kinds[2] = {} /\ kinds[1] \cap kinds[3] = {} /\ kinds[1] \cap kinds[4] = {}
      /\ kinds[1] \cap kinds[5] = {} /\ kinds[2] \cap kinds[3] = {}
      /\ kinds[2] \cap kinds[4] = {} /\ kinds[2] \cap kinds[5] = {}
      /\ kinds[3] \cap kinds[4] = {} /\ kinds[3] \cap kinds[5] = {}
      /\ kinds[4] \cap kinds[5] = {}
  <2>1. 1 \in 1..5 /\ 2 \in 1..5 /\ 3 \in 1..5 /\ 4 \in 1..5 /\ 5 \in 1..5
    OBVIOUS
  <2> HIDE DEF kinds
  <2> QED
    BY <1>1, <2>1
<1>3. Bools = ToSet(BoolModes)
  BY DEF Bools, Terminal!ToSet, ToSet
<1>4. kinds[1] = AltModes /\ kinds[2] = MouseModes /\ kinds[3] = EncodingModes
      /\ kinds[4] = Bools /\ kinds[5] = {"0", "ESC", "[", "?", "h", "l"}
  BY <1>3
<1> HIDE DEF kinds
<1> QED
  BY <1>2, <1>4

\* Whether a mode is on: it was set, or it starts so.
On(t, m) == IF m \in DOMAIN t.bools THEN t.bools[m] ELSE m \in DefaultOn

\* How far a tracker is in reading a sequence.
Parser(t) == <<t.state, t.params, t.overflow>>

\* Setting one mode changes that one.
LEMMA ApplyModeIs ==
  ASSUME NEW t \in Trackers, NEW mode \in Terminal!Tokens, NEW on \in BOOLEAN
  PROVE  LET u == Terminal!ApplyMode(t, mode, on)
             x == Terminal!Pick(on, mode) IN
         /\ Parser(u) = Parser(t)
         /\ u.alt = IF mode \in AltModes THEN x ELSE t.alt
         /\ u.mouse = IF mode \in MouseModes THEN x ELSE t.mouse
         /\ u.encoding = IF mode \in EncodingModes THEN x ELSE t.encoding
         /\ \A m \in Bools : On(u, m) = IF m = mode THEN on ELSE On(t, m)
<1> DEFINE u == Terminal!ApplyMode(t, mode, on)
           x == Terminal!Pick(on, mode)
           b == [m \in DOMAIN t.bools \cup {mode} |-> IF m = mode THEN on ELSE t.bools[m]]
<1> USE DEF Trackers, Parser
<1>1. CASE mode \in AltModes
  <2>0. mode \notin MouseModes /\ mode \notin EncodingModes /\ mode \notin Bools
    BY <1>1, KindsApart
  <2>1. u = [t EXCEPT !.alt = x]
    BY <1>1 DEF Terminal!ApplyMode
  <2>2. u.bools = t.bools
    BY <2>1
  <2>3. \A m \in Bools : On(u, m) = IF m = mode THEN on ELSE On(t, m)
    BY <1>1, <2>2, KindsApart, Zenon DEF On
  <2>4. Parser(u) = Parser(t) /\ u.alt = x /\ u.mouse = t.mouse /\ u.encoding = t.encoding
    BY <2>1
  <2>5. u.alt = IF mode \in AltModes THEN x ELSE t.alt
    BY <1>1, <2>0, <2>4, Zenon
  <2>6. u.mouse = IF mode \in MouseModes THEN x ELSE t.mouse
    BY <1>1, <2>0, <2>4, Zenon
  <2>7. u.encoding = IF mode \in EncodingModes THEN x ELSE t.encoding
    BY <1>1, <2>0, <2>4, Zenon
  <2> QED
    BY <2>3, <2>4, <2>5, <2>6, <2>7, Zenon
<1>2. CASE mode \in MouseModes
  <2>0. mode \notin AltModes /\ mode \notin EncodingModes /\ mode \notin Bools
    BY <1>2, KindsApart
  <2>1. u = [t EXCEPT !.mouse = x]
    BY <1>2, KindsApart DEF Terminal!ApplyMode
  <2>2. u.bools = t.bools
    BY <2>1
  <2>3. \A m \in Bools : On(u, m) = IF m = mode THEN on ELSE On(t, m)
    BY <1>2, <2>2, KindsApart, Zenon DEF On
  <2>4. Parser(u) = Parser(t) /\ u.alt = t.alt /\ u.mouse = x /\ u.encoding = t.encoding
    BY <2>1
  <2>5. u.alt = IF mode \in AltModes THEN x ELSE t.alt
    BY <1>2, <2>0, <2>4, Zenon
  <2>6. u.mouse = IF mode \in MouseModes THEN x ELSE t.mouse
    BY <1>2, <2>0, <2>4, Zenon
  <2>7. u.encoding = IF mode \in EncodingModes THEN x ELSE t.encoding
    BY <1>2, <2>0, <2>4, Zenon
  <2> QED
    BY <2>3, <2>4, <2>5, <2>6, <2>7, Zenon
<1>3. CASE mode \in EncodingModes
  <2>0. mode \notin AltModes /\ mode \notin MouseModes /\ mode \notin Bools
    BY <1>3, KindsApart
  <2>1. u = [t EXCEPT !.encoding = x]
    BY <1>3, KindsApart DEF Terminal!ApplyMode
  <2>2. u.bools = t.bools
    BY <2>1
  <2>3. \A m \in Bools : On(u, m) = IF m = mode THEN on ELSE On(t, m)
    BY <1>3, <2>2, KindsApart, Zenon DEF On
  <2>4. Parser(u) = Parser(t) /\ u.alt = t.alt /\ u.mouse = t.mouse /\ u.encoding = x
    BY <2>1
  <2>5. u.alt = IF mode \in AltModes THEN x ELSE t.alt
    BY <1>3, <2>0, <2>4, Zenon
  <2>6. u.mouse = IF mode \in MouseModes THEN x ELSE t.mouse
    BY <1>3, <2>0, <2>4, Zenon
  <2>7. u.encoding = IF mode \in EncodingModes THEN x ELSE t.encoding
    BY <1>3, <2>0, <2>4, Zenon
  <2> QED
    BY <2>3, <2>4, <2>5, <2>6, <2>7, Zenon
<1>4. CASE mode \in Bools
  <2>0. mode \notin AltModes /\ mode \notin MouseModes /\ mode \notin EncodingModes
    BY <1>4, KindsApart
  <2>1. u = [t EXCEPT !.bools = b]
    BY <1>4, <2>0 DEF Terminal!ApplyMode, Bools
  <2>2. u.bools = b
    <3> HIDE DEF b
    <3> QED
      BY <2>1
  <2>3. \A m \in Bools : On(u, m) = IF m = mode THEN on ELSE On(t, m)
    <3> SUFFICES ASSUME NEW m \in Bools PROVE On(u, m) = IF m = mode THEN on ELSE On(t, m)
      OBVIOUS
    <3>1. DOMAIN u.bools = DOMAIN t.bools \cup {mode}
      BY <2>2, Zenon
    <3>2. CASE m = mode
      BY <2>2, <3>1, <3>2, Zenon DEF On
    <3>3. CASE m # mode /\ m \in DOMAIN t.bools
      <4>1. u.bools[m] = t.bools[m]
        BY <2>2, <3>3, Zenon
      <4> QED
        BY <3>1, <3>3, <4>1, Zenon DEF On
    <3>4. CASE m # mode /\ m \notin DOMAIN t.bools
      BY <3>1, <3>4, Zenon DEF On
    <3> QED
      BY <3>2, <3>3, <3>4, Zenon
  <2> HIDE DEF x, b
  <2> QED
    BY <1>4, <2>0, <2>1, <2>3
<1>5. CASE mode \notin AltModes \cup MouseModes \cup EncodingModes \cup Bools
  <2>1. u = t
    BY <1>5 DEF Terminal!ApplyMode, Bools
  <2>3. \A m \in Bools : m # mode
    BY <1>5
  <2>4. \A m \in Bools : On(u, m) = IF m = mode THEN on ELSE On(t, m)
    <3> HIDE DEF u
    <3> QED
      BY <2>1, <2>3, Zenon
  <2> HIDE DEF x
  <2> QED
    BY <1>5, <2>1, <2>4
<1> QED
  BY <1>1, <1>2, <1>3, <1>4, <1>5

-----------------------------------------------------------------------------
(* Two trackers that read the same *)

\* A setting of two trackers went from v and w to v2 and w2: to the same, or not at all.
SetAlike(v, w, v2, w2) == v2 = w2 \/ (v2 = v /\ w2 = w)

\* Every setting of the trackers t and u did.
Alike(t, u, t2, u2) ==
  /\ SetAlike(t.alt, u.alt, t2.alt, u2.alt)
  /\ SetAlike(t.mouse, u.mouse, t2.mouse, u2.mouse)
  /\ SetAlike(t.encoding, u.encoding, t2.encoding, u2.encoding)
  /\ \A m \in Bools : SetAlike(On(t, m), On(u, m), On(t2, m), On(u2, m))

LEMMA AlikeTwice ==
  ASSUME NEW t, NEW u, NEW t1, NEW u1, NEW t2, NEW u2, Alike(t, u, t1, u1), Alike(t1, u1,
         t2, u2)
  PROVE  Alike(t, u, t2, u2)
<1>1. \A v, w, v1, w1, v2, w2 :
        SetAlike(v, w, v1, w1) /\ SetAlike(v1, w1, v2, w2) => SetAlike(v, w, v2, w2)
  BY Zenon DEF SetAlike
<1> QED
  BY <1>1, Zenon DEF Alike

\* A mode set in two trackers.
LEMMA ModeSetAlike ==
  ASSUME NEW t \in Trackers, NEW u \in Trackers, NEW mode \in Terminal!Tokens,
         NEW on \in BOOLEAN
  PROVE  Alike(t, u, Terminal!ApplyMode(t, mode, on), Terminal!ApplyMode(u, mode, on))
<1> DEFINE t2 == Terminal!ApplyMode(t, mode, on)
           u2 == Terminal!ApplyMode(u, mode, on)
           x == Terminal!Pick(on, mode)
<1>1. /\ t2.alt = IF mode \in AltModes THEN x ELSE t.alt
      /\ t2.mouse = IF mode \in MouseModes THEN x ELSE t.mouse
      /\ t2.encoding = IF mode \in EncodingModes THEN x ELSE t.encoding
      /\ \A m \in Bools : On(t2, m) = IF m = mode THEN on ELSE On(t, m)
  BY ApplyModeIs
<1>2. /\ u2.alt = IF mode \in AltModes THEN x ELSE u.alt
      /\ u2.mouse = IF mode \in MouseModes THEN x ELSE u.mouse
      /\ u2.encoding = IF mode \in EncodingModes THEN x ELSE u.encoding
      /\ \A m \in Bools : On(u2, m) = IF m = mode THEN on ELSE On(u, m)
  BY ApplyModeIs
<1> HIDE DEF t2, u2, x
<1>3. SetAlike(t.alt, u.alt, t2.alt, u2.alt)
  BY <1>1, <1>2, Zenon DEF SetAlike
<1>4. SetAlike(t.mouse, u.mouse, t2.mouse, u2.mouse)
  BY <1>1, <1>2, Zenon DEF SetAlike
<1>5. SetAlike(t.encoding, u.encoding, t2.encoding, u2.encoding)
  BY <1>1, <1>2, Zenon DEF SetAlike
<1>6. \A m \in Bools : SetAlike(On(t, m), On(u, m), On(t2, m), On(u2, m))
  BY <1>1, <1>2, Zenon DEF SetAlike
<1>7. Alike(t, u, t2, u2)
  BY <1>3, <1>4, <1>5, <1>6, Zenon DEF Alike
<1> QED
  BY <1>7 DEF t2, u2

\* A sequence applied to two trackers; how far they have read does not change.
LEMMA AppliedAlike ==
  ASSUME NEW t \in Trackers, NEW u \in Trackers, NEW params \in Seq(Terminal!Tokens),
         NEW on \in BOOLEAN
  PROVE  LET t2 == Terminal!Applied(t, params, on)[Len(params)]
             u2 == Terminal!Applied(u, params, on)[Len(params)] IN
         /\ t2 \in Trackers /\ u2 \in Trackers
         /\ Alike(t, u, t2, u2) /\ Parser(t2) = Parser(t) /\ Parser(u2) = Parser(u)
<1> DEFINE N == Len(params)
           f == Terminal!Applied(t, params, on)
           g == Terminal!Applied(u, params, on)
           So(n) == Alike(t, u, f[n], g[n]) /\ Parser(f[n]) = Parser(t) /\ Parser(g[n]) = Parser(u)
           Good == {n \in 0..N : So(n)}
<1>1. /\ f[0] = t /\ \A n \in 0..N : f[n] \in Trackers
      /\ \A n \in 1..N : f[n] = Terminal!ApplyMode(f[n - 1], params[n], on)
  BY AppliedIs
<1>2. /\ g[0] = u /\ \A n \in 0..N : g[n] \in Trackers
      /\ \A n \in 1..N : g[n] = Terminal!ApplyMode(g[n - 1], params[n], on)
  BY AppliedIs
<1> HIDE DEF f, g
<1>3. 0 \in Good
  <2>1. So(0)
    BY <1>1, <1>2, Zenon DEF Alike, SetAlike
  <2>2. 0 \in 0..N
    OBVIOUS
  <2> HIDE DEF So
  <2> QED
    BY <2>1, <2>2
<1>4. ASSUME NEW n \in 0..N, n \in Good, n # N PROVE n + 1 \in Good
  <2>1. n + 1 \in 1..N /\ n + 1 \in 0..N /\ (n + 1) - 1 = n /\ params[n + 1] \in Terminal!Tokens
    BY <1>4
  <2>2. f[n + 1] = Terminal!ApplyMode(f[n], params[n + 1], on)
    BY <1>1, <2>1
  <2>3. g[n + 1] = Terminal!ApplyMode(g[n], params[n + 1], on)
    BY <1>2, <2>1
  <2>4. f[n] \in Trackers /\ g[n] \in Trackers
    BY <1>1, <1>2
  <2>5. Alike(f[n], g[n], f[n + 1], g[n + 1])
    BY <2>1, <2>2, <2>3, <2>4, ModeSetAlike
  <2>6. Parser(f[n + 1]) = Parser(f[n]) /\ Parser(g[n + 1]) = Parser(g[n])
    BY <2>1, <2>2, <2>3, <2>4, ApplyModeIs
  <2>7. So(n)
    BY <1>4
  <2>8. Alike(t, u, f[n + 1], g[n + 1])
    BY <2>5, <2>7, AlikeTwice
  <2> QED
    BY <2>1, <2>6, <2>7, <2>8
<1>5. N \in Nat
  OBVIOUS
<1>6. N \in Good
  <2> HIDE DEF Good, N
  <2> QED
    BY <1>3, <1>4, <1>5, Climb
<1> QED
  BY <1>1, <1>2, <1>5, <1>6 DEF f, g

\* What a sequence sets, it sets in both.
LEMMA ApplyAlike ==
  ASSUME NEW t \in Trackers, NEW u \in Trackers, NEW params \in Seq(Terminal!Tokens),
         NEW on \in BOOLEAN
  PROVE  LET t2 == Terminal!Apply(t, params, on)
             u2 == Terminal!Apply(u, params, on) IN
         t2 \in Trackers /\ u2 \in Trackers /\ Alike(t, u, t2, u2)
<1>1. CASE params # <<>> /\ Head(params) = "?"
  <2> DEFINE rest == Tail(params)
  <2>1. rest \in Seq(Terminal!Tokens) /\ Len(rest) = Len(params) - 1
    BY <1>1
  <2>2. /\ Terminal!Apply(t, params, on) = Terminal!Applied(t, rest, on)[Len(rest)]
        /\ Terminal!Apply(u, params, on) = Terminal!Applied(u, rest, on)[Len(rest)]
    BY <1>1, <2>1, Zenon DEF Terminal!Apply
  <2> HIDE DEF rest
  <2> QED
    BY <2>1, <2>2, AppliedAlike
<1>2. CASE ~(params # <<>> /\ Head(params) = "?")
  BY <1>2, Zenon DEF Terminal!Apply, Alike, SetAlike
<1> QED
  BY <1>1, <1>2

\* Two trackers that have read as far read a token alike.
LEMMA ATokenIsReadAlike ==
  ASSUME NEW t \in Bounded, NEW u \in Bounded, Parser(t) = Parser(u),
         NEW b \in Terminal!Tokens
  PROVE  LET t2 == Terminal!Process(t, b)
             u2 == Terminal!Process(u, b) IN
         Alike(t, u, t2, u2) /\ Parser(t2) = Parser(u2)
<1> DEFINE t2 == Terminal!Process(t, b)
           u2 == Terminal!Process(u, b)
           Moved(v, v2) == /\ v2.alt = v.alt /\ v2.mouse = v.mouse /\ v2.encoding = v.encoding
                           /\ v2.bools = v.bools
<1>1. t \in Trackers /\ u \in Trackers /\ t.state = u.state /\ t.params = u.params
      /\ t.overflow = u.overflow /\ t.params \in Seq(Terminal!Tokens)
  BY DEF Bounded, Parser, Trackers
<1>2. ASSUME NEW v, NEW w, NEW v2, NEW w2, Moved(v, v2), Moved(w, w2)
      PROVE  Alike(v, w, v2, w2)
  <2>1. \A m \in Bools : On(v2, m) = On(v, m) /\ On(w2, m) = On(w, m)
    BY <1>2, Zenon DEF On
  <2> QED
    BY <1>2, <2>1, Zenon DEF Alike, SetAlike
<1>3. \A v \in Trackers, s \in {"ground", "escape", "csi"} :
        /\ Moved(v, [v EXCEPT !.state = s])
        /\ Parser([v EXCEPT !.state = s]) = <<s, v.params, v.overflow>>
  BY DEF Trackers, Parser
<1>4. CASE ~(t.state = "csi")
  <2>1. \/ t2 = t /\ u2 = u
        \/ \E s \in {"ground", "escape", "csi"} :
             t2 = [t EXCEPT !.state = s] /\ u2 = [u EXCEPT !.state = s]
    BY <1>1, <1>4 DEF Terminal!Process, Terminal!InEscape, Trackers
  <2>2. Moved(t, t2) /\ Moved(u, u2) /\ Parser(t2) = Parser(u2)
    <3> HIDE DEF t2, u2
    <3>1. CASE t2 = t /\ u2 = u
      BY <3>1
    <3>2. ASSUME NEW s \in {"ground", "escape", "csi"},
                 t2 = [t EXCEPT !.state = s] /\ u2 = [u EXCEPT !.state = s]
          PROVE  Moved(t, t2) /\ Moved(u, u2) /\ Parser(t2) = Parser(u2)
      <4> HIDE DEF Moved
      <4> QED
        BY <1>1, <1>3, <3>2
    <3> HIDE DEF Moved
    <3> QED
      BY <2>1, <3>1, <3>2
  <2> HIDE DEF t2, u2, Moved
  <2>3. Alike(t, u, t2, u2)
    BY <1>2, <2>2
  <2> QED
    BY <2>2, <2>3 DEF t2, u2
<1>5. CASE t.state = "csi"
  <2> DEFINE Ended(v, s) == [v EXCEPT !.state = s, !.params = <<>>, !.overflow = FALSE]
  <2>1. t2 = Terminal!InCSI(t, b) /\ u2 = Terminal!InCSI(u, b)
    BY <1>1, <1>5 DEF Terminal!Process
  <2>2. \A v \in Trackers, s \in {"ground", "escape"} :
          Moved(v, Ended(v, s)) /\ Parser(Ended(v, s)) = <<s, <<>>, FALSE>>
    BY DEF Trackers, Parser
  <2>3. CASE b = "ESC"
    <3>1. t2 = Ended(t, "escape") /\ u2 = Ended(u, "escape")
      BY <2>1, <2>3 DEF Terminal!InCSI
    <3> HIDE DEF t2, u2, Ended, Moved
    <3>2. Moved(t, t2) /\ Moved(u, u2) /\ Parser(t2) = Parser(u2)
      BY <1>1, <2>2, <3>1
    <3>3. Alike(t, u, t2, u2)
      BY <1>2, <3>2
    <3> QED
      BY <3>2, <3>3 DEF t2, u2
  <2>4. CASE b \in {"h", "l", "["}
    <3> DEFINE v == IF ~t.overflow /\ b \in {"h", "l"}
                    THEN Terminal!Apply(t, t.params, b = "h") ELSE t
               w == IF ~u.overflow /\ b \in {"h", "l"}
                    THEN Terminal!Apply(u, u.params, b = "h") ELSE u
    <3>1. t2 = Ended(v, "ground") /\ u2 = Ended(w, "ground")
      BY <2>1, <2>4 DEF Terminal!InCSI
    <3>2. v \in Trackers /\ w \in Trackers /\ Alike(t, u, v, w)
      <4>1. (b = "h") \in BOOLEAN
        OBVIOUS
      <4>2. /\ Terminal!Apply(t, t.params, b = "h") \in Trackers
            /\ Terminal!Apply(u, u.params, b = "h") \in Trackers
            /\ Alike(t, u, Terminal!Apply(t, t.params, b = "h"), Terminal!Apply(u, u.params, b = "h"))
        BY <1>1, <4>1, ApplyAlike
      <4>3. Alike(t, u, t, u)
        BY Zenon DEF Alike, SetAlike
      <4>4. CASE ~t.overflow /\ b \in {"h", "l"}
        BY <1>1, <4>2, <4>4
      <4>5. CASE ~(~t.overflow /\ b \in {"h", "l"})
        BY <1>1, <4>3, <4>5
      <4> QED
        BY <4>4, <4>5
    <3> HIDE DEF t2, u2, v, w, Ended, Moved
    <3>3. Moved(v, t2) /\ Moved(w, u2) /\ Parser(t2) = Parser(u2)
      BY <2>2, <3>1, <3>2
    <3>4. Alike(v, w, t2, u2)
      BY <1>2, <3>3
    <3>5. Alike(t, u, t2, u2)
      BY <3>2, <3>4, AlikeTwice
    <3> QED
      BY <3>3, <3>5 DEF t2, u2
  <2>5. CASE b # "ESC" /\ b \notin {"h", "l", "["}
    <3> DEFINE More(v) == IF Len(v.params) < MaxParams THEN [v EXCEPT !.params = Append(@, b)]
                          ELSE [v EXCEPT !.overflow = TRUE]
    <3>1. t2 = More(t) /\ u2 = More(u)
      BY <2>1, <2>5 DEF Terminal!InCSI
    <3>2. \A v \in Trackers :
            /\ Moved(v, More(v))
            /\ Parser(More(v)) = IF Len(v.params) < MaxParams
                                 THEN <<v.state, Append(v.params, b), v.overflow>>
                                 ELSE <<v.state, v.params, TRUE>>
      BY DEF Trackers, Parser
    <3> HIDE DEF t2, u2, More, Moved
    <3>3. Moved(t, t2) /\ Moved(u, u2) /\ Parser(t2) = Parser(u2)
      BY <1>1, <3>1, <3>2
    <3>4. Alike(t, u, t2, u2)
      BY <1>2, <3>3
    <3> QED
      BY <3>3, <3>4 DEF t2, u2
  <2> QED
    BY <2>3, <2>4, <2>5
<1> QED
  BY <1>4, <1>5

-----------------------------------------------------------------------------
(* The preamble *)

\* A tracker between two sequences.
Ready(t) == t \in Bounded /\ Parser(t) = <<"ground", <<>>, FALSE>>

\* u is t with one mode set.
IsSet(t, u, mode, on) ==
  LET x == Terminal!Pick(on, mode) IN
  /\ u.alt = IF mode \in AltModes THEN x ELSE t.alt
  /\ u.mouse = IF mode \in MouseModes THEN x ELSE t.mouse
  /\ u.encoding = IF mode \in EncodingModes THEN x ELSE t.encoding
  /\ \A m \in Bools : On(u, m) = IF m = mode THEN on ELSE On(t, m)

\* The modes that there are.
KnownModes == AltModes \cup MouseModes \cup EncodingModes \cup Bools

LEMMA AppendToOne ==
  ASSUME NEW S, NEW x \in S, NEW y \in S
  PROVE  Append(<<x>>, y) = <<x, y>> /\ Len(<<x>>) = 1
<1> DEFINE s == <<x>>
           r == Append(s, y)
<1>1. s \in Seq(S) /\ Len(s) = 1
  OBVIOUS
<1>2. r \in Seq(S) /\ Len(r) = 2 /\ r[1] = x /\ r[2] = y
  BY <1>1
<1> HIDE DEF r
<1>3. r = <<x, y>>
  BY <1>2
<1> QED
  BY <1>1, <1>3 DEF r

\* What the preamble writes is read as what it says.
LEMMA SequenceSets ==
  ASSUME NEW t, Ready(t), NEW mode \in KnownModes, NEW on \in BOOLEAN
  PROVE  LET s == Terminal!Sequence(mode, IF on THEN "h" ELSE "l")
             u == Terminal!ProcessAll(t, s) IN
         s \in Seq(Terminal!Tokens) /\ Ready(u) /\ IsSet(t, u, mode, on)
<1> DEFINE final == IF on THEN "h" ELSE "l"
           s1 == <<"ESC">>
           s2 == <<"ESC", "[">>
           s3 == <<"ESC", "[", "?">>
           s4 == <<"ESC", "[", "?", mode>>
           s5 == <<"ESC", "[", "?", mode, final>>
           t1 == [t EXCEPT !.state = "escape"]
           t2 == [t EXCEPT !.state = "csi"]
           t3 == [t EXCEPT !.state = "csi", !.params = <<"?">>]
           t4 == [t EXCEPT !.state = "csi", !.params = <<"?", mode>>]
           a == Terminal!ApplyMode(t4, mode, on)
           u == [a EXCEPT !.state = "ground", !.params = <<>>, !.overflow = FALSE]
           All(s) == Terminal!ProcessAll(t, s)
<1>1. /\ t \in Trackers /\ t \in Bounded
      /\ t.state = "ground" /\ t.params = <<>> /\ t.overflow = FALSE
  BY DEF Ready, Bounded, Parser
<1>2. /\ "ESC" \in Terminal!Tokens /\ "[" \in Terminal!Tokens /\ "?" \in Terminal!Tokens
      /\ mode \in Terminal!Tokens /\ final \in Terminal!Tokens
  BY DEF Terminal!Tokens, KnownModes, Bools, Terminal!ToSet
<1>3. MaxParams \in Nat /\ MaxParams >= 2
  BY ModesAssumption
<1>4. mode \notin {"0", "ESC", "[", "?", "h", "l"}
  BY KindsApart DEF KnownModes
<1>5. /\ <<>> \in Seq(Terminal!Tokens) /\ s1 \in Seq(Terminal!Tokens)
      /\ s2 \in Seq(Terminal!Tokens) /\ s3 \in Seq(Terminal!Tokens)
      /\ s4 \in Seq(Terminal!Tokens) /\ s5 \in Seq(Terminal!Tokens)
  BY <1>2
<1>6. /\ s1 = Append(<<>>, "ESC") /\ s2 = Append(s1, "[") /\ s3 = Append(s2, "?")
      /\ s4 = Append(s3, mode) /\ s5 = Append(s4, final)
  OBVIOUS
<1>17. /\ All(<<>>) = t
       /\ \A s \in Seq(Terminal!Tokens), b \in Terminal!Tokens :
            All(Append(s, b)) = Terminal!Process(All(s), b)
  BY <1>1, <1>5, ProcessAllIs
<1> HIDE DEF All, s1, s2, s3, s4, s5
<1>7. All(s1) = t1
  <2>1. All(s1) = Terminal!Process(t, "ESC")
    BY <1>2, <1>5, <1>6, <1>17
  <2> QED
    BY <1>1, <2>1 DEF Terminal!Process
<1>8. All(s2) = t2
  <2>1. All(s2) = Terminal!Process(t1, "[")
    <3> HIDE DEF t1
    <3> QED
      BY <1>2, <1>5, <1>6, <1>7, <1>17
  <2>2. t1.state = "escape" /\ [t1 EXCEPT !.state = "csi"] = t2
    BY <1>1 DEF Trackers
  <2> HIDE DEF t1, t2
  <2> QED
    BY <2>1, <2>2 DEF Terminal!Process, Terminal!InEscape
<1>9. All(s3) = t3
  <2>1. All(s3) = Terminal!Process(t2, "?")
    <3> HIDE DEF t2
    <3> QED
      BY <1>2, <1>5, <1>6, <1>8, <1>17
  <2>2. t2.state = "csi" /\ t2.params = <<>> /\ [t2 EXCEPT !.params = <<"?">>] = t3
    BY <1>1 DEF Trackers
  <2>3. Len(t2.params) < MaxParams /\ Append(t2.params, "?") = <<"?">>
    <3> HIDE DEF t2, t3
    <3> QED
      BY <1>3, <2>2
  <2> HIDE DEF t2, t3
  <2> QED
    BY <2>1, <2>2, <2>3 DEF Terminal!Process, Terminal!InCSI
<1>10. All(s4) = t4
  <2>1. All(s4) = Terminal!Process(t3, mode)
    <3> HIDE DEF t3
    <3> QED
      BY <1>2, <1>5, <1>6, <1>9, <1>17
  <2>2. t3.state = "csi" /\ t3.params = <<"?">> /\ [t3 EXCEPT !.params = <<"?", mode>>] = t4
    BY <1>1 DEF Trackers
  <2>3. Len(t3.params) < MaxParams /\ Append(t3.params, mode) = <<"?", mode>>
    <3>1. Append(<<"?">>, mode) = <<"?", mode>> /\ Len(<<"?">>) = 1
      BY <1>2, AppendToOne
    <3>2. 1 < MaxParams
      BY <1>3
    <3> HIDE DEF t3, t4
    <3> QED
      BY <2>2, <3>1, <3>2, Zenon
  <2> HIDE DEF t3, t4
  <2> QED
    BY <1>4, <2>1, <2>2, <2>3 DEF Terminal!Process, Terminal!InCSI
<1>11. t4 \in Trackers /\ t4.state = "csi" /\ t4.params = <<"?", mode>> /\ t4.overflow = FALSE
  <2>1. <<"?", mode>> \in Seq(Terminal!Tokens)
    BY <1>2
  <2> QED
    BY <1>1, <2>1 DEF Trackers
<1>12. Terminal!Apply(t4, t4.params, on) = a
  <2> DEFINE p == <<mode>>
  <2>1. p \in Seq(Terminal!Tokens) /\ Len(p) = 1 /\ p[1] = mode
    BY <1>2
  <2>2. t4.params # <<>> /\ Head(t4.params) = "?" /\ Tail(t4.params) = p /\ Len(t4.params) - 1 = 1
    BY <1>11
  <2>3. Terminal!Apply(t4, t4.params, on) = Terminal!Applied(t4, p, on)[1]
    <3> HIDE DEF p, t4
    <3> QED
      BY <2>2, Zenon DEF Terminal!Apply
  <2> HIDE DEF p, t4
  <2>4. /\ Terminal!Applied(t4, p, on)[0] = t4
        /\ \A n \in 1..Len(p) :
             Terminal!Applied(t4, p, on)[n] =
               Terminal!ApplyMode(Terminal!Applied(t4, p, on)[n - 1], p[n], on)
    BY <1>11, <2>1, AppliedIs, SMTT(30)
  <2>5. Terminal!Applied(t4, p, on)[1] = Terminal!ApplyMode(Terminal!Applied(t4, p, on)[0], p[1], on)
    <3>1. 1 \in 1..Len(p) /\ 1 - 1 = 0
      BY <2>1
    <3> QED
      BY <2>4, <3>1
  <2> QED
    BY <2>1, <2>3, <2>4, <2>5
<1>13. All(s5) = u
  <2>1. All(s5) = Terminal!Process(t4, final)
    <3> HIDE DEF t4, final
    <3> QED
      BY <1>2, <1>5, <1>6, <1>10, <1>17
  <2>2. final \in {"h", "l"} /\ (final = "h") = on
    OBVIOUS
  <2> HIDE DEF final, t4, a
  <2>3. All(s5) = Terminal!InCSI(t4, final)
    BY <1>11, <2>1 DEF Terminal!Process
  <2> QED
    BY <1>11, <1>12, <2>2, <2>3 DEF Terminal!InCSI
<1>14. IsSet(t, u, mode, on)
  <2>1. t4.alt = t.alt /\ t4.mouse = t.mouse /\ t4.encoding = t.encoding /\ t4.bools = t.bools
    BY <1>1 DEF Trackers
  <2>2. a \in Trackers
    <3> HIDE DEF t4
    <3> QED
      BY <1>2, <1>11, AModeKeepsTheType
  <2>3. u.alt = a.alt /\ u.mouse = a.mouse /\ u.encoding = a.encoding /\ u.bools = a.bools
    <3> HIDE DEF a
    <3> QED
      BY <2>2 DEF Trackers
  <2>4. \A m \in Bools : On(t4, m) = On(t, m)
    <3> HIDE DEF t4
    <3> QED
      BY <2>1, Zenon DEF On
  <2>5. \A m \in Bools : On(u, m) = On(a, m)
    <3> HIDE DEF u, a
    <3> QED
      BY <2>3, Zenon DEF On
  <2>6. IsSet(t4, a, mode, on)
    <3> HIDE DEF t4
    <3> QED
      BY <1>2, <1>11, ApplyModeIs DEF IsSet
  <2> HIDE DEF t4, u, a
  <2> QED
    BY <2>1, <2>3, <2>4, <2>5, <2>6, Zenon DEF IsSet
<1>15. Ready(u)
  <2>1. All(s5) \in Bounded
    BY <1>1, <1>5, ProcessAllIs DEF All
  <2>2. Parser(u) = <<"ground", <<>>, FALSE>>
    <3>1. a \in Trackers
      <4> HIDE DEF t4
      <4> QED
        BY <1>2, <1>11, AModeKeepsTheType
    <3> HIDE DEF a
    <3> QED
      BY <3>1 DEF Parser, Trackers
  <2> HIDE DEF u, s5
  <2> QED
    BY <1>13, <2>1, <2>2 DEF Ready
<1>16. Terminal!Sequence(mode, final) = s5
  BY DEF Terminal!Sequence, s5
<1> HIDE DEF u, s5, final
<1>18. s5 \in Seq(Terminal!Tokens) /\ Ready(All(s5)) /\ IsSet(t, All(s5), mode, on)
  BY <1>5, <1>13, <1>14, <1>15
<1> QED
  BY <1>16, <1>18 DEF final, All

\* The preamble of the modes of the list is what its recursion describes.
LEMMA BoolPreamblesIs ==
  ASSUME NEW t,
         \A n \in 1..Len(BoolModes) : Terminal!BoolSequence(t, BoolModes[n]) \in Seq(Terminal!Tokens)
  PROVE  LET g == Terminal!BoolPreambles(t) IN
         /\ g[0] = <<>>
         /\ \A n \in 0..Len(BoolModes) : g[n] \in Seq(Terminal!Tokens)
         /\ \A n \in 1..Len(BoolModes) :
              g[n] = g[n - 1] \o Terminal!BoolSequence(t, BoolModes[n])
<1> DEFINE N == Len(BoolModes)
           U == Seq(Terminal!Tokens)
           piece(n) == Terminal!BoolSequence(t, BoolModes[n])
           step == [n \in 0..N |-> [s \in U |-> IF n = 0 THEN s ELSE s \o piece(n)]]
           Sent(f) == f = [n \in 0..N |-> IF n = 0 THEN <<>> ELSE f[n - 1] \o piece(n)]
<1>1. N \in Nat /\ <<>> \in U
  BY ModesAssumption
<1>2. IsStepOn(step, N, U)
  <2>1. \A n \in 0..N : n # 0 => piece(n) \in U
    BY <1>1
  <2>2. \A r, s \in U : r \o s \in U
    OBVIOUS
  <2> HIDE DEF piece, U, N
  <2> QED
    BY <2>1, <2>2 DEF IsStepOn
<1>3. PICK f : Iterates(f, N, U, <<>>, step)
  <2> HIDE DEF N, step, U
  <2> QED
    BY <1>1, <1>2, StepsIterate
<1> HIDE DEF piece, U, N
<1>4. \A n \in 0..N : n # 0 => f[n] = f[n - 1] \o piece(n)
  <2> SUFFICES ASSUME NEW n \in 0..N, n # 0 PROVE f[n] = f[n - 1] \o piece(n)
    OBVIOUS
  <2>1. n - 1 \in 0..N
    BY <1>1
  <2>2. f[n - 1] \in U
    BY <1>3, <2>1 DEF Iterates
  <2>3. f[n] = step[n][f[n - 1]]
    <3> HIDE DEF step
    <3> QED
      BY <1>3 DEF Iterates
  <2> QED
    BY <2>2, <2>3
<1>5. Sent(f)
  <2> HIDE DEF step
  <2> QED
    BY <1>1, <1>3, <1>4 DEF Iterates
<1> DEFINE g == Terminal!BoolPreambles(t)
<1>6. Sent(g)
  <2>1. \E h : Sent(h)
    BY <1>5
  <2> QED
    BY <2>1, Zenon DEF Terminal!BoolPreambles, N, piece
<1> HIDE DEF g
<1>7. g[0] = <<>> /\ \A n \in 0..N : n # 0 => g[n] = g[n - 1] \o piece(n)
  <2>1. \A n \in 0..N : g[n] = IF n = 0 THEN <<>> ELSE g[n - 1] \o piece(n)
    BY <1>6, Zenon
  <2>2. 0 \in 0..N
    BY <1>1
  <2> QED
    BY <2>1, <2>2, Zenon
<1> DEFINE Typed == {n \in 0..N : g[n] \in U}
<1>8. ASSUME NEW n \in 0..N, n \in Typed, n # N PROVE n + 1 \in Typed
  <2>1. n + 1 \in 0..N /\ n + 1 # 0 /\ (n + 1) - 1 = n /\ n + 1 \in 1..N
    BY <1>1, <1>8
  <2>2. g[n + 1] = g[n] \o piece(n + 1)
    BY <1>7, <2>1
  <2>3. piece(n + 1) \in U /\ g[n] \in U
    BY <1>8, <2>1 DEF piece, N, U
  <2>4. g[n] \o piece(n + 1) \in U
    BY <2>3 DEF U
  <2> QED
    BY <2>1, <2>2, <2>4
<1>9. 0 \in Typed
  BY <1>1, <1>7
<1>10. \A n \in 0..N : n \in Typed
  <2> HIDE DEF Typed
  <2> QED
    BY <1>1, <1>8, <1>9, ClimbAll
<1>11. \A n \in 1..N : g[n] = g[n - 1] \o piece(n)
  <2> TAKE n \in 1..N
  <2>1. n \in 0..N /\ n # 0
    BY <1>1
  <2> QED
    BY <1>7, <2>1
<1> QED
  BY <1>7, <1>10, <1>11 DEF g, N, piece, U

\* Of a mode that is on or off, the preamble says what differs from the default.
LEMMA BoolSequenceIs ==
  ASSUME NEW t \in Trackers, NEW mode \in Bools
  PROVE  LET s == Terminal!BoolSequence(t, mode) IN
         \/ s = <<>> /\ On(t, mode) = (mode \in DefaultOn)
         \/ \E on \in BOOLEAN : /\ s = Terminal!Sequence(mode, IF on THEN "h" ELSE "l")
                                /\ On(t, mode) = on
<1>1. mode \in DOMAIN t.bools => t.bools[mode] \in BOOLEAN
  BY DEF Trackers
<1> DEFINE b == t.bools
<1>2. CASE mode \notin DOMAIN b
  BY <1>2, Zenon DEF On, Terminal!BoolSequence
<1>3. CASE mode \in DOMAIN b /\ b[mode] = (mode \in DefaultOn)
  BY <1>3, Zenon DEF On, Terminal!BoolSequence
<1>4. CASE mode \in DOMAIN b /\ b[mode] # (mode \in DefaultOn)
  BY <1>1, <1>4, Zenon DEF On, Terminal!BoolSequence
<1> QED
  BY <1>2, <1>3, <1>4

\* u is t but for the modes of the list.
Others(t, u) == u.alt = t.alt /\ u.mouse = t.mouse /\ u.encoding = t.encoding

\* A terminal at power-on that reads the first piece of the preamble has the modes of the list.
LEMMA BoolPreambleSets ==
  ASSUME NEW t \in Trackers
  PROVE  LET s == Terminal!BoolPreamble(t)
             u == Terminal!ProcessAll(Terminal!Fresh, s) IN
         /\ s \in Seq(Terminal!Tokens) /\ Ready(u) /\ Others(Terminal!Fresh, u)
         /\ \A m \in Bools : On(u, m) = On(t, m)
<1> DEFINE N == Len(BoolModes)
           fresh == Terminal!Fresh
           piece(n) == Terminal!BoolSequence(t, BoolModes[n])
           g == Terminal!BoolPreambles(t)
           R(n) == Terminal!ProcessAll(fresh, g[n])
           So(n) == /\ Ready(R(n)) /\ Others(fresh, R(n))
                    /\ \A m \in Bools : \/ On(R(n), m) = On(t, m)
                                        \/ /\ On(R(n), m) = (m \in DefaultOn)
                                           /\ \A i \in 1..n : BoolModes[i] # m
           Good == {n \in 0..N : So(n)}
<1>1. N \in Nat /\ \A n \in 1..N : BoolModes[n] \in Bools
  BY ModesAssumption DEF Bools, Terminal!ToSet
<1>2. \A m \in Bools, on \in BOOLEAN :
        Terminal!Sequence(m, IF on THEN "h" ELSE "l") \in Seq(Terminal!Tokens)
  <2> TAKE m \in Bools, on \in BOOLEAN
  <2>1. m \in Terminal!Tokens
    BY DEF Bools, Terminal!Tokens, Terminal!ToSet
  <2> QED
    BY <2>1 DEF Terminal!Sequence, Terminal!Tokens
<1>3. \A n \in 1..N : piece(n) \in Seq(Terminal!Tokens)
  <2> TAKE n \in 1..N
  <2> HIDE DEF N
  <2>1. BoolModes[n] \in Bools
    BY <1>1
  <2>2. <<>> \in Seq(Terminal!Tokens)
    OBVIOUS
  <2> QED
    BY <1>2, <2>1, <2>2, BoolSequenceIs
<1>4. /\ g[0] = <<>>
      /\ \A n \in 0..N : g[n] \in Seq(Terminal!Tokens)
      /\ \A n \in 1..N : g[n] = g[n - 1] \o piece(n)
  BY <1>3, BoolPreamblesIs
<1>5. /\ fresh \in Bounded /\ Ready(fresh)
      /\ \A m \in Bools : On(fresh, m) = (m \in DefaultOn)
  <2>1. fresh \in Trackers
    BY FreshIsATracker
  <2>2. fresh.bools = [m \in {} |-> TRUE] /\ Parser(fresh) = <<"ground", <<>>, FALSE>>
        /\ fresh.params = <<>>
    BY DEF Terminal!Fresh, Parser
  <2>3. DOMAIN fresh.bools = {}
    BY <2>2, Zenon
  <2>4. \A m \in Bools : On(fresh, m) = (m \in DefaultOn)
    BY <2>3, Zenon DEF On
  <2>5. Len(fresh.params) <= MaxParams
    BY <2>2, ModesAssumption
  <2> HIDE DEF fresh
  <2> QED
    BY <2>1, <2>2, <2>4, <2>5 DEF Bounded, Ready
<1> HIDE DEF fresh, g, piece
<1>6. 0 \in Good
  <2>1. R(0) = fresh
    BY <1>4, <1>5, ProcessAllIs
  <2>2. So(0)
    <3> HIDE DEF R
    <3> QED
      BY <1>5, <2>1 DEF Others
  <2> HIDE DEF So
  <2> QED
    BY <1>1, <2>2
<1>7. ASSUME NEW n \in 0..N, n \in Good, n # N PROVE n + 1 \in Good
  <2> DEFINE mode == BoolModes[n + 1]
             v == R(n)
             w == R(n + 1)
  <2>1. So(n)
    BY <1>7
  <2> HIDE DEF N, Good
  <2>2. n \in Nat /\ n + 1 \in 0..N /\ n + 1 \in 1..N /\ (n + 1) - 1 = n
    BY <1>1, <1>7
  <2>3. v \in Bounded /\ Ready(v) /\ Others(fresh, v)
    BY <2>1 DEF Ready
  <2>4. w = Terminal!ProcessAll(v, piece(n + 1))
    <3>1. g[n] \in Seq(Terminal!Tokens) /\ piece(n + 1) \in Seq(Terminal!Tokens)
          /\ g[n + 1] = g[n] \o piece(n + 1)
      BY <1>3, <1>4, <1>7, <2>2
    <3> QED
      BY <1>5, <3>1, ProcessAllInPieces
  <2>5. mode \in Bools
    BY <1>1, <2>2
  <2> HIDE DEF R
  <2>6. /\ Ready(w) /\ Others(v, w)
        /\ \A m \in Bools \ {mode} : On(w, m) = On(v, m)
        /\ On(w, mode) = On(t, mode)
    <3>1. CASE piece(n + 1) = <<>> /\ On(t, mode) = (mode \in DefaultOn)
      <4>1. w = v
        <5>1. <<>> \in Seq(Terminal!Tokens)
          OBVIOUS
        <5>2. Terminal!ProcessAll(v, <<>>) = v
          BY <2>3, <5>1, ProcessAllIs
        <5> QED
          BY <2>4, <3>1, <5>2, Zenon
      <4>2. On(v, mode) = On(t, mode)
        BY <2>1, <2>5, <3>1, Zenon
      <4> HIDE DEF w, v
      <4> QED
        BY <2>3, <4>1, <4>2, Zenon DEF Others
    <3>2. ASSUME NEW on \in BOOLEAN, piece(n + 1) = Terminal!Sequence(mode, IF on THEN "h" ELSE "l"),
                 On(t, mode) = on
          PROVE  /\ Ready(w) /\ Others(v, w)
                 /\ \A m \in Bools \ {mode} : On(w, m) = On(v, m)
                 /\ On(w, mode) = On(t, mode)
      <4>1. mode \in KnownModes
        BY <2>5 DEF KnownModes
      <4> HIDE DEF v, w, mode
      <4>2. Ready(w) /\ IsSet(v, w, mode, on)
        BY <2>3, <2>4, <3>2, <4>1, SequenceSets
      <4>3. mode \notin AltModes /\ mode \notin MouseModes /\ mode \notin EncodingModes
        BY <2>5, KindsApart
      <4> QED
        BY <2>5, <3>2, <4>2, <4>3, Zenon DEF IsSet, Others
    <3> QED
      BY <2>5, <3>1, <3>2, BoolSequenceIs DEF piece
  <2>7. Others(fresh, w)
    BY <2>3, <2>6 DEF Others
  <2>8. ASSUME NEW m \in Bools
        PROVE  \/ On(w, m) = On(t, m)
               \/ On(w, m) = (m \in DefaultOn) /\ \A i \in 1..(n + 1) : BoolModes[i] # m
    <3>1. CASE m = mode
      BY <2>6, <3>1
    <3>2. CASE m # mode
      <4>1. On(w, m) = On(v, m)
        BY <2>6, <3>2
      <4>2. CASE On(v, m) = On(t, m)
        BY <4>1, <4>2
      <4>3. CASE On(v, m) = (m \in DefaultOn) /\ \A i \in 1..n : BoolModes[i] # m
        <5>1. \A i \in 1..(n + 1) : i \in 1..n \/ i = n + 1
          BY <2>2
        <5>2. \A i \in 1..(n + 1) : BoolModes[i] # m
          BY <3>2, <4>3, <5>1
        <5> HIDE DEF v, w
        <5> QED
          BY <4>1, <4>3, <5>2, Zenon
      <4> QED
        BY <2>1, <4>2, <4>3, Zenon
    <3> QED
      BY <3>1, <3>2
  <2>9. So(n + 1)
    BY <2>6, <2>7, <2>8, Zenon
  <2> HIDE DEF So
  <2> QED
    BY <2>2, <2>9 DEF Good
<1>8. N \in Good
  <2> HIDE DEF Good, N
  <2> QED
    BY <1>1, <1>6, <1>7, Climb
<1>9. So(N)
  BY <1>8
<1>10. Terminal!BoolPreamble(t) = g[N]
  BY DEF Terminal!BoolPreamble, g
<1>11. \A m \in Bools : \E i \in 1..N : BoolModes[i] = m
  BY ModesAssumption DEF Bools, Terminal!ToSet
<1>12. g[N] \in Seq(Terminal!Tokens)
  BY <1>1, <1>4
<1>13. \A m \in Bools : On(R(N), m) = On(t, m)
  <2> HIDE DEF N, R
  <2> QED
    BY <1>9, <1>11, Zenon
<1> QED
  BY <1>9, <1>10, <1>12, <1>13 DEF fresh

\* A terminal that reads the sequence of a group, if there is one.
LEMMA GroupPreambleSets ==
  ASSUME NEW t, Ready(t), NEW mode,
         mode \in AltModes \cup MouseModes \cup EncodingModes \cup {"0"}
  PROVE  LET s == Terminal!GroupPreamble(mode)
             u == Terminal!ProcessAll(t, s) IN
         /\ s \in Seq(Terminal!Tokens) /\ Ready(u)
         /\ u.alt = IF mode \in AltModes THEN mode ELSE t.alt
         /\ u.mouse = IF mode \in MouseModes THEN mode ELSE t.mouse
         /\ u.encoding = IF mode \in EncodingModes THEN mode ELSE t.encoding
         /\ \A m \in Bools : On(u, m) = On(t, m)
<1>1. CASE mode = "0"
  <2>1. Terminal!GroupPreamble(mode) = <<>>
    BY <1>1, Zenon DEF Terminal!GroupPreamble, Terminal!Off
  <2>2. mode \notin AltModes /\ mode \notin MouseModes /\ mode \notin EncodingModes
    BY <1>1, KindsApart
  <2>3. <<>> \in Seq(Terminal!Tokens)
    OBVIOUS
  <2>4. Terminal!ProcessAll(t, <<>>) = t
    BY <2>3, ProcessAllIs DEF Ready
  <2> QED
    BY <2>1, <2>2, <2>3, <2>4, Zenon
<1>2. CASE mode # "0"
  <2>0. mode \in KnownModes /\ mode \notin Bools
    BY <1>2, KindsApart DEF KnownModes
  <2> DEFINE s == Terminal!Sequence(mode, "h")
             u == Terminal!ProcessAll(t, s)
  <2>1. Terminal!GroupPreamble(mode) = s
    BY <1>2, Zenon DEF Terminal!GroupPreamble, Terminal!Off
  <2>2. s \in Seq(Terminal!Tokens) /\ Ready(u) /\ IsSet(t, u, mode, TRUE)
    BY <2>0, SequenceSets
  <2>3. Terminal!Pick(TRUE, mode) = mode
    BY DEF Terminal!Pick
  <2>4. \A m \in Bools : m # mode
    BY <2>0
  <2> HIDE DEF s, u
  <2>5. \A m \in Bools : On(u, m) = On(t, m)
    BY <2>2, <2>4, Zenon DEF IsSet
  <2>6. /\ u.alt = IF mode \in AltModes THEN mode ELSE t.alt
        /\ u.mouse = IF mode \in MouseModes THEN mode ELSE t.mouse
        /\ u.encoding = IF mode \in EncodingModes THEN mode ELSE t.encoding
    BY <2>2, <2>3, Zenon DEF IsSet
  <2> QED
    BY <2>1, <2>2, <2>5, <2>6 DEF u
<1> QED
  BY <1>1, <1>2

\* A terminal at power-on that reads the preamble has the modes of the session (modes.go:152).
LEMMA PreambleSets ==
  ASSUME NEW t \in Trackers
  PROVE  LET u == Terminal!ProcessAll(Terminal!Fresh, Terminal!Preamble(t)) IN
         /\ Ready(u) /\ Others(t, u)
         /\ \A m \in Bools : On(u, m) = On(t, m)
<1> DEFINE fresh == Terminal!Fresh
           s0 == Terminal!BoolPreamble(t)
           s1 == Terminal!GroupPreamble(t.alt)
           s2 == Terminal!GroupPreamble(t.mouse)
           s3 == Terminal!GroupPreamble(t.encoding)
           t0 == Terminal!ProcessAll(fresh, s0)
           t1 == Terminal!ProcessAll(t0, s1)
           t2 == Terminal!ProcessAll(t1, s2)
           t3 == Terminal!ProcessAll(t2, s3)
<1>1. /\ t.alt \in AltModes \cup {"0"} /\ t.mouse \in MouseModes \cup {"0"}
      /\ t.encoding \in EncodingModes \cup {"0"}
  BY DEF Trackers
<1>2. /\ s0 \in Seq(Terminal!Tokens) /\ Ready(t0) /\ Others(fresh, t0)
      /\ \A m \in Bools : On(t0, m) = On(t, m)
  BY BoolPreambleSets
<1>3. fresh.alt = "0" /\ fresh.mouse = "0" /\ fresh.encoding = "0"
  BY DEF Terminal!Fresh, Terminal!Off
<1>4. fresh \in Bounded
  <2>1. fresh.params = <<>> /\ Len(<<>>) = 0 /\ 0 <= MaxParams
    BY ModesAssumption DEF Terminal!Fresh
  <2> QED
    BY <2>1, FreshIsATracker DEF Bounded
<1> HIDE DEF fresh, s0, t0
<1>5. t0.alt = "0" /\ t0.mouse = "0" /\ t0.encoding = "0"
  BY <1>2, <1>3 DEF Others
<1>6. /\ s1 \in Seq(Terminal!Tokens) /\ Ready(t1)
      /\ t1.alt = t.alt /\ t1.mouse = "0" /\ t1.encoding = "0"
      /\ \A m \in Bools : On(t1, m) = On(t0, m)
  <2> DEFINE mode == t.alt
  <2>1. /\ s1 \in Seq(Terminal!Tokens) /\ Ready(t1)
        /\ t1.alt = IF mode \in AltModes THEN mode ELSE t0.alt
        /\ t1.mouse = IF mode \in MouseModes THEN mode ELSE t0.mouse
        /\ t1.encoding = IF mode \in EncodingModes THEN mode ELSE t0.encoding
        /\ \A m \in Bools : On(t1, m) = On(t0, m)
    BY <1>1, <1>2, GroupPreambleSets
  <2>2. mode \notin MouseModes /\ mode \notin EncodingModes /\ (mode \in AltModes \/ mode = "0")
    BY <1>1, KindsApart
  <2> HIDE DEF mode, s1, t1
  <2> QED
    BY <1>5, <2>1, <2>2 DEF mode
<1> HIDE DEF s1, t1
<1>7. /\ s2 \in Seq(Terminal!Tokens) /\ Ready(t2)
      /\ t2.alt = t.alt /\ t2.mouse = t.mouse /\ t2.encoding = "0"
      /\ \A m \in Bools : On(t2, m) = On(t1, m)
  <2> DEFINE mode == t.mouse
  <2>1. /\ s2 \in Seq(Terminal!Tokens) /\ Ready(t2)
        /\ t2.alt = IF mode \in AltModes THEN mode ELSE t1.alt
        /\ t2.mouse = IF mode \in MouseModes THEN mode ELSE t1.mouse
        /\ t2.encoding = IF mode \in EncodingModes THEN mode ELSE t1.encoding
        /\ \A m \in Bools : On(t2, m) = On(t1, m)
    BY <1>1, <1>6, GroupPreambleSets
  <2>2. mode \notin AltModes /\ mode \notin EncodingModes /\ (mode \in MouseModes \/ mode = "0")
    BY <1>1, KindsApart
  <2> HIDE DEF mode, s2, t2
  <2> QED
    BY <1>6, <2>1, <2>2 DEF mode
<1> HIDE DEF s2, t2
<1>8. /\ s3 \in Seq(Terminal!Tokens) /\ Ready(t3)
      /\ t3.alt = t.alt /\ t3.mouse = t.mouse /\ t3.encoding = t.encoding
      /\ \A m \in Bools : On(t3, m) = On(t2, m)
  <2> DEFINE mode == t.encoding
  <2>1. /\ s3 \in Seq(Terminal!Tokens) /\ Ready(t3)
        /\ t3.alt = IF mode \in AltModes THEN mode ELSE t2.alt
        /\ t3.mouse = IF mode \in MouseModes THEN mode ELSE t2.mouse
        /\ t3.encoding = IF mode \in EncodingModes THEN mode ELSE t2.encoding
        /\ \A m \in Bools : On(t3, m) = On(t2, m)
    BY <1>1, <1>7, GroupPreambleSets
  <2>2. mode \notin AltModes /\ mode \notin MouseModes /\ (mode \in EncodingModes \/ mode = "0")
    BY <1>1, KindsApart
  <2> HIDE DEF mode, s3, t3
  <2> QED
    BY <1>7, <2>1, <2>2 DEF mode
<1> HIDE DEF s3, t3
<1>9. Terminal!ProcessAll(fresh, Terminal!Preamble(t)) = t3
  <2>1. Terminal!Preamble(t) = ((s0 \o s1) \o s2) \o s3
    BY DEF Terminal!Preamble, s0, s1, s2, s3
  <2>2. s0 \o s1 \in Seq(Terminal!Tokens) /\ (s0 \o s1) \o s2 \in Seq(Terminal!Tokens)
    BY <1>2, <1>6, <1>7
  <2>3. Terminal!ProcessAll(fresh, s0 \o s1) = t1
    BY <1>2, <1>4, <1>6, ProcessAllInPieces DEF t0, t1
  <2>4. Terminal!ProcessAll(fresh, (s0 \o s1) \o s2) = t2
    BY <1>4, <1>7, <2>2, <2>3, ProcessAllInPieces DEF t2
  <2>5. Terminal!ProcessAll(fresh, ((s0 \o s1) \o s2) \o s3) = t3
    BY <1>4, <1>8, <2>2, <2>4, ProcessAllInPieces DEF t3
  <2> QED
    BY <2>1, <2>5
<1>10. \A m \in Bools : On(t3, m) = On(t, m)
  BY <1>2, <1>6, <1>7, <1>8, Zenon
<1> QED
  BY <1>8, <1>9, <1>10 DEF Others, fresh

-----------------------------------------------------------------------------
(* What is left of the output *)

\* s is what is left of the output when some of it has been cut off.
IsEnd(s, output) ==
  /\ Len(s) <= Len(output)
  /\ \A i \in 1..Len(s) : s[i] = output[(Len(output) - Len(s)) + i]

\* Every setting of t is the one of t0 or the one of u.
Mixed(t, t0, u) ==
  /\ t.alt \in {t0.alt, u.alt} /\ t.mouse \in {t0.mouse, u.mouse}
  /\ t.encoding \in {t0.encoding, u.encoding}
  /\ \A m \in Bools : On(t, m) = On(t0, m) \/ On(t, m) = On(u, m)

\* A terminal that reads s from between two sequences gets no setting that u does not
\* have, and has read as far as u, once it has read an escape.
Follows(s, u) ==
  \A t0 : Ready(t0) =>
    LET t == Terminal!ProcessAll(t0, s) IN
    Mixed(t, t0, u) /\ (Parser(t) = Parser(u) \/ t = t0)

\* The parameters are empty but within a sequence.
Clean(t) == t.state # "csi" => t.params = <<>> /\ t.overflow = FALSE

ReplayInv ==
  part = "modes" =>
    /\ modeTracker \in Bounded /\ Clean(modeTracker)
    /\ modeKept \in Seq(Terminal!Tokens)
    /\ \A s \in Seq(Terminal!Tokens) : IsEnd(s, modeKept) => Follows(s, modeTracker)

LEMMA NothingFollows == ASSUME NEW u PROVE Follows(<<>>, u)
<1> SUFFICES ASSUME NEW t0, Ready(t0)
             PROVE  LET t == Terminal!ProcessAll(t0, <<>>) IN
                    Mixed(t, t0, u) /\ (Parser(t) = Parser(u) \/ t = t0)
  BY Zenon DEF Follows
<1>1. <<>> \in Seq(Terminal!Tokens)
  OBVIOUS
<1>2. Terminal!ProcessAll(t0, <<>>) = t0
  BY <1>1, ProcessAllIs DEF Ready
<1>3. Mixed(t0, t0, u)
  BY Zenon DEF Mixed
<1> QED
  BY <1>2, <1>3, Zenon

\* A token read keeps the parameters in order.
LEMMA ATokenKeepsClean ==
  ASSUME NEW u \in Bounded, Clean(u), NEW b \in Terminal!Tokens
  PROVE  LET u2 == Terminal!Process(u, b) IN
         u2 \in Bounded /\ Clean(u2) /\ (b = "ESC" => Parser(u2) = <<"escape", <<>>, FALSE>>)
<1> DEFINE u2 == Terminal!Process(u, b)
           Ended(v, s) == [v EXCEPT !.state = s, !.params = <<>>, !.overflow = FALSE]
<1>1. u2 \in Bounded
  BY ATokenKeepsTheType DEF Bounded
<1>2. u \in Trackers
  BY DEF Bounded
<1>3. CASE u.state # "csi"
  <2>1. u.params = <<>> /\ u.overflow = FALSE
    BY <1>3 DEF Clean
  <2>2. u2 \in {u, [u EXCEPT !.state = "escape"], [u EXCEPT !.state = "csi"],
                [u EXCEPT !.state = "ground"]}
    BY <1>2, <1>3 DEF Terminal!Process, Terminal!InEscape, Trackers
  <2>3. b = "ESC" => \/ u2 = [u EXCEPT !.state = "escape"]
                     \/ u2 = u /\ u.state = "escape"
    BY <1>2, <1>3 DEF Terminal!Process, Terminal!InEscape, Trackers
  <2>4. \A s \in {"ground", "escape", "csi"} :
          [u EXCEPT !.state = s].params = <<>> /\ [u EXCEPT !.state = s].overflow = FALSE
          /\ [u EXCEPT !.state = s].state = s
    BY <1>2, <2>1 DEF Trackers
  <2> HIDE DEF u2
  <2>5. Clean(u2)
    BY <2>1, <2>2, <2>4 DEF Clean
  <2>6. b = "ESC" => Parser(u2) = <<"escape", <<>>, FALSE>>
    BY <2>1, <2>3, <2>4 DEF Parser
  <2> QED
    BY <1>1, <2>5, <2>6 DEF u2
<1>4. CASE u.state = "csi"
  <2>1. u2 = Terminal!InCSI(u, b)
    BY <1>4 DEF Terminal!Process
  <2>2. \A v \in Trackers, s \in {"ground", "escape"} : Parser(Ended(v, s)) = <<s, <<>>, FALSE>>
    BY DEF Trackers, Parser
  <2>3. CASE b = "ESC"
    <3>1. u2 = Ended(u, "escape")
      BY <2>1, <2>3 DEF Terminal!InCSI
    <3> HIDE DEF u2, Ended
    <3>2. Parser(u2) = <<"escape", <<>>, FALSE>>
      BY <1>2, <2>2, <3>1
    <3> QED
      BY <1>1, <3>2 DEF Parser, Clean, u2
  <2>4. CASE b \in {"h", "l", "["}
    <3> DEFINE v == IF ~u.overflow /\ b \in {"h", "l"}
                    THEN Terminal!Apply(u, u.params, b = "h") ELSE u
    <3>1. u2 = Ended(v, "ground")
      BY <2>1, <2>4 DEF Terminal!InCSI
    <3>2. v \in Trackers
      <4>1. u.params \in Seq(Terminal!Tokens) /\ (b = "h") \in BOOLEAN
        BY <1>2 DEF Trackers
      <4>2. Terminal!Apply(u, u.params, b = "h") \in Trackers
        BY <1>2, <4>1, ApplyAlike
      <4> QED
        BY <1>2, <4>2, Zenon
    <3> HIDE DEF u2, Ended, v
    <3>3. Parser(u2) = <<"ground", <<>>, FALSE>>
      BY <2>2, <3>1, <3>2
    <3> QED
      BY <1>1, <2>4, <3>3 DEF Parser, Clean, u2
  <2>5. CASE b # "ESC" /\ b \notin {"h", "l", "["}
    <3>1. u2 = IF Len(u.params) < MaxParams THEN [u EXCEPT !.params = Append(@, b)]
               ELSE [u EXCEPT !.overflow = TRUE]
      BY <2>1, <2>5 DEF Terminal!InCSI
    <3>2. u2.state = "csi"
      BY <1>2, <1>4, <3>1 DEF Trackers
    <3> HIDE DEF u2
    <3> QED
      BY <1>1, <2>5, <3>2 DEF Clean, u2
  <2> QED
    BY <2>3, <2>4, <2>5
<1> QED
  BY <1>3, <1>4

\* One more token, read by the session and by the terminal that attached.
LEMMA ATokenFollows ==
  ASSUME NEW u \in Bounded, Clean(u), NEW s \in Seq(Terminal!Tokens), Follows(s, u),
         NEW b \in Terminal!Tokens
  PROVE  Follows(Append(s, b), Terminal!Process(u, b))
<1> DEFINE u2 == Terminal!Process(u, b)
<1> SUFFICES ASSUME NEW t0, Ready(t0)
             PROVE  LET t == Terminal!ProcessAll(t0, Append(s, b)) IN
                    Mixed(t, t0, u2) /\ (Parser(t) = Parser(u2) \/ t = t0)
  BY Zenon DEF Follows
<1> DEFINE t == Terminal!ProcessAll(t0, s)
           t2 == Terminal!Process(t, b)
<1>1. Terminal!ProcessAll(t0, Append(s, b)) = t2 /\ t \in Bounded
  BY ProcessAllIs DEF Ready
<1>2. Mixed(t, t0, u) /\ (Parser(t) = Parser(u) \/ t = t0)
  BY Zenon DEF Follows
<1>3. CASE Parser(t) = Parser(u)
  <2> HIDE DEF t
  <2>1. Alike(t, u, t2, u2) /\ Parser(t2) = Parser(u2)
    BY <1>1, <1>3, ATokenIsReadAlike
  <2> HIDE DEF t2, u2
  <2>2. Mixed(t2, t0, u2)
    <3>1. t2.alt \in {t0.alt, u2.alt}
      BY <1>2, <2>1, Zenon DEF Alike, SetAlike, Mixed
    <3>2. t2.mouse \in {t0.mouse, u2.mouse}
      BY <1>2, <2>1, Zenon DEF Alike, SetAlike, Mixed
    <3>3. t2.encoding \in {t0.encoding, u2.encoding}
      BY <1>2, <2>1, Zenon DEF Alike, SetAlike, Mixed
    <3>4. \A m \in Bools : On(t2, m) = On(t0, m) \/ On(t2, m) = On(u2, m)
      BY <1>2, <2>1, Zenon DEF Alike, SetAlike, Mixed
    <3> QED
      BY <3>1, <3>2, <3>3, <3>4, Zenon DEF Mixed
  <2> QED
    BY <1>1, <2>1, <2>2, Zenon
<1>4. CASE t = t0
  <2>1. t0 \in Trackers /\ t0.state = "ground" /\ t0.params = <<>> /\ t0.overflow = FALSE
    BY DEF Ready, Bounded, Parser
  <2>2. t2 = IF b = "ESC" THEN [t0 EXCEPT !.state = "escape"] ELSE t0
    BY <1>4, <2>1 DEF Terminal!Process
  <2> HIDE DEF t, t2
  <2>3. CASE b = "ESC"
    <3>1. /\ t2.alt = t0.alt /\ t2.mouse = t0.mouse /\ t2.encoding = t0.encoding
          /\ t2.bools = t0.bools /\ Parser(t2) = <<"escape", <<>>, FALSE>>
      BY <2>1, <2>2, <2>3 DEF Trackers, Parser
    <3>2. \A m \in Bools : On(t2, m) = On(t0, m)
      BY <3>1, Zenon DEF On
    <3>3. Parser(u2) = <<"escape", <<>>, FALSE>>
      BY <2>3, ATokenKeepsClean
    <3> HIDE DEF u2
    <3>4. Mixed(t2, t0, u2)
      BY <3>1, <3>2, Zenon DEF Mixed
    <3> QED
      BY <1>1, <3>1, <3>3, <3>4, Zenon
  <2>4. CASE b # "ESC"
    <3>1. t2 = t0
      BY <2>2, <2>4
    <3>2. Mixed(t0, t0, u2)
      BY Zenon DEF Mixed
    <3> QED
      BY <1>1, <3>1, <3>2, Zenon
  <2> QED
    BY <2>3, <2>4
<1> QED
  BY <1>2, <1>3, <1>4

\* What is left of less was left of more.
LEMMA EndOfTail ==
  ASSUME NEW output \in Seq(Terminal!Tokens), output # <<>>,
         NEW s \in Seq(Terminal!Tokens),
         IsEnd(s, Tail(output))
  PROVE  IsEnd(s, output)
<1> DEFINE rest == Tail(output)
<1>1. /\ Len(output) \in Nat /\ Len(s) \in Nat /\ Len(rest) = Len(output) - 1
      /\ \A i \in 1..Len(rest) : rest[i] = output[i + 1]
  OBVIOUS
<1>2. Len(s) <= Len(rest) /\ \A i \in 1..Len(s) : s[i] = rest[(Len(rest) - Len(s)) + i]
  BY DEF IsEnd
<1> HIDE DEF rest
<1>3. ASSUME NEW i \in 1..Len(s) PROVE s[i] = output[(Len(output) - Len(s)) + i]
  <2> DEFINE k == (Len(rest) - Len(s)) + i
  <2>1. k \in 1..Len(rest) /\ k + 1 = (Len(output) - Len(s)) + i
    BY <1>1, <1>2
  <2> HIDE DEF k
  <2>2. rest[k] = output[k + 1]
    BY <1>1, <2>1
  <2>3. s[i] = rest[k]
    BY <1>2 DEF k
  <2> QED
    BY <2>1, <2>2, <2>3
<1> QED
  BY <1>1, <1>2, <1>3 DEF IsEnd

\* What is left after one more token ends in it.
LEMMA EndOfAppend ==
  ASSUME NEW output \in Seq(Terminal!Tokens), NEW s \in Seq(Terminal!Tokens), s # <<>>,
         NEW b \in Terminal!Tokens, IsEnd(s, Append(output, b))
  PROVE  \E r \in Seq(Terminal!Tokens) : s = Append(r, b) /\ IsEnd(r, output)
<1> DEFINE all == Append(output, b)
           n == Len(s) - 1
           r == SubSeq(s, 1, n)
           q == Append(r, b)
<1>1. /\ Len(output) \in Nat /\ Len(all) = Len(output) + 1 /\ all[Len(output) + 1] = b
      /\ \A i \in 1..Len(output) : all[i] = output[i]
      /\ Len(s) \in Nat /\ n \in Nat /\ Len(s) = n + 1
  <2>1. Len(s) \in Nat /\ Len(s) # 0
    OBVIOUS
  <2>2. n \in Nat /\ Len(s) = n + 1
    BY <2>1
  <2> QED
    BY <2>1, <2>2
<1>2. r \in Seq(Terminal!Tokens) /\ Len(r) = n /\ \A i \in 1..n : r[i] = s[i]
  <2> HIDE DEF n
  <2> QED
    BY <1>1
<1>3. Len(s) <= Len(all) /\ \A i \in 1..Len(s) : s[i] = all[(Len(all) - Len(s)) + i]
  BY DEF IsEnd
<1> HIDE DEF all, n, r
<1>4. s[n + 1] = b
  <2>1. n + 1 \in 1..Len(s) /\ (Len(all) - Len(s)) + (n + 1) = Len(output) + 1
    BY <1>1
  <2> QED
    BY <1>1, <1>3, <2>1
<1>5. s = q
  <2>1. q \in Seq(Terminal!Tokens) /\ Len(q) = n + 1 /\ q[n + 1] = b
        /\ \A i \in 1..n : q[i] = s[i]
    BY <1>1, <1>2
  <2> HIDE DEF q
  <2>2. \A i \in 1..Len(s) : s[i] = q[i]
    BY <1>1, <1>4, <2>1
  <2> QED
    BY <1>1, <2>1, <2>2
<1>6. ASSUME NEW i \in 1..Len(r) PROVE r[i] = output[(Len(output) - Len(r)) + i]
  <2> DEFINE k == (Len(output) - n) + i
  <2>1. i \in 1..Len(s) /\ k \in 1..Len(output) /\ (Len(all) - Len(s)) + i = k /\ i \in 1..n
    BY <1>1, <1>2, <1>3, <1>6
  <2> HIDE DEF k
  <2>2. r[i] = all[k]
    BY <1>2, <1>3, <2>1
  <2> QED
    BY <1>1, <1>2, <2>1, <2>2 DEF k
<1>7. IsEnd(r, output)
  BY <1>1, <1>2, <1>3, <1>6 DEF IsEnd
<1> QED
  BY <1>2, <1>5, <1>7

LEMMA ReplayStarts == HostInit /\ part = "modes" => ReplayInv
<1> SUFFICES ASSUME Terminal!Init PROVE ReplayInv
  BY DEF HostInit
<1>1. modeTracker = Terminal!Fresh /\ modeKept = <<>>
  BY DEF Terminal!Init
<1>2. modeTracker.params = <<>> /\ modeTracker.overflow = FALSE
  BY <1>1 DEF Terminal!Fresh
<1>3. modeTracker \in Bounded /\ Clean(modeTracker)
  BY <1>1, <1>2, FreshIsATracker, ModesAssumption DEF Bounded, Clean
<1>4. ASSUME NEW s \in Seq(Terminal!Tokens), IsEnd(s, modeKept)
      PROVE  Follows(s, modeTracker)
  <2>1. Len(s) \in Nat /\ Len(s) <= 0
    BY <1>1, <1>4 DEF IsEnd
  <2>2. s = <<>>
    BY <2>1
  <2> QED
    BY <2>2, NothingFollows
<1>5. modeKept \in Seq(Terminal!Tokens)
  BY <1>1
<1> QED
  BY <1>3, <1>4, <1>5 DEF ReplayInv

\* The session writes, and its scrollback is trimmed.
LEMMA ReplayStays == ASSUME ReplayInv, [HostNext]_HostVars PROVE ReplayInv'
<1> SUFFICES ASSUME part = "modes", [Terminal!Next]_modeVars, modeTracker \in Bounded,
                    Clean(modeTracker), modeKept \in Seq(Terminal!Tokens),
                    \A s \in Seq(Terminal!Tokens) : IsEnd(s, modeKept) => Follows(s, modeTracker)
             PROVE  /\ modeTracker' \in Bounded /\ Clean(modeTracker')
                    /\ modeKept' \in Seq(Terminal!Tokens)
                    /\ \A s \in Seq(Terminal!Tokens) : IsEnd(s, modeKept') => Follows(s, modeTracker')
  BY PartStays, TerminalSteps DEF ReplayInv
<1>1. CASE UNCHANGED modeVars
  BY <1>1 DEF modeVars
<1>2. CASE Terminal!Trim
  <2>1. modeKept # <<>> /\ modeKept' = Tail(modeKept) /\ modeTracker' = modeTracker
    BY <1>2 DEF Terminal!Trim
  <2>2. Tail(modeKept) \in Seq(Terminal!Tokens)
    BY <2>1
  <2> QED
    BY <2>1, <2>2, EndOfTail
<1>3. ASSUME NEW b \in Terminal!Tokens, Terminal!Output(b)
      PROVE  /\ modeTracker' \in Bounded /\ Clean(modeTracker')
             /\ modeKept' \in Seq(Terminal!Tokens)
             /\ \A s \in Seq(Terminal!Tokens) : IsEnd(s, modeKept') => Follows(s, modeTracker')
  <2>1. modeTracker' = Terminal!Process(modeTracker, b)
    BY <1>3 DEF Terminal!Output
  <2>2. modeTracker' \in Bounded /\ Clean(modeTracker')
    BY <2>1, ATokenKeepsClean
  <2>3. PICK old \in Seq(Terminal!Tokens) :
          /\ modeKept' = Append(old, b)
          /\ \A s \in Seq(Terminal!Tokens) : IsEnd(s, old) => Follows(s, modeTracker)
    <3>1. CASE Len(modeKept) < MaxKept
      BY <1>3, <3>1 DEF Terminal!Output
    <3>2. CASE ~(Len(modeKept) < MaxKept)
      <4>1. modeKept # <<>>
        BY <3>2, HostAssumption
      <4>2. Tail(modeKept) \in Seq(Terminal!Tokens)
        BY <4>1
      <4>3. modeKept' = Append(Tail(modeKept), b)
        BY <1>3, <3>2 DEF Terminal!Output
      <4>4. \A s \in Seq(Terminal!Tokens) : IsEnd(s, Tail(modeKept)) => Follows(s, modeTracker)
        BY <4>1, EndOfTail
      <4> QED
        BY <4>2, <4>3, <4>4
    <3> QED
      BY <3>1, <3>2
  <2>4. ASSUME NEW s \in Seq(Terminal!Tokens), IsEnd(s, modeKept')
        PROVE  Follows(s, modeTracker')
    <3>1. CASE s = <<>>
      BY <3>1, NothingFollows
    <3>2. CASE s # <<>>
      <4>1. PICK r \in Seq(Terminal!Tokens) : s = Append(r, b) /\ IsEnd(r, old)
        BY <2>3, <2>4, <3>2, EndOfAppend
      <4>2. Follows(r, modeTracker)
        BY <2>3, <4>1
      <4> QED
        BY <2>1, <4>1, <4>2, ATokenFollows
    <3> QED
      BY <3>1, <3>2
  <2>5. modeKept' \in Seq(Terminal!Tokens)
    BY <2>3
  <2> QED
    BY <2>2, <2>4, <2>5
<1> QED
  BY <1>1, <1>2, <1>3 DEF Terminal!Next

\* The preamble gives the modes, and the replay takes none away.
LEMMA ReplayRestores == ReplayInv => (part = "modes" => Terminal!AttachRestoresModes)
<1> SUFFICES ASSUME part = "modes", ReplayInv PROVE Terminal!AttachRestoresModes
  OBVIOUS
<1> DEFINE u == modeTracker
           t0 == Terminal!ProcessAll(Terminal!Fresh, Terminal!Preamble(u))
           t == Terminal!ProcessAll(t0, modeKept)
<1>1. u \in Trackers /\ modeKept \in Seq(Terminal!Tokens)
  BY DEF ReplayInv, Bounded
<1>2. Ready(t0) /\ Others(u, t0) /\ \A m \in Bools : On(t0, m) = On(u, m)
  BY <1>1, PreambleSets
<1>3. IsEnd(modeKept, modeKept)
  BY <1>1 DEF IsEnd
<1>4. Follows(modeKept, u)
  BY <1>1, <1>3 DEF ReplayInv
<1> HIDE DEF t0
<1>5. Mixed(t, t0, u)
  BY <1>2, <1>4, Zenon DEF Follows
<1> HIDE DEF t, u
<1>6. t.alt = u.alt /\ t.mouse = u.mouse /\ t.encoding = u.encoding
  BY <1>2, <1>5 DEF Mixed, Others
<1>7. \A m \in Bools : On(t, m) = On(u, m)
  BY <1>2, <1>5, Zenon DEF Mixed
<1>8. Terminal!Booleans(t) = Terminal!Booleans(u)
  <2>1. \A v : Terminal!Booleans(v) = [m \in Bools |-> On(v, m)]
    BY Zenon DEF Terminal!Booleans, Bools, On
  <2> QED
    BY <1>7, <2>1
<1>9. Terminal!Modes(t) = Terminal!Modes(u)
  BY <1>6, <1>8 DEF Terminal!Modes
<1> QED
  BY <1>9 DEF Terminal!AttachRestoresModes, t, t0, u

LEMMA ModesAlways == HostSpec => [](part = "modes" => Terminal!AttachRestoresModes)
<1>1. HostInit => ReplayInv
  BY ReplayStarts DEF ReplayInv
<1>2. ReplayInv /\ [HostNext]_HostVars => ReplayInv'
  BY ReplayStays
<1> QED
  BY <1>1, <1>2, ReplayRestores, PTL DEF HostSpec

-----------------------------------------------------------------------------
(* What is promised *)

\* Both keep their types, with any output and any limits.
LEMMA TerminalTypesAlways == HostSpec => [](BellsInv /\ ModesInv)
<1>1. HostInit => BellsInv
  BY FoundStarts, FoundIsTyped
<1>2. HostInit => ModesInv
  <2> SUFFICES ASSUME Terminal!Init PROVE ModesInv
    BY DEF HostInit
  <2>1. <<>> \in Seq(Terminal!Tokens) /\ Len(<<>>) = 0 /\ 0 <= MaxParams
    BY ModesAssumption
  <2> QED
    BY <2>1, FreshIsATracker
    DEF ModesInv, Terminal!Init, Terminal!TypeOK, Terminal!Fresh, Terminal!Off
<1>3. BellsInv /\ [HostNext]_HostVars => BellsInv'
  BY BellsTyped
<1>4. ModesInv /\ [HostNext]_HostVars => ModesInv'
  BY ModesTyped
<1> QED
  BY <1>1, <1>2, <1>3, <1>4, PTL DEF HostSpec

\* What a session writes is understood, in whatever pieces it comes: a client that attaches
\* gets the modes of the session, from the preamble and what is left of the output (modes.go:25-36,
\* 152-179), and the bells and notifications found are those a reading of the whole output finds
\* (bell.go:22-34, 76-120). For any output of any length, any modes and any limits.
THEOREM OutputStaysUnderstood == HostSpec => []OutputIsUnderstood
<1>1. (part = "modes" => Terminal!AttachRestoresModes) /\ (part = "bells" => Signals!SignalsAreFound)
      => OutputIsUnderstood
  BY DEF OutputIsUnderstood
<1> QED
  BY <1>1, ModesAlways, SignalsAlways, PTL
=============================================================================
