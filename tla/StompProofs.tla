----------------------------- MODULE StompProofs -----------------------------
(***************************************************************************)
(* Theorems about StompSession, for frames of any size, sockets of any     *)
(* size and any number of connections.                                     *)
(***************************************************************************)
EXTENDS StompSession, NatLemmas, SequenceTheorems

\* Concatenation is associative; named, since the provers do not find it else.
Regroups(a, b, c) == (a \o b) \o c = a \o (b \o c)
LEMMA Regroup ==
    ASSUME NEW S, NEW a \in Seq(S), NEW b \in Seq(S), NEW c \in Seq(S)
    PROVE  Regroups(a, b, c)
BY ConcatAssociative DEF Regroups

-----------------------------------------------------------------------------
(* FlattenSeq, whose recursive function is shown to exist.                 *)

IsFlat(f, seqs) ==
    f = [i \in 1..Len(seqs) |-> IF i = 1 THEN seqs[i] ELSE f[i - 1] \o seqs[i]]

\* There is one for every prefix of a sequence, ...
LEMMA FlatExists ==
    ASSUME NEW seqs, Len(seqs) \in Nat
    PROVE  \E f : IsFlat(f, seqs)
<1> DEFINE Upto(f, n) == f = [i \in 1..n |-> IF i = 1 THEN seqs[i] ELSE f[i - 1] \o seqs[i]]
           S == {n \in Nat : \E f : Upto(f, n)}
<1>1. 0 \in S
  <2>1. Upto([i \in 1..0 |-> 0], 0)
    OBVIOUS
  <2> QED
    BY <2>1
<1>2. ASSUME NEW n \in Nat, n \in S
      PROVE  n + 1 \in S
  <2>1. PICK f : Upto(f, n)
    BY <1>2
  <2> DEFINE last == IF n + 1 = 1 THEN seqs[n + 1] ELSE f[n] \o seqs[n + 1]
             g == [i \in 1..(n + 1) |-> IF i <= n THEN f[i] ELSE last]
  <2>2. \A i \in 1..n : g[i] = f[i] /\ i \in 1..(n + 1)
    OBVIOUS
  <2>3. g[n + 1] = last
    OBVIOUS
  <2>4. \A i \in 1..n : f[i] = IF i = 1 THEN seqs[i] ELSE f[i - 1] \o seqs[i]
    BY <2>1
  <2>5. \A i \in 1..(n + 1) : g[i] = IF i = 1 THEN seqs[i] ELSE g[i - 1] \o seqs[i]
    <3> SUFFICES ASSUME NEW i \in 1..(n + 1)
                 PROVE  g[i] = IF i = 1 THEN seqs[i] ELSE g[i - 1] \o seqs[i]
      OBVIOUS
    <3> HIDE DEF g
    <3>1. CASE i = n + 1
      <4>1. i # 1 => i - 1 = n /\ n \in 1..n
        BY <3>1
      <4> QED
        BY <2>2, <2>3, <3>1, <4>1
    <3>2. CASE i \in 1..n
      <4>1. i # 1 => i - 1 \in 1..n
        BY <3>2
      <4> QED
        BY <2>2, <2>4, <3>2, <4>1
    <3> QED
      BY <3>1, <3>2
  <2>6. g = [i \in 1..(n + 1) |-> g[i]]
    OBVIOUS
  <2> HIDE DEF g
  <2>7. Upto(g, n + 1)
    BY <2>5, <2>6
  <2>8. n + 1 \in Nat
    OBVIOUS
  <2> HIDE DEF Upto
  <2> QED
    BY <2>7, <2>8
<1> HIDE DEF S
<1>3. Len(seqs) \in S
  BY <1>1, <1>2, SetInduction
<1> QED
  BY <1>3 DEF S, IsFlat

\* ... whose last element FlattenSeq is.
LEMMA FlattenIs ==
    ASSUME NEW seqs, Len(seqs) \in Nat \ {0}
    PROVE  \E f : IsFlat(f, seqs) /\ FlattenSeq(seqs) = f[Len(seqs)]
<1> DEFINE f == CHOOSE f : IsFlat(f, seqs)
<1>1. IsFlat(f, seqs)
  BY FlatExists
<1>2. FlattenSeq(seqs) = f[Len(seqs)]
  BY DEF FlattenSeq, IsFlat
<1> QED
  BY <1>1, <1>2

\* Those of a sequence and of a longer one agree.
LEMMA FlatAgree ==
    ASSUME NEW s, NEW t, NEW f, NEW g, Len(s) \in Nat, Len(t) \in Nat,
           Len(s) <= Len(t), \A i \in 1..Len(s) : s[i] = t[i],
           IsFlat(f, s), IsFlat(g, t)
    PROVE  \A i \in 1..Len(s) : f[i] = g[i]
<1> DEFINE S == {n \in Nat : n \in 1..Len(s) => f[n] = g[n]}
<1>1. 0 \in S
  OBVIOUS
<1>2. ASSUME NEW n \in Nat, n \in S
      PROVE  n + 1 \in S
  <2> SUFFICES ASSUME n + 1 \in 1..Len(s) PROVE f[n + 1] = g[n + 1]
    OBVIOUS
  <2>1. /\ n + 1 \in 1..Len(t) /\ s[n + 1] = t[n + 1] /\ (n + 1) - 1 = n
        /\ n + 1 # 1 => f[n] = g[n]
    BY <1>2
  <2>2. f[n + 1] = IF n + 1 = 1 THEN s[n + 1] ELSE f[(n + 1) - 1] \o s[n + 1]
    BY DEF IsFlat
  <2>3. g[n + 1] = IF n + 1 = 1 THEN t[n + 1] ELSE g[(n + 1) - 1] \o t[n + 1]
    BY <2>1 DEF IsFlat
  <2> QED
    BY <2>1, <2>2, <2>3
<1> HIDE DEF S
<1>3. Nat \subseteq S
  BY <1>1, <1>2, SetInduction
<1> QED
  BY <1>3 DEF S

\* Nothing makes nothing, and one more sequence is put behind what there is.
LEMMA FlattenNone == FlattenSeq(<<>>) = <<>>
BY DEF FlattenSeq

LEMMA FlattenOne ==
    ASSUME NEW x
    PROVE  FlattenSeq(<<x>>) = x
<1> DEFINE t == <<x>>
<1>1. Len(t) \in Nat \ {0} /\ Len(t) = 1 /\ t[1] = x
  OBVIOUS
<1> HIDE DEF t
<1>2. PICK f : IsFlat(f, t) /\ FlattenSeq(t) = f[1]
  BY <1>1, FlattenIs
<1>3. f[1] = t[1]
  BY <1>1, <1>2 DEF IsFlat
<1> QED
  BY <1>1, <1>2, <1>3 DEF t

LEMMA FlattenAppend ==
    ASSUME NEW S, NEW s \in Seq(Seq(S)), NEW x \in Seq(S)
    PROVE  FlattenSeq(Append(s, x)) = FlattenSeq(s) \o x
<1>1. CASE s = <<>>
  <2>1. Append(s, x) = <<x>> /\ <<>> \o x = x
    BY <1>1, ConcatEmptySeq
  <2> QED
    BY <1>1, <2>1, FlattenNone, FlattenOne
<1>2. CASE s # <<>>
  <2> DEFINE t == Append(s, x)
  <2>1. /\ Len(s) \in Nat \ {0} /\ Len(t) \in Nat \ {0} /\ Len(t) = Len(s) + 1
        /\ Len(t) # 1 /\ t[Len(t)] = x /\ \A i \in 1..Len(s) : s[i] = t[i]
    BY <1>2
  <2> HIDE DEF t
  <2>2. PICK f : IsFlat(f, s) /\ FlattenSeq(s) = f[Len(s)]
    BY <2>1, FlattenIs
  <2>3. PICK g : IsFlat(g, t) /\ FlattenSeq(t) = g[Len(t)]
    BY <2>1, FlattenIs
  <2>4. f[Len(s)] = g[Len(s)]
    BY <2>1, <2>2, <2>3, FlatAgree
  <2>5. g[Len(t)] = g[Len(t) - 1] \o t[Len(t)]
    <3>1. Len(t) \in 1..Len(t)
      BY <2>1
    <3> QED
      BY <2>1, <2>3, <3>1 DEF IsFlat
  <2>6. Len(t) - 1 = Len(s)
    BY <2>1
  <2> QED
    BY <2>1, <2>2, <2>3, <2>4, <2>5, <2>6 DEF t
<1> QED
  BY <1>1, <1>2

\* The bytes of the pieces of two sequences are those of the first and then those
\* of the second.
LEMMA FlattenConcat ==
    ASSUME NEW S, NEW s \in Seq(Seq(S)), NEW t \in Seq(Seq(S))
    PROVE  /\ FlattenSeq(s) \in Seq(S)
           /\ FlattenSeq(s \o t) = FlattenSeq(s) \o FlattenSeq(t)
<1> DEFINE T == {n \in Nat : \A u \in Seq(Seq(S)) : Len(u) = n =>
                   /\ FlattenSeq(u) \in Seq(S)
                   /\ \A w \in Seq(Seq(S)) : FlattenSeq(w) \in Seq(S) =>
                        FlattenSeq(w \o u) = FlattenSeq(w) \o FlattenSeq(u)}
<1>1. 0 \in T
  <2> SUFFICES ASSUME NEW u \in Seq(Seq(S)), Len(u) = 0
               PROVE  /\ FlattenSeq(u) \in Seq(S)
                      /\ \A w \in Seq(Seq(S)) : FlattenSeq(w) \in Seq(S) =>
                           FlattenSeq(w \o u) = FlattenSeq(w) \o FlattenSeq(u)
    OBVIOUS
  <2>1. u = <<>> /\ FlattenSeq(u) = <<>> /\ FlattenSeq(u) \in Seq(S)
    BY FlattenNone, EmptySeq
  <2>2. ASSUME NEW w \in Seq(Seq(S)), FlattenSeq(w) \in Seq(S)
        PROVE  FlattenSeq(w \o u) = FlattenSeq(w) \o FlattenSeq(u)
    <3>1. w \o u = w /\ FlattenSeq(w) \o <<>> = FlattenSeq(w)
      BY <2>1, <2>2, ConcatEmptySeq
    <3> QED
      BY <2>1, <3>1
  <2> QED
    BY <2>1, <2>2
<1>2. ASSUME NEW n \in Nat, n \in T
      PROVE  n + 1 \in T
  <2> SUFFICES ASSUME NEW u \in Seq(Seq(S)), Len(u) = n + 1
               PROVE  /\ FlattenSeq(u) \in Seq(S)
                      /\ \A w \in Seq(Seq(S)) : FlattenSeq(w) \in Seq(S) =>
                           FlattenSeq(w \o u) = FlattenSeq(w) \o FlattenSeq(u)
    OBVIOUS
  <2>1. PICK v \in Seq(Seq(S)), x \in Seq(S) : u = Append(v, x)
    <3>1. u # <<>>
      OBVIOUS
    <3> QED
      BY <3>1, SequenceEmptyOrAppend
  <2>2. Len(v) = n
    BY <2>1
  <2>3. FlattenSeq(v) \in Seq(S) /\ FlattenSeq(u) = FlattenSeq(v) \o x
    BY <1>2, <2>1, <2>2, FlattenAppend
  <2>4. FlattenSeq(u) \in Seq(S)
    BY <2>3, ConcatProperties
  <2>5. ASSUME NEW w \in Seq(Seq(S)), FlattenSeq(w) \in Seq(S)
        PROVE  FlattenSeq(w \o u) = FlattenSeq(w) \o FlattenSeq(u)
    <3>1. w \o u = Append(w \o v, x) /\ w \o v \in Seq(Seq(S))
      BY <2>1
    <3>2. FlattenSeq(w \o u) = FlattenSeq(w \o v) \o x
      BY <3>1, FlattenAppend
    <3>3. FlattenSeq(w \o v) = FlattenSeq(w) \o FlattenSeq(v)
      BY <1>2, <2>2, <2>5
    <3>4. (FlattenSeq(w) \o FlattenSeq(v)) \o x = FlattenSeq(w) \o (FlattenSeq(v) \o x)
      <4>1. FlattenSeq(w) \in Seq(S) /\ FlattenSeq(v) \in Seq(S) /\ x \in Seq(S)
        BY <2>1, <2>3, <2>5
      <4>2. Regroups(FlattenSeq(w), FlattenSeq(v), x)
        BY <4>1, Regroup, Zenon
      <4> QED
        BY <4>2 DEF Regroups
    <3> QED
      BY <2>3, <3>2, <3>3, <3>4
  <2> QED
    BY <2>4, <2>5
<1> HIDE DEF T
<1>3. Nat \subseteq T
  BY <1>1, <1>2, SetInduction
<1>4. Len(s) \in T /\ Len(t) \in T
  BY <1>3
<1> QED
  BY <1>4 DEF T

-----------------------------------------------------------------------------
(* What a reader makes of bytes.                                           *)

\* A reader that has these bytes before it, and these frames in them.
At(r, bytes, frames) == [reader |-> r, bytes |-> bytes, frames |-> frames]

\* The next byte is left out, ends a frame, or is taken.
LeavesOut(skips, t) == skips /\ Skips(t.reader, Head(t.bytes))
Taken(t) == Receive(t.reader, <<Head(t.bytes)>>)
Goes1(skips, t, D) ==
    \/ /\ LeavesOut(skips, t)
       /\ At(t.reader, Tail(t.bytes), t.frames) \in D
    \/ /\ ~LeavesOut(skips, t) /\ Taken(t).phase = "done"
       /\ t.frames # <<>> /\ Head(t.frames) = FrameRead(Taken(t))
       /\ At(Start, Tail(t.bytes), Tail(t.frames)) \in D
    \/ /\ ~LeavesOut(skips, t) /\ Taken(t).phase \notin {"done", "error"}
       /\ At(Taken(t), Tail(t.bytes), t.frames) \in D

\* D leads from each of its elements to the reader that has nothing before it.
Leads(skips, D, last) ==
    \A t \in D :
      /\ t.bytes \in Seq(Int) /\ t.frames \in Seq(Frames)
      /\ t.bytes = <<>> => t.reader = last /\ t.frames = <<>>
      /\ t.bytes # <<>> => Goes1(skips, t, D)

\* With these bytes a reader comes from one state to the other, and they are just
\* these frames; a reader that skips leaves out newlines between frames.
Goes(skips, r, bytes, last, frames) ==
    \E D : At(r, bytes, frames) \in D /\ Leads(skips, D, last)

\* The fields of At.
LEMMA AtFields ==
    ASSUME NEW r, NEW bytes, NEW frames
    PROVE  /\ At(r, bytes, frames).reader = r
           /\ At(r, bytes, frames).bytes = bytes
           /\ At(r, bytes, frames).frames = frames
BY DEF At

\* One step of it.
LEMMA GoesOn ==
    ASSUME NEW skips, NEW r, NEW bytes, NEW last, NEW frames,
           Goes(skips, r, bytes, last, frames)
    PROVE  /\ bytes \in Seq(Int) /\ frames \in Seq(Frames)
           /\ bytes = <<>> => r = last /\ frames = <<>>
           /\ bytes # <<>> =>
                LET q == Receive(r, <<Head(bytes)>>)
                    out == skips /\ Skips(r, Head(bytes))
                IN \/ out /\ Goes(skips, r, Tail(bytes), last, frames)
                   \/ /\ ~out /\ q.phase = "done" /\ frames # <<>>
                      /\ Head(frames) = FrameRead(q)
                      /\ Goes(skips, Start, Tail(bytes), last, Tail(frames))
                   \/ /\ ~out /\ q.phase \notin {"done", "error"}
                      /\ Goes(skips, q, Tail(bytes), last, frames)
<1> DEFINE t == At(r, bytes, frames)
<1>1. PICK D : t \in D /\ Leads(skips, D, last)
  BY DEF Goes
<1>2. t.reader = r /\ t.bytes = bytes /\ t.frames = frames
  BY AtFields
<1> HIDE DEF t
<1>3. /\ t.bytes \in Seq(Int) /\ t.frames \in Seq(Frames)
      /\ t.bytes = <<>> => t.reader = last /\ t.frames = <<>>
      /\ t.bytes # <<>> => Goes1(skips, t, D)
  BY <1>1 DEF Leads
<1>4. \A x, y, z : At(x, y, z) \in D => Goes(skips, x, y, last, z)
  BY <1>1 DEF Goes
<1> QED
  BY <1>2, <1>3, <1>4 DEF Goes1, LeavesOut, Taken

\* Nothing leads nowhere.
LEMMA GoesNowhere ==
    ASSUME NEW skips, NEW r
    PROVE  Goes(skips, r, <<>>, r, <<>>)
<1> DEFINE t == At(r, <<>>, <<>>)
<1>1. t.reader = r /\ t.bytes = <<>> /\ t.frames = <<>>
  BY AtFields
<1>2. <<>> \in Seq(Int) /\ <<>> \in Seq(Frames)
  BY EmptySeq
<1> HIDE DEF t
<1>3. Leads(skips, {t}, r)
  BY <1>1, <1>2 DEF Leads
<1> QED
  BY <1>3 DEF Goes, t

\* One byte, and then the others.
LEMMA GoesFirst ==
    ASSUME NEW skips, NEW r, NEW bytes, NEW last, NEW frames,
           bytes \in Seq(Int), frames \in Seq(Frames), bytes # <<>>,
           LET q == Receive(r, <<Head(bytes)>>)
               out == skips /\ Skips(r, Head(bytes))
           IN \/ out /\ Goes(skips, r, Tail(bytes), last, frames)
              \/ /\ ~out /\ q.phase = "done" /\ frames # <<>>
                 /\ Head(frames) = FrameRead(q)
                 /\ Goes(skips, Start, Tail(bytes), last, Tail(frames))
              \/ /\ ~out /\ q.phase \notin {"done", "error"}
                 /\ Goes(skips, q, Tail(bytes), last, frames)
    PROVE  Goes(skips, r, bytes, last, frames)
<1> DEFINE t == At(r, bytes, frames)
<1>1. t.reader = r /\ t.bytes = bytes /\ t.frames = frames
  BY AtFields
<1> HIDE DEF t
<1>2. PICK D : Leads(skips, D, last) /\ Goes1(skips, t, D)
  <2>1. \A x, y, z : Goes(skips, x, y, last, z) =>
          \E D : At(x, y, z) \in D /\ Leads(skips, D, last)
    BY DEF Goes
  <2> QED
    BY <1>1, <2>1 DEF Goes1, LeavesOut, Taken
<1> DEFINE E == D \cup {t}
<1>3. \A x : Goes1(skips, x, D) => Goes1(skips, x, E)
  BY DEF Goes1
<1>4. Leads(skips, E, last)
  BY <1>1, <1>2, <1>3 DEF Leads
<1>5. t \in E
  OBVIOUS
<1> QED
  BY <1>4, <1>5 DEF Goes, t

\* The first element of a sequence that has others behind it, and the rest.
Continues(a, b) ==
    /\ a \o b # <<>>
    /\ Head(a \o b) = Head(a) /\ Tail(a \o b) = Tail(a) \o b
LEMMA HeadTailConcat ==
    ASSUME NEW S, NEW a \in Seq(S), NEW b \in Seq(S), a # <<>>
    PROVE  Continues(a, b)
BY DEF Continues

\* What leads to a reader, and what leads on from there.
LEMMA GoesThen ==
    ASSUME NEW skips, NEW r, NEW a, NEW q, NEW f, NEW b, NEW last, NEW g,
           Goes(skips, r, a, q, f), Goes(skips, q, b, last, g)
    PROVE  Goes(skips, r, a \o b, last, f \o g)
<1>1. PICK D : At(r, a, f) \in D /\ Leads(skips, D, q)
  BY DEF Goes
<1>2. PICK E : At(q, b, g) \in E /\ Leads(skips, E, last)
  BY DEF Goes
<1>3. b \in Seq(Int) /\ g \in Seq(Frames)
  BY GoesOn
<1> DEFINE Longer(t) == At(t.reader, t.bytes \o b, t.frames \o g)
           F == {Longer(t) : t \in D} \cup E
<1>4. ASSUME NEW t \in D
      PROVE  LET u == Longer(t) IN
             /\ u.bytes \in Seq(Int) /\ u.frames \in Seq(Frames)
             /\ u.bytes = <<>> => u.reader = last /\ u.frames = <<>>
             /\ u.bytes # <<>> => Goes1(skips, u, F)
  <2> DEFINE u == Longer(t)
  <2>1. u.reader = t.reader /\ u.bytes = t.bytes \o b /\ u.frames = t.frames \o g
    BY DEF At
  <2>2. /\ t.bytes \in Seq(Int) /\ t.frames \in Seq(Frames)
        /\ t.bytes = <<>> => t.reader = q /\ t.frames = <<>>
        /\ t.bytes # <<>> => Goes1(skips, t, D)
    BY <1>1 DEF Leads
  <2>3. u.bytes \in Seq(Int) /\ u.frames \in Seq(Frames)
    BY <1>3, <2>1, <2>2, ConcatProperties
  <2>4. CASE t.bytes = <<>>
    <3>1. <<>> \o b = b /\ <<>> \o g = g
      BY <1>3, ConcatEmptySeq
    <3>2. u = At(q, b, g)
      BY <2>2, <2>4, <3>1
    <3>3. u \in E
      BY <1>2, <3>2
    <3>4. u.bytes = <<>> => u.reader = last /\ u.frames = <<>>
      BY <1>2, <3>3 DEF Leads
    <3>5. u.bytes # <<>> => Goes1(skips, u, E)
      BY <1>2, <3>3 DEF Leads
    <3> HIDE DEF u
    <3>6. u.bytes # <<>> => Goes1(skips, u, F)
      BY <3>5 DEF Goes1
    <3> QED
      BY <2>3, <3>4, <3>6 DEF u
  <2>5. CASE t.bytes # <<>>
    <3>1. u.bytes # <<>> /\ Head(u.bytes) = Head(t.bytes) /\ Tail(u.bytes) = Tail(t.bytes) \o b
      <4>1. Continues(t.bytes, b)
        BY <1>3, <2>2, <2>5, HeadTailConcat, Zenon
      <4> HIDE DEF u
      <4> QED
        BY <2>1, <4>1 DEF Continues
    <3>2. t.frames # <<>> => /\ u.frames # <<>> /\ Head(u.frames) = Head(t.frames)
                             /\ Tail(u.frames) = Tail(t.frames) \o g
      <4>1. t.frames # <<>> => Continues(t.frames, g)
        BY <1>3, <2>2, HeadTailConcat, Zenon
      <4> HIDE DEF u
      <4> QED
        BY <2>1, <4>1 DEF Continues
    <3>3. \A x, y, z : At(x, y, z) \in D => At(x, y \o b, z \o g) \in F
      <4> SUFFICES ASSUME NEW x, NEW y, NEW z, At(x, y, z) \in D
                   PROVE  At(x, y \o b, z \o g) \in F
        OBVIOUS
      <4>1. Longer(At(x, y, z)) = At(x, y \o b, z \o g)
        BY AtFields
      <4> QED
        BY <4>1
    <3> HIDE DEF F, u
    <3>4. /\ LeavesOut(skips, u) = LeavesOut(skips, t)
          /\ Taken(u) = Taken(t)
      BY <2>1, <3>1 DEF LeavesOut, Taken
    <3>5. Goes1(skips, t, D)
      BY <2>2, <2>5
    <3>6. Goes1(skips, u, F)
      BY <2>1, <3>1, <3>2, <3>3, <3>4, <3>5 DEF Goes1
    <3> QED
      BY <2>3, <3>1, <3>6 DEF u
  <2> QED
    BY <2>4, <2>5
<1>5. ASSUME NEW t \in E
      PROVE  /\ t.bytes \in Seq(Int) /\ t.frames \in Seq(Frames)
             /\ t.bytes = <<>> => t.reader = last /\ t.frames = <<>>
             /\ t.bytes # <<>> => Goes1(skips, t, F)
  <2>1. \A x : Goes1(skips, x, E) => Goes1(skips, x, F)
    BY DEF Goes1
  <2> QED
    BY <1>2, <2>1 DEF Leads
<1>6. Leads(skips, F, last)
  <2> SUFFICES ASSUME NEW u \in F
               PROVE  /\ u.bytes \in Seq(Int) /\ u.frames \in Seq(Frames)
                      /\ u.bytes = <<>> => u.reader = last /\ u.frames = <<>>
                      /\ u.bytes # <<>> => Goes1(skips, u, F)
    BY DEF Leads
  <2>1. CASE u \in E
    BY <1>5, <2>1
  <2>2. CASE u \notin E
    <3>1. PICK t \in D : u = Longer(t)
      BY <2>2
    <3> QED
      BY <1>4, <3>1
  <2> QED
    BY <2>1, <2>2
<1>7. At(r, a \o b, f \o g) \in F
  <2>1. Longer(At(r, a, f)) = At(r, a \o b, f \o g)
    BY DEF At
  <2> QED
    BY <1>1, <2>1
<1> QED
  BY <1>6, <1>7 DEF Goes

\* A reader that takes the bytes of a text one after the other.
LEMMA GoesAlong ==
    ASSUME NEW skips, NEW text \in Seq(Int), NEW q,
           \A k \in 0..(Len(text) - 1) :
             /\ ~(skips /\ Skips(q[k], text[k + 1]))
             /\ Receive(q[k], <<text[k + 1]>>) = q[k + 1]
             /\ q[k + 1].phase \notin {"done", "error"}
    PROVE  Goes(skips, q[0], text, q[Len(text)], <<>>)
<1> DEFINE n == Len(text)
           rest(k) == SubSeq(text, k + 1, n)
           D == {At(q[k], rest(k), <<>>) : k \in 0..n}
<1>1. n \in Nat /\ <<>> \in Seq(Frames)
  BY EmptySeq
<1>2. ASSUME NEW k \in 0..n
      PROVE  /\ rest(k) \in Seq(Int)
             /\ rest(k) = <<>> => k = n
             /\ rest(k) # <<>> => /\ k \in 0..(n - 1) /\ Head(rest(k)) = text[k + 1]
                                  /\ Tail(rest(k)) = rest(k + 1)
  <2>1. rest(k) \in Seq(Int) /\ Len(rest(k)) = n - k
    OBVIOUS
  <2> HIDE DEF rest
  <2>2. rest(k) = <<>> <=> k = n
    <3>1. rest(k) = <<>> <=> Len(rest(k)) = 0
      BY <2>1, EmptySeq
    <3> QED
      BY <1>1, <2>1, <3>1
  <2>3. ASSUME k # n
        PROVE  Head(rest(k)) = text[k + 1] /\ Tail(rest(k)) = rest(k + 1)
    <3>1. k + 1 \in 1..n /\ n \in (k + 1)..n
      BY <2>3
    <3> QED
      BY <3>1, HeadTailOfSubSeq DEF rest
  <2> QED
    BY <2>1, <2>2, <2>3
<1>3. ASSUME NEW k \in 0..n
      PROVE  LET t == At(q[k], rest(k), <<>>) IN
             /\ t.bytes \in Seq(Int) /\ t.frames \in Seq(Frames)
             /\ t.bytes = <<>> => t.reader = q[n] /\ t.frames = <<>>
             /\ t.bytes # <<>> => Goes1(skips, t, D)
  <2> DEFINE t == At(q[k], rest(k), <<>>)
  <2>1. t.reader = q[k] /\ t.bytes = rest(k) /\ t.frames = <<>>
    BY DEF At
  <2>2. ASSUME rest(k) # <<>>
        PROVE  At(q[k + 1], Tail(rest(k)), <<>>) \in D
    <3>1. k + 1 \in 0..n
      BY <1>1, <1>2, <2>2
    <3> QED
      BY <1>2, <2>2, <3>1
  <2> HIDE DEF rest, D, t
  <2>3. ASSUME t.bytes # <<>>
        PROVE  Goes1(skips, t, D)
    <3>1. k \in 0..(n - 1) /\ Head(t.bytes) = text[k + 1]
      BY <1>2, <2>1, <2>3
    <3>2. ~LeavesOut(skips, t) /\ Taken(t) = q[k + 1]
          /\ Taken(t).phase \notin {"done", "error"}
      BY <2>1, <3>1 DEF LeavesOut, Taken
    <3> QED
      BY <2>1, <2>2, <2>3, <3>2 DEF Goes1
  <2> QED
    BY <1>1, <1>2, <2>1, <2>3 DEF t
<1>4. Leads(skips, D, q[n])
  <2> HIDE DEF rest
  <2> QED
    BY <1>3 DEF Leads
<1>5. At(q[0], text, <<>>) \in D
  <2>1. rest(0) = text
    OBVIOUS
  <2> HIDE DEF rest
  <2> QED
    BY <1>1, <2>1
<1> QED
  BY <1>4, <1>5 DEF Goes

-----------------------------------------------------------------------------
(* The parts of a frame.                                                   *)

\* A reader at work.
Now(phase, line, command, headers, need, body) ==
    [phase |-> phase, line |-> line, command |-> command, headers |-> headers,
     need |-> need, body |-> body]

\* The first bytes of a text, one after the other.
Begins(text) ==
    /\ SubSeq(text, 1, 0) = <<>> /\ SubSeq(text, 1, Len(text)) = text
    /\ \A k \in 0..(Len(text) - 1) :
         /\ Append(SubSeq(text, 1, k), text[k + 1]) = SubSeq(text, 1, k + 1)
         /\ SubSeq(text, 1, k) \o <<text[k + 1]>> = SubSeq(text, 1, k + 1)
LEMMA TextBegins == ASSUME NEW text \in Seq(Int) PROVE Begins(text)
<1>1. SubSeq(text, 1, 0) = <<>> /\ SubSeq(text, 1, Len(text)) = text
  BY SubSeqEmpty, SubSeqFull
<1>2. ASSUME NEW k \in 0..(Len(text) - 1)
      PROVE  /\ Append(SubSeq(text, 1, k), text[k + 1]) = SubSeq(text, 1, k + 1)
             /\ SubSeq(text, 1, k) \o <<text[k + 1]>> = SubSeq(text, 1, k + 1)
  OBVIOUS
<1> QED
  BY <1>1, <1>2 DEF Begins

\* More of a line that has begun.
Extends(line, text) ==
    /\ line \o SubSeq(text, 1, 0) = line /\ line \o SubSeq(text, 1, Len(text)) = line \o text
    /\ \A k \in 0..(Len(text) - 1) :
         Append(line \o SubSeq(text, 1, k), text[k + 1]) = line \o SubSeq(text, 1, k + 1)
LEMMA LineExtends ==
    ASSUME NEW line \in Seq(Int), NEW text \in Seq(Int)
    PROVE  Extends(line, text)
<1>1. line \o SubSeq(text, 1, 0) = line /\ line \o SubSeq(text, 1, Len(text)) = line \o text
  OBVIOUS
<1>2. ASSUME NEW k \in 0..(Len(text) - 1)
      PROVE  Append(line \o SubSeq(text, 1, k), text[k + 1]) = line \o SubSeq(text, 1, k + 1)
  <2> DEFINE start == SubSeq(text, 1, k)
             b == text[k + 1]
  <2>1. start \in Seq(Int) /\ b \in Int /\ <<b>> \in Seq(Int)
    OBVIOUS
  <2>2. start \o <<b>> = SubSeq(text, 1, k + 1)
    BY TextBegins DEF Begins
  <2> HIDE DEF start, b
  <2>3. Append(line \o start, b) = (line \o start) \o <<b>>
    BY <2>1, AppendIsConcat, ConcatProperties
  <2>4. Regroups(line, start, <<b>>)
    BY <2>1, Regroup, Zenon
  <2> QED
    BY <2>2, <2>3, <2>4 DEF Regroups, start, b
<1> QED
  BY <1>1, <1>2 DEF Extends

\* The parts of stomp_read.
LEMMA ReceiveByte ==
    ASSUME NEW r, NEW b
    PROVE  /\ r.phase \in {"command", "headers"} => Receive(r, <<b>>) = ReadLine(r, b)
           /\ r.phase = "body" => Receive(r, <<b>>) = ReadBody(r, <<b>>)
           /\ r.phase = "end" => Receive(r, <<b>>) = ReadEnd(r, b)
           /\ r.phase = "text" => Receive(r, <<b>>) = ReadText(r, b)
<1>1. <<b>>[1] = b
  OBVIOUS
<1> QED
  BY <1>1 DEF Receive

\* A text without the end of a line becomes part of the line.
LEMMA TextOfLine ==
    ASSUME NEW skips, NEW phase \in {"command", "headers"}, NEW line \in Seq(Int),
           NEW command, NEW headers, NEW need, NEW body,
           NEW text \in Seq(Int), Plain(text)
    PROVE  Goes(skips, Now(phase, line, command, headers, need, body), text,
                Now(phase, line \o text, command, headers, need, body), <<>>)
<1> DEFINE reader_at(k) == Now(phase, line \o SubSeq(text, 1, k), command, headers, need, body)
           q == [k \in 0..Len(text) |-> reader_at(k)]
<1>1. Extends(line, text) /\ Len(text) \in Nat
  BY LineExtends
<1>2. ASSUME NEW k \in 0..(Len(text) - 1)
      PROVE  /\ ~(skips /\ Skips(q[k], text[k + 1]))
             /\ Receive(q[k], <<text[k + 1]>>) = q[k + 1]
             /\ q[k + 1].phase \notin {"done", "error"}
  <2>1. k \in 0..Len(text) /\ k + 1 \in 0..Len(text) /\ k + 1 \in 1..Len(text)
    BY <1>1
  <2>2. q[k] = reader_at(k) /\ q[k + 1] = reader_at(k + 1)
    BY <2>1
  <2>3. text[k + 1] \notin {Zero, NewLine}
    BY <2>1 DEF Plain
  <2>4. Append(line \o SubSeq(text, 1, k), text[k + 1]) = line \o SubSeq(text, 1, k + 1)
    BY <1>1 DEF Extends
  <2> HIDE DEF q
  <2>5. Receive(q[k], <<text[k + 1]>>) = ReadLine(reader_at(k), text[k + 1])
    <3>1. reader_at(k).phase \in {"command", "headers"}
      BY DEF Now
    <3> QED
      BY <2>2, <3>1, ReceiveByte
  <2>6. ReadLine(reader_at(k), text[k + 1]) = reader_at(k + 1)
    BY <2>3, <2>4 DEF ReadLine, Now
  <2>7. q[k + 1].phase \notin {"done", "error"}
    BY <2>2 DEF Now
  <2> QED
    BY <2>2, <2>3, <2>5, <2>6, <2>7 DEF Skips
<1>3. q[0] = Now(phase, line, command, headers, need, body)
  <2>1. q[0] = reader_at(0)
    BY <1>1
  <2> QED
    BY <1>1, <2>1 DEF Extends
<1>4. q[Len(text)] = Now(phase, line \o text, command, headers, need, body)
  <2>1. q[Len(text)] = reader_at(Len(text))
    BY <1>1
  <2> QED
    BY <1>1, <2>1 DEF Extends
<1> HIDE DEF q
<1> QED
  BY <1>2, <1>3, <1>4, GoesAlong

\* A byte that is taken.
LEMMA GoesByte ==
    ASSUME NEW skips, NEW r, NEW b \in Int, NEW q,
           ~(skips /\ Skips(r, b)), Receive(r, <<b>>) = q,
           q.phase \notin {"done", "error"}
    PROVE  Goes(skips, r, <<b>>, q, <<>>)
<1>1. /\ <<b>> \in Seq(Int) /\ <<b>> # <<>> /\ Head(<<b>>) = b /\ Tail(<<b>>) = <<>>
      /\ <<>> \in Seq(Frames)
  OBVIOUS
<1>2. Goes(skips, q, <<>>, q, <<>>)
  BY GoesNowhere
<1> QED
  BY <1>1, <1>2, GoesFirst

\* A byte that ends a frame.
LEMMA GoesEnd ==
    ASSUME NEW skips, NEW r, NEW b \in Int, NEW f \in Frames,
           ~(skips /\ Skips(r, b)), Receive(r, <<b>>).phase = "done",
           FrameRead(Receive(r, <<b>>)) = f
    PROVE  Goes(skips, r, <<b>>, Start, <<f>>)
<1>1. /\ <<b>> \in Seq(Int) /\ <<b>> # <<>> /\ Head(<<b>>) = b /\ Tail(<<b>>) = <<>>
      /\ <<f>> \in Seq(Frames) /\ <<f>> # <<>> /\ Head(<<f>>) = f /\ Tail(<<f>>) = <<>>
  OBVIOUS
<1>2. Goes(skips, Start, <<>>, Start, <<>>)
  BY GoesNowhere
<1> QED
  BY <1>1, <1>2, GoesFirst

\* The newline between two frames.
LEMMA GoesBetween == Goes(TRUE, Start, <<NewLine>>, Start, <<>>)
<1> DEFINE b == <<NewLine>>
<1>1. /\ b \in Seq(Int) /\ b # <<>> /\ Head(b) = NewLine /\ Tail(b) = <<>>
      /\ <<>> \in Seq(Frames)
  BY DEF NewLine
<1>2. Goes(TRUE, Start, <<>>, Start, <<>>)
  BY GoesNowhere
<1>3. Skips(Start, NewLine)
  BY DEF Skips, Start
<1> HIDE DEF b
<1>4. Goes(TRUE, Start, b, Start, <<>>)
  BY <1>1, <1>2, <1>3, GoesFirst
<1> QED
  BY <1>4 DEF b

\* The buffers of a text that is not empty, or of none.
LEMMA PieceIs ==
    ASSUME NEW text \in Seq(Int)
    PROVE  /\ Piece(text) \in Seq(Seq(Int)) /\ FlattenSeq(Piece(text)) = text
           /\ \A i \in 1..Len(Piece(text)) : Piece(text)[i] # <<>>
<1>1. CASE text = <<>>
  BY <1>1, FlattenNone DEF Piece
<1>2. CASE text # <<>>
  <2>1. Piece(text) = <<text>>
    BY <1>2 DEF Piece
  <2> QED
    BY <1>2, <2>1, FlattenOne
<1> QED
  BY <1>1, <1>2

\* Buffers without an empty one.
Sendable(pieces) ==
    pieces \in Seq(Seq(Int)) /\ \A i \in 1..Len(pieces) : pieces[i] # <<>>

LEMMA SendableConcat ==
    ASSUME NEW s, NEW t, Sendable(s), Sendable(t)
    PROVE  /\ Sendable(s \o t)
           /\ FlattenSeq(s \o t) = FlattenSeq(s) \o FlattenSeq(t)
           /\ FlattenSeq(s) \in Seq(Int)
<1>1. s \in Seq(Seq(Int)) /\ t \in Seq(Seq(Int))
  BY DEF Sendable
<1>2. /\ FlattenSeq(s \o t) = FlattenSeq(s) \o FlattenSeq(t)
      /\ FlattenSeq(s) \in Seq(Int)
  BY <1>1, FlattenConcat
<1>3. /\ s \o t \in Seq(Seq(Int))
      /\ Len(s \o t) = Len(s) + Len(t)
      /\ \A i \in 1 .. Len(s) + Len(t) : (s \o t)[i] =
                     IF i <= Len(s) THEN s[i] ELSE t[i - Len(s)]
  BY <1>1, ConcatProperties
<1>4. ASSUME NEW i \in 1..Len(s \o t)
      PROVE  (s \o t)[i] # <<>>
  <2>1. Len(s) \in Nat /\ Len(t) \in Nat
    BY <1>1
  <2>2. CASE i <= Len(s)
    BY <1>3, <2>1, <2>2 DEF Sendable
  <2>3. CASE ~(i <= Len(s))
    <3>1. i - Len(s) \in 1..Len(t)
      BY <1>3, <2>1, <2>3
    <3> QED
      BY <1>3, <2>1, <2>3, <3>1 DEF Sendable
  <2> QED
    BY <2>2, <2>3
<1> QED
  BY <1>2, <1>3, <1>4 DEF Sendable

LEMMA SendableOne ==
    ASSUME NEW b \in Int
    PROVE  Sendable(<<<<b>>>>) /\ FlattenSeq(<<<<b>>>>) = <<b>> /\ <<b>> \in Seq(Int)
BY FlattenOne DEF Sendable

\* The buffers of a header.
LEMMA HeaderSent ==
    ASSUME NEW key \in Int, NEW value \in Seq(Int)
    PROVE  /\ Sendable(HeaderPieces(key, value))
           /\ FlattenSeq(HeaderPieces(key, value))
                = ((<<key>> \o <<Colon>>) \o value) \o <<NewLine>>
<1> DEFINE k == <<<<key>>>>
           c == <<<<Colon>>>>
           v == Piece(value)
           e == <<<<NewLine>>>>
<1>0. Colon \in Int /\ NewLine \in Int
  BY DEF Colon, NewLine
<1>1. Sendable(k) /\ FlattenSeq(k) = <<key>>
  BY SendableOne
<1>2. Sendable(c) /\ FlattenSeq(c) = <<Colon>>
  BY <1>0, SendableOne
<1>3. Sendable(v) /\ FlattenSeq(v) = value
  BY PieceIs DEF Sendable
<1>4. Sendable(e) /\ FlattenSeq(e) = <<NewLine>>
  BY <1>0, SendableOne
<1>5. HeaderPieces(key, value) = ((k \o c) \o v) \o e
  <2>1. <<<<key>>, <<Colon>>>> = k \o c
    OBVIOUS
  <2> DEFINE kc == k \o c
  <2>2. HeaderPieces(key, value) = (kc \o v) \o e
    <3> HIDE DEF v
    <3> QED
      BY <2>1, Zenon DEF HeaderPieces, v
  <2> QED
    BY <2>2
<1> HIDE DEF k, c, v, e
<1>6. Sendable(k \o c) /\ FlattenSeq(k \o c) = <<key>> \o <<Colon>>
  BY <1>1, <1>2, SendableConcat
<1>7. Sendable((k \o c) \o v) /\ FlattenSeq((k \o c) \o v) = (<<key>> \o <<Colon>>) \o value
  BY <1>3, <1>6, SendableConcat
<1> DEFINE head == (k \o c) \o v
<1>8. Sendable(head) /\ FlattenSeq(head) = (<<key>> \o <<Colon>>) \o value
  BY <1>7
<1>9. HeaderPieces(key, value) = head \o e
  BY <1>5
<1> HIDE DEF head
<1>10. Sendable(head \o e) /\ FlattenSeq(head \o e) = FlattenSeq(head) \o FlattenSeq(e)
  BY <1>4, <1>8, SendableConcat, Zenon
<1> QED
  BY <1>4, <1>8, <1>9, <1>10

\* A line with a colon is cut there.
LEMMA LineCut ==
    ASSUME NEW key \in Int, key # Colon, NEW value \in Seq(Int)
    PROVE  LET line == (<<key>> \o <<Colon>>) \o value
               c == SelectInSeq(line, LAMBDA b : b = Colon)
           IN /\ Contains(line, Colon) /\ line # <<>>
              /\ SubSeq(line, 1, c - 1) = <<key>> /\ SubSeq(line, c + 1, Len(line)) = value
<1> DEFINE line == (<<key>> \o <<Colon>>) \o value
           I == {i \in 1..Len(line) : line[i] = Colon}
<1>1. /\ line \in Seq(Int) /\ Len(line) = Len(value) + 2 /\ Len(value) \in Nat
      /\ line[1] = key /\ line[2] = Colon
      /\ \A i \in 1..Len(value) : line[i + 2] = value[i]
  BY DEF Colon
<1> HIDE DEF line
<1>2. 2 \in I /\ \A i \in I : 2 <= i
  BY <1>1
<1>3. SelectInSeq(line, LAMBDA b : b = Colon) = 2
  <2> HIDE DEF I
  <2>1. Min(I) = 2
    <3>1. \A x, y \in I : x <= y /\ y <= x => x = y
      BY DEF I
    <3> QED
      BY <1>2, <3>1 DEF Min
  <2> QED
    BY <1>2, <2>1 DEF SelectInSeq, I
<1>4. SubSeq(line, 1, 1) = <<key>>
  <2> DEFINE t == SubSeq(line, 1, 1)
  <2>1. t \in Seq(Int) /\ Len(t) = 1 /\ t[1] = line[1]
    BY <1>1
  <2>2. <<key>> \in Seq(Int) /\ Len(<<key>>) = 1 /\ <<key>>[1] = key
    OBVIOUS
  <2> HIDE DEF t
  <2>3. t = <<key>>
    BY <1>1, <2>1, <2>2, SeqEqual
  <2> QED
    BY <2>3 DEF t
<1>5. SubSeq(line, 3, Len(line)) = value
  <2> DEFINE t == SubSeq(line, 3, Len(line))
  <2>1. t \in Seq(Int) /\ Len(t) = Len(value) /\ \A i \in 1..Len(value) : t[i] = line[i + 2]
    <3>1. Len(line) \in Nat /\ line \in Seq(Int) /\ 3..Len(line) \subseteq 1..Len(line)
      BY <1>1
    <3>2. t \in Seq(Int) /\ Len(t) = Len(line) - 2
      BY <1>1, <3>1
    <3>3. \A i \in 1..(Len(line) - 2) : t[i] = line[i + 2]
      BY <1>1, <3>1
    <3> HIDE DEF t
    <3> QED
      BY <1>1, <3>2, <3>3
  <2> HIDE DEF t
  <2>2. Len(t) = Len(value) /\ \A i \in 1..Len(t) : t[i] = value[i]
    BY <1>1, <2>1
  <2>3. t = value
    BY <2>1, <2>2, SeqEqual
  <2> QED
    BY <2>3 DEF t
<1>6. Contains(line, Colon) /\ line # <<>>
  BY <1>1 DEF Contains
<1>7. SelectInSeq(line, LAMBDA b : b = Colon) - 1 = 1
      /\ SelectInSeq(line, LAMBDA b : b = Colon) + 1 = 3
  BY <1>3
<1> QED
  BY <1>4, <1>5, <1>6, <1>7 DEF line

\* A reader between two header lines.
InHeaders(command, headers) == Now("headers", <<>>, command, headers, 0, <<>>)

\* A header is read as it was written.
LEMMA HeaderGoes ==
    ASSUME NEW skips, NEW command, NEW headers,
           NEW key \in Int, key \notin {Zero, NewLine, Colon},
           NEW value \in Seq(Int), Plain(value)
    PROVE  Goes(skips, InHeaders(command, headers), FlattenSeq(HeaderPieces(key, value)),
                InHeaders(command, SetHeader(headers, <<key>>, value)), <<>>)
<1> DEFINE r(line) == Now("headers", line, command, headers, 0, <<>>)
           start == <<key>> \o <<Colon>>
           line == start \o value
<1>1. /\ <<key>> \in Seq(Int) /\ <<Colon>> \in Seq(Int) /\ <<>> \in Seq(Int)
      /\ Plain(<<key>>) /\ Plain(<<Colon>>)
      /\ start \in Seq(Int) /\ <<>> \o <<key>> = <<key>> /\ <<>> \o <<>> = <<>>
  BY DEF Plain, Colon, NewLine, Zero
<1> HIDE DEF start
<1>2. Goes(skips, r(<<>>), <<key>>, r(<<>> \o <<key>>), <<>>)
  BY <1>1, TextOfLine
<1>3. Goes(skips, r(<<key>>), <<Colon>>, r(<<key>> \o <<Colon>>), <<>>)
  BY <1>1, TextOfLine
<1>4. Goes(skips, r(start), value, r(line), <<>>)
  BY <1>1, TextOfLine
<1>5. Goes(skips, r(<<>>), start, r(start), <<>>)
  <2>1. Goes(skips, r(<<>>), <<key>>, r(<<key>>), <<>>)
    BY <1>1, <1>2
  <2> HIDE DEF r
  <2>2. Goes(skips, r(<<>>), start, r(start), <<>> \o <<>>)
    BY <1>3, <2>1, GoesThen DEF start
  <2> QED
    BY <1>1, <2>2
<1>6. Goes(skips, r(<<>>), line, r(line), <<>>)
  <2> HIDE DEF r, line
  <2>1. Goes(skips, r(<<>>), start \o value, r(line), <<>> \o <<>>)
    BY <1>4, <1>5, GoesThen
  <2> QED
    BY <1>1, <2>1 DEF line
<1> DEFINE q == InHeaders(command, SetHeader(headers, <<key>>, value))
<1>7. Goes(skips, r(line), <<NewLine>>, q, <<>>)
  <2>1. /\ Contains(line, Colon) /\ line # <<>>
        /\ LET c == SelectInSeq(line, LAMBDA b : b = Colon) IN
           SubSeq(line, 1, c - 1) = <<key>> /\ SubSeq(line, c + 1, Len(line)) = value
    BY LineCut DEF start
  <2> HIDE DEF line
  <2>2. Receive(r(line), <<NewLine>>) = ReadLine(r(line), NewLine)
    BY ReceiveByte DEF Now
  <2>3. ReadLine(r(line), NewLine) = HeaderLine(r(line))
    BY <2>1 DEF ReadLine, Now
  <2>4. HeaderLine(r(line)) = q
    BY <2>1 DEF HeaderLine, Now, InHeaders
  <2>5. ~Skips(r(line), NewLine)
    BY DEF Skips, Now
  <2>6. q.phase \notin {"done", "error"} /\ NewLine \in Int
    BY DEF InHeaders, Now, NewLine
  <2> HIDE DEF q
  <2> QED
    BY <2>2, <2>3, <2>4, <2>5, <2>6, GoesByte
<1>8. Goes(skips, r(<<>>), line \o <<NewLine>>, q, <<>>)
  <2> HIDE DEF q, line, r
  <2>1. Goes(skips, r(<<>>), line \o <<NewLine>>, q, <<>> \o <<>>)
    BY <1>6, <1>7, GoesThen
  <2> QED
    BY <1>1, <2>1
<1> QED
  BY <1>1, <1>8, HeaderSent DEF InHeaders, start

\* What ends no frame, and then more.
LEMMA GoesAndThen ==
    ASSUME NEW skips, NEW r, NEW a, NEW q, NEW b, NEW last, NEW g,
           Goes(skips, r, a, q, <<>>), Goes(skips, q, b, last, g)
    PROVE  Goes(skips, r, a \o b, last, g)
<1>1. Goes(skips, r, a \o b, last, <<>> \o g)
  BY GoesThen
<1>2. g \in Seq(Frames)
  BY GoesOn
<1>3. <<>> \o g = g
  BY <1>2, ConcatEmptySeq
<1> QED
  BY <1>1, <1>3

\* The types of what a frame has.
LEMMA FrameParts ==
    ASSUME NEW frame \in Frame
    PROVE  /\ frame.command \in Int /\ frame.body \in Seq(Int)
           /\ frame.body_length \in Int /\ Len(frame.headers) \in Nat
           /\ \A i \in 1..Len(frame.headers) :
                frame.headers[i].key \in Int /\ frame.headers[i].value \in Seq(Int)
<1>1. /\ frame.command \in Nat /\ frame.body \in Seq(Nat) /\ frame.body_length \in Int
      /\ frame.headers \in Seq([key : Nat, value : Seq(Nat)])
  BY DEF Frame, Headers
<1>2. \A text \in Seq(Nat) : text \in Seq(Int)
  BY SeqMonotonic
<1>3. \A i \in 1..Len(frame.headers) : frame.headers[i] \in [key : Nat, value : Seq(Nat)]
  BY <1>1, ElementOfSeq
<1> QED
  BY <1>1, <1>2, <1>3

\* The buffers of the first headers, and the headers themselves.
FirstPieces(frame, n) ==
    FlattenSeq([i \in 1..n |-> HeaderPieces(frame.headers[i].key, frame.headers[i].value)])
FirstHeaders(frame, n) ==
    {[key |-> <<frame.headers[i].key>>, value |-> frame.headers[i].value] : i \in 1..n}

\* One header more.
LEMMA NextHeader ==
    ASSUME NEW frame \in Frame, NEW n \in Nat, n + 1 <= Len(frame.headers)
    PROVE  FirstPieces(frame, n + 1)
             = FirstPieces(frame, n)
               \o HeaderPieces(frame.headers[n + 1].key, frame.headers[n + 1].value)
<1> DEFINE piece(i) == HeaderPieces(frame.headers[i].key, frame.headers[i].value)
           s == [i \in 1..n |-> piece(i)]
           t == [i \in 1..(n + 1) |-> piece(i)]
<1>1. \A i \in 1..(n + 1) : piece(i) \in Seq(Seq(Int))
  <2> SUFFICES ASSUME NEW i \in 1..(n + 1) PROVE piece(i) \in Seq(Seq(Int))
    OBVIOUS
  <2>1. i \in 1..Len(frame.headers)
    BY FrameParts
  <2> QED
    BY <2>1, FrameParts, HeaderSent DEF Sendable
<1> HIDE DEF piece
<1>2. s \in Seq(Seq(Seq(Int))) /\ t \in Seq(Seq(Seq(Int))) /\ piece(n + 1) \in Seq(Seq(Int))
  <2>1. \A i \in 1..n : i \in 1..(n + 1)
    OBVIOUS
  <2>2. n + 1 \in 1..(n + 1) /\ n + 1 \in Nat
    OBVIOUS
  <2> QED
    BY <1>1, <2>1, <2>2
<1>3. t = Append(s, piece(n + 1))
  <2>1. Len(s) = n /\ Len(t) = n + 1
    OBVIOUS
  <2>2. Append(s, piece(n + 1)) \in Seq(Seq(Seq(Int)))
        /\ Len(Append(s, piece(n + 1))) = n + 1
    BY <1>2, <2>1, AppendProperties
  <2>3. \A i \in 1..(n + 1) : t[i] = Append(s, piece(n + 1))[i]
    BY <2>1
  <2> HIDE DEF s, t
  <2> QED
    BY <1>2, <2>1, <2>2, <2>3, SeqEqual
<1> HIDE DEF s, t
<1>4. FlattenSeq(t) = FlattenSeq(s) \o piece(n + 1)
  BY <1>2, <1>3, FlattenAppend
<1> QED
  BY <1>4 DEF FirstPieces, piece, s, t

\* All headers are read, each under its name.
LEMMA HeadersGo ==
    ASSUME NEW skips, NEW frame, WellFormed(frame), NEW command
    PROVE  /\ Sendable(FirstPieces(frame, Len(frame.headers)))
           /\ Goes(skips, InHeaders(command, {}),
                   FlattenSeq(FirstPieces(frame, Len(frame.headers))),
                   InHeaders(command, FirstHeaders(frame, Len(frame.headers))), <<>>)
<1> DEFINE P(n) == /\ Sendable(FirstPieces(frame, n))
                   /\ Goes(skips, InHeaders(command, {}), FlattenSeq(FirstPieces(frame, n)),
                           InHeaders(command, FirstHeaders(frame, n)), <<>>)
           S == {n \in Nat : n <= Len(frame.headers) => P(n)}
<1>0. frame \in Frame
  BY DEF WellFormed
<1>1. 0 \in S
  <2>1. FirstPieces(frame, 0) = <<>>
    BY DEF FirstPieces, FlattenSeq
  <2>2. FirstHeaders(frame, 0) = {}
    BY DEF FirstHeaders
  <2>3. Sendable(<<>>) /\ FlattenSeq(<<>>) = <<>>
    BY FlattenNone, EmptySeq DEF Sendable
  <2> QED
    BY <2>1, <2>2, <2>3, GoesNowhere
<1>2. ASSUME NEW n \in Nat, n \in S
      PROVE  n + 1 \in S
  <2> SUFFICES ASSUME n + 1 <= Len(frame.headers) PROVE P(n + 1)
    OBVIOUS
  <2>1. P(n)
    BY <1>0, <1>2, FrameParts
  <2> DEFINE h == frame.headers[n + 1]
             piece == HeaderPieces(h.key, h.value)
  <2>2. n + 1 \in 1..Len(frame.headers)
    BY <1>0, FrameParts
  <2>3. /\ h.key \in Int /\ h.value \in Seq(Int)
        /\ h.key \notin {Zero, NewLine, Colon} /\ Plain(h.value)
    BY <1>0, <2>2, FrameParts DEF WellFormed
  <2>4. FirstPieces(frame, n + 1) = FirstPieces(frame, n) \o piece
    BY <1>0, NextHeader
  <2>5. FirstHeaders(frame, n + 1) = SetHeader(FirstHeaders(frame, n), <<h.key>>, h.value)
    <3>1. \A i \in 1..n : frame.headers[i].key # h.key
      <4> SUFFICES ASSUME NEW i \in 1..n PROVE frame.headers[i].key # h.key
        OBVIOUS
      <4>1. i \in 1..Len(frame.headers) /\ i # n + 1
        BY <2>2
      <4> QED
        BY <2>2, <4>1 DEF WellFormed
    <3>2. \A x \in FirstHeaders(frame, n) : x.key # <<h.key>>
      BY <3>1 DEF FirstHeaders
    <3>3. FirstHeaders(frame, n + 1)
            = FirstHeaders(frame, n) \cup {[key |-> <<h.key>>, value |-> h.value]}
      <4>1. 1..(n + 1) = (1..n) \cup {n + 1}
        OBVIOUS
      <4> QED
        BY <4>1 DEF FirstHeaders
    <3> QED
      BY <3>2, <3>3 DEF SetHeader
  <2> HIDE DEF h
  <2>6. Sendable(piece)
    BY <2>3, HeaderSent
  <2>7. /\ Sendable(FirstPieces(frame, n) \o piece)
        /\ FlattenSeq(FirstPieces(frame, n) \o piece)
             = FlattenSeq(FirstPieces(frame, n)) \o FlattenSeq(piece)
    BY <2>1, <2>6, SendableConcat
  <2>8. Goes(skips, InHeaders(command, FirstHeaders(frame, n)), FlattenSeq(piece),
             InHeaders(command, FirstHeaders(frame, n + 1)), <<>>)
    BY <2>3, <2>5, HeaderGoes
  <2> HIDE DEF piece
  <2>9. Goes(skips, InHeaders(command, {}), FlattenSeq(FirstPieces(frame, n)) \o FlattenSeq(piece),
             InHeaders(command, FirstHeaders(frame, n + 1)), <<>>)
    BY <2>1, <2>8, GoesAndThen
  <2> QED
    BY <2>4, <2>7, <2>9
<1>3. Len(frame.headers) \in S
  <2>1. Len(frame.headers) \in Nat
    BY <1>0, FrameParts
  <2> HIDE DEF S
  <2> QED
    BY <1>1, <1>2, <2>1, SetInduction
<1>4. Len(frame.headers) <= Len(frame.headers)
  BY <1>0, FrameParts
<1> QED
  BY <1>3, <1>4

LengthPieces(frame) ==
    IF HasLength(frame) THEN HeaderPieces(ContentLength, <<Itoa(frame.body_length)>>)
    ELSE <<>>
LengthHeader(frame) == [key |-> <<ContentLength>>, value |-> <<Itoa(frame.body_length)>>]

\* The headers of a frame and the one that stomp_write adds.
AllHeaders(frame) ==
    FirstHeaders(frame, Len(frame.headers))
    \cup (IF HasLength(frame) THEN {LengthHeader(frame)} ELSE {})

\* No header of the frame has the name of its length.
LEMMA LengthApart ==
    ASSUME NEW frame, WellFormed(frame)
    PROVE  \A h \in FirstHeaders(frame, Len(frame.headers)) : h.key # <<ContentLength>>
BY DEF WellFormed, FirstHeaders

\* A length is a number, and nothing that ends a line.
LEMMA LengthText ==
    ASSUME NEW n \in Nat
    PROVE  /\ <<Itoa(n)>> \in Seq(Int) /\ Plain(<<Itoa(n)>>)
           /\ Atoi(<<Itoa(n)>>) = n
<1>1. Itoa(n) \in Int /\ Itoa(n) < 0 /\ -1 - Itoa(n) = n
  BY DEF Itoa
<1> HIDE DEF Itoa
<1>2. <<Itoa(n)>> # <<>> /\ <<Itoa(n)>>[1] = Itoa(n) /\ Len(<<Itoa(n)>>) = 1
  OBVIOUS
<1>3. Itoa(n) \notin {Zero, NewLine}
  BY <1>1 DEF Zero, NewLine
<1> QED
  BY <1>1, <1>2, <1>3 DEF Atoi, Plain

\* The header with the length is read.
LEMMA LengthGoes ==
    ASSUME NEW skips, NEW frame, WellFormed(frame), NEW command
    PROVE  /\ Sendable(LengthPieces(frame))
           /\ Goes(skips, InHeaders(command, FirstHeaders(frame, Len(frame.headers))),
                   FlattenSeq(LengthPieces(frame)),
                   InHeaders(command, AllHeaders(frame)), <<>>)
<1> DEFINE first == FirstHeaders(frame, Len(frame.headers))
<1>1. CASE ~HasLength(frame)
  <2>1. LengthPieces(frame) = <<>> /\ AllHeaders(frame) = first
    BY <1>1 DEF LengthPieces, AllHeaders
  <2>2. Sendable(<<>>) /\ FlattenSeq(<<>>) = <<>>
    BY FlattenNone, EmptySeq DEF Sendable
  <2> QED
    BY <2>1, <2>2, GoesNowhere
<1>2. CASE HasLength(frame)
  <2> DEFINE value == <<Itoa(frame.body_length)>>
  <2>1. frame.body_length \in Nat
    BY <1>2, FrameParts DEF HasLength, WellFormed
  <2>2. value \in Seq(Int) /\ Plain(value)
    BY <2>1, LengthText
  <2>3. ContentLength \in Int /\ ContentLength \notin {Zero, NewLine, Colon}
    BY DEF ContentLength, Zero, NewLine, Colon
  <2>4. LengthPieces(frame) = HeaderPieces(ContentLength, value)
    BY <1>2 DEF LengthPieces
  <2>5. AllHeaders(frame) = SetHeader(first, <<ContentLength>>, value)
    <3>1. {h \in first : h.key # <<ContentLength>>} = first
      BY LengthApart
    <3> QED
      BY <1>2, <3>1 DEF AllHeaders, LengthHeader, SetHeader
  <2> HIDE DEF value, first
  <2>6. Sendable(LengthPieces(frame))
    BY <2>2, <2>3, <2>4, HeaderSent
  <2>7. Goes(skips, InHeaders(command, first), FlattenSeq(HeaderPieces(ContentLength, value)),
             InHeaders(command, SetHeader(first, <<ContentLength>>, value)), <<>>)
    BY <2>2, <2>3, HeaderGoes
  <2> QED
    BY <2>4, <2>5, <2>6, <2>7 DEF first
<1> QED
  BY <1>1, <1>2

\* The reader behind the headers, and behind the body.
AtBody(frame, command) ==
    IF HasLength(frame)
    THEN Now(IF frame.body_length = 0 THEN "end" ELSE "body", <<>>, command,
             AllHeaders(frame), frame.body_length, <<>>)
    ELSE Now("text", <<>>, command, AllHeaders(frame), 0, <<>>)
BehindBody(frame, command) ==
    Now(IF HasLength(frame) THEN "end" ELSE "text", <<>>, command, AllHeaders(frame), 0,
        frame.body)

\* The empty line ends the headers.
LEMMA BlankGoes ==
    ASSUME NEW skips, NEW frame, WellFormed(frame), NEW command
    PROVE  Goes(skips, InHeaders(command, AllHeaders(frame)), <<NewLine>>,
                AtBody(frame, command), <<>>)
<1> DEFINE r == InHeaders(command, AllHeaders(frame))
           lengths == {h \in AllHeaders(frame) : h.key = <<ContentLength>>}
<1>1. r.phase = "headers" /\ r.line = <<>> /\ r.headers = AllHeaders(frame)
  BY DEF InHeaders, Now
<1>2. Receive(r, <<NewLine>>) = EndOfHeaders(r)
  <2>1. Receive(r, <<NewLine>>) = ReadLine(r, NewLine)
    BY <1>1, ReceiveByte
  <2> HIDE DEF r
  <2>2. ReadLine(r, NewLine) = EndOfHeaders(r)
    BY <1>1 DEF ReadLine
  <2> QED
    BY <2>1, <2>2
<1>3. EndOfHeaders(r) = AtBody(frame, command)
  <2>1. CASE ~HasLength(frame)
    <3>1. lengths = {}
      BY <2>1, LengthApart DEF AllHeaders
    <3>2. EndOfHeaders(r) = [r EXCEPT !.phase = "text"]
      <4> HIDE DEF r
      <4> QED
        BY <1>1, <3>1 DEF EndOfHeaders
    <3> QED
      BY <2>1, <3>2 DEF AtBody, InHeaders, Now
  <2>2. CASE HasLength(frame)
    <3>1. lengths = {LengthHeader(frame)}
      BY <2>2, LengthApart DEF AllHeaders, LengthHeader
    <3>2. frame.body_length \in Nat
      BY <2>2, FrameParts DEF HasLength, WellFormed
    <3>3. (CHOOSE h \in lengths : TRUE).value = <<Itoa(frame.body_length)>>
      <4>1. (CHOOSE h \in lengths : TRUE) = LengthHeader(frame)
        BY <3>1
      <4>2. LengthHeader(frame).value = <<Itoa(frame.body_length)>>
        BY DEF LengthHeader
      <4> QED
        BY <4>1, <4>2
    <3>4. Atoi((CHOOSE h \in lengths : TRUE).value) = frame.body_length
      BY <3>2, <3>3, LengthText
    <3>5. EndOfHeaders(r) = [r EXCEPT !.phase = IF frame.body_length = 0 THEN "end" ELSE "body",
                                      !.need = frame.body_length]
      <4> HIDE DEF r
      <4> QED
        BY <1>1, <3>1, <3>4 DEF EndOfHeaders
    <3> QED
      BY <2>2, <3>5 DEF AtBody, InHeaders, Now
  <2> QED
    BY <2>1, <2>2
<1>4. ~Skips(r, NewLine)
  BY <1>1 DEF Skips
<1>5. AtBody(frame, command).phase \notin {"done", "error"} /\ NewLine \in Int
  BY DEF AtBody, Now, NewLine
<1> HIDE DEF r
<1>6. Goes(skips, r, <<NewLine>>, AtBody(frame, command), <<>>)
  BY <1>2, <1>3, <1>4, <1>5, GoesByte
<1> QED
  BY <1>6 DEF r

\* The body is read, with all that is in it.
LEMMA BodyGoes ==
    ASSUME NEW skips, NEW frame, WellFormed(frame), NEW command
    PROVE  Goes(skips, AtBody(frame, command), frame.body, BehindBody(frame, command), <<>>)
<1> DEFINE body == frame.body
           headers == AllHeaders(frame)
           n == Len(body)
           phase(k) == IF ~HasLength(frame) THEN "text" ELSE IF k = n THEN "end" ELSE "body"
           need(k) == IF HasLength(frame) THEN n - k ELSE 0
           reader_at(k) == Now(phase(k), <<>>, command, headers, need(k), SubSeq(body, 1, k))
           q == [k \in 0..n |-> reader_at(k)]
<1>1. body \in Seq(Int) /\ n \in Nat /\ Begins(body)
  BY FrameParts, TextBegins DEF WellFormed
<1>2. HasLength(frame) => frame.body_length = n
  BY FrameParts DEF HasLength, WellFormed
<1>3. q[0] = AtBody(frame, command)
  <2>1. q[0] = reader_at(0)
    BY <1>1
  <2>2. SubSeq(body, 1, 0) = <<>> /\ n - 0 = n /\ (0 = n <=> n = 0)
    BY <1>1 DEF Begins
  <2> HIDE DEF q
  <2> QED
    BY <1>2, <2>1, <2>2 DEF AtBody
<1>4. q[n] = BehindBody(frame, command)
  <2>1. q[n] = reader_at(n)
    BY <1>1
  <2>2. SubSeq(body, 1, n) = body /\ n - n = 0
    BY <1>1 DEF Begins
  <2> HIDE DEF q
  <2> QED
    BY <2>1, <2>2 DEF BehindBody
<1>5. ASSUME NEW k \in 0..(n - 1)
      PROVE  /\ ~(skips /\ Skips(q[k], body[k + 1]))
             /\ Receive(q[k], <<body[k + 1]>>) = q[k + 1]
             /\ q[k + 1].phase \notin {"done", "error"}
  <2> DEFINE b == body[k + 1]
  <2>1. k \in 0..n /\ k + 1 \in 0..n /\ k + 1 \in 1..n /\ k # n
    BY <1>1
  <2>2. q[k] = reader_at(k) /\ q[k + 1] = reader_at(k + 1)
    BY <2>1
  <2>3. /\ Append(SubSeq(body, 1, k), b) = SubSeq(body, 1, k + 1)
        /\ SubSeq(body, 1, k) \o <<b>> = SubSeq(body, 1, k + 1)
    BY <1>1 DEF Begins
  <2>4. ~Skips(q[k], b) /\ q[k + 1].phase \notin {"done", "error"}
    <3> HIDE DEF q
    <3> QED
      BY <2>2 DEF Skips, Now
  <2>5. Receive(reader_at(k), <<b>>) = reader_at(k + 1)
    <3>1. CASE ~HasLength(frame)
      <4>1. b # Zero
        BY <2>1, <3>1 DEF WellFormed
      <4>2. reader_at(k).phase = "text"
        BY <3>1 DEF Now
      <4>3. Receive(reader_at(k), <<b>>) = ReadText(reader_at(k), b)
        BY <4>2, ReceiveByte
      <4> HIDE DEF b
      <4>4. ReadText(reader_at(k), b) = reader_at(k + 1)
        BY <2>3, <3>1, <4>1 DEF ReadText, Now
      <4> QED
        BY <4>3, <4>4
    <3>2. CASE HasLength(frame)
      <4>1. reader_at(k).phase = "body"
        BY <2>1, <3>2 DEF Now
      <4>2. Receive(reader_at(k), <<b>>) = ReadBody(reader_at(k), <<b>>)
        BY <4>1, ReceiveByte
      <4>3. Len(<<b>>) = 1 /\ n - k - 1 = n - (k + 1) /\ (n - k = 1 <=> k + 1 = n)
        BY <1>1
      <4> HIDE DEF b
      <4>4. ReadBody(reader_at(k), <<b>>) = reader_at(k + 1)
        <5> DEFINE start == SubSeq(body, 1, k)
                   more == SubSeq(body, 1, k + 1)
                   left == n - k
                   after == n - (k + 1)
        <5>1. start \o <<b>> = more /\ left - 1 = after /\ (left = 1 <=> k + 1 = n)
          BY <2>3, <4>3
        <5>2. /\ reader_at(k) = Now("body", <<>>, command, headers, left, start)
              /\ reader_at(k + 1) = Now(IF left = 1 THEN "end" ELSE "body", <<>>, command,
                                        headers, after, more)
          BY <2>1, <3>2, <5>1
        <5> HIDE DEF start, more, left, after, headers, reader_at
        <5>3. Now("body", <<>>, command, headers, left, start).need = left
              /\ Now("body", <<>>, command, headers, left, start).body = start
          BY DEF Now
        <5>4. ReadBody(reader_at(k), <<b>>)
                = [Now("body", <<>>, command, headers, left, start) EXCEPT
                     !.body = more, !.need = after,
                     !.phase = IF left = 1 THEN "end" ELSE "body"]
          BY <4>3, <5>1, <5>2, <5>3 DEF ReadBody
        <5> QED
          BY <5>2, <5>4 DEF Now
      <4> QED
        BY <4>2, <4>4
    <3> QED
      BY <3>1, <3>2
  <2> QED
    BY <2>2, <2>4, <2>5
<1> HIDE DEF q, n
<1>6. Goes(skips, q[0], body, q[Len(body)], <<>>)
  BY <1>1, <1>5, GoesAlong DEF n
<1> QED
  BY <1>3, <1>4, <1>6 DEF n

\* What a frame means is a frame that can be read.
LEMMA MeantTypes ==
    ASSUME NEW frame \in Frame
    PROVE  FrameMeant(frame) \in Frames
<1>1. FrameMeant(frame) = [command |-> <<frame.command>>, headers |-> AllHeaders(frame),
                          body |-> frame.body]
  BY DEF FrameMeant, AllHeaders, FirstHeaders, LengthHeader
<1>2. FrameMeant(frame) \in Frames
  <2>1. /\ frame.command \in Int /\ frame.body \in Seq(Int)
        /\ \A i \in 1..Len(frame.headers) :
             frame.headers[i].key \in Int /\ frame.headers[i].value \in Seq(Int)
    BY FrameParts
  <2>2. \A h \in FirstHeaders(frame, Len(frame.headers)) : h \in [key : Seq(Int), value : Seq(Int)]
    <3> SUFFICES ASSUME NEW i \in 1..Len(frame.headers)
                 PROVE  [key |-> <<frame.headers[i].key>>, value |-> frame.headers[i].value]
                          \in [key : Seq(Int), value : Seq(Int)]
      BY DEF FirstHeaders
    <3>1. frame.headers[i].key \in Int /\ frame.headers[i].value \in Seq(Int)
      BY <2>1
    <3>2. <<frame.headers[i].key>> \in Seq(Int)
      BY <3>1
    <3> QED
      BY <3>1, <3>2
  <2>3. HasLength(frame) => LengthHeader(frame) \in [key : Seq(Int), value : Seq(Int)]
    <3>1. HasLength(frame) => frame.body_length \in Nat
      BY FrameParts DEF HasLength
    <3>2. <<ContentLength>> \in Seq(Int)
      BY DEF ContentLength
    <3> QED
      BY <3>1, <3>2, LengthText DEF LengthHeader
  <2>4. AllHeaders(frame) \in SUBSET [key : Seq(Int), value : Seq(Int)]
    BY <2>2, <2>3 DEF AllHeaders
  <2>5. <<frame.command>> \in Seq(Int)
    BY <2>1
  <2> QED
    BY <1>1, <2>1, <2>4, <2>5 DEF Frames
<1> QED
  BY <1>2

\* What is behind the body ends the frame.
LEMMA EndGoes ==
    ASSUME NEW skips, NEW frame, WellFormed(frame)
    PROVE  Goes(skips, BehindBody(frame, <<frame.command>>), <<Zero>>, Start,
                <<FrameMeant(frame)>>)
<1> DEFINE r == BehindBody(frame, <<frame.command>>)
           q == Receive(r, <<Zero>>)
<1>1. q = [r EXCEPT !.phase = "done"]
  <2>1. CASE HasLength(frame)
    <3>1. r.phase = "end"
      BY <2>1 DEF BehindBody, Now
    <3> HIDE DEF r
    <3> QED
      BY <3>1, ReceiveByte DEF ReadEnd
  <2>2. CASE ~HasLength(frame)
    <3>1. r.phase = "text"
      BY <2>2 DEF BehindBody, Now
    <3> HIDE DEF r
    <3> QED
      BY <3>1, ReceiveByte DEF ReadText
  <2> QED
    BY <2>1, <2>2
<1>2. q.phase = "done" /\ q.command = <<frame.command>> /\ q.headers = AllHeaders(frame)
      /\ q.body = frame.body
  <2> HIDE DEF q
  <2> QED
    BY <1>1 DEF BehindBody, Now
<1>3. FrameMeant(frame) = [command |-> <<frame.command>>, headers |-> AllHeaders(frame),
                          body |-> frame.body]
  BY DEF FrameMeant, AllHeaders, FirstHeaders, LengthHeader
<1>4. FrameRead(q) = FrameMeant(frame)
  <2> HIDE DEF q
  <2> QED
    BY <1>2, <1>3 DEF FrameRead
<1>5. ~Skips(r, Zero) /\ Zero \in Int
  BY DEF Skips, Zero, NewLine
<1>6. FrameMeant(frame) \in Frames
  BY MeantTypes DEF WellFormed
<1> HIDE DEF r
<1> QED
  BY <1>2, <1>4, <1>5, <1>6, GoesEnd DEF r

\* The buffers of a frame hold its parts one after the other, and none is empty.
Joined(frame, end) ==
    (((((<<frame.command>> \o <<NewLine>>)
        \o FlattenSeq(FirstPieces(frame, Len(frame.headers))))
       \o FlattenSeq(LengthPieces(frame)))
      \o <<NewLine>>)
     \o BodyWritten(frame))
    \o end

LEMMA FrameSent ==
    ASSUME NEW frame \in Frame, frame.body_length <= Len(frame.body),
           NEW end \in Seq(Int), end # <<>>
    PROVE  /\ Sendable(Pieces(frame, end)) /\ Pieces(frame, end) # <<>>
           /\ FlattenSeq(Pieces(frame, end)) = Joined(frame, end)
<1> DEFINE c == <<<<frame.command>>>>
           n == <<<<NewLine>>>>
           f == FirstPieces(frame, Len(frame.headers))
           l == LengthPieces(frame)
           b == Piece(BodyWritten(frame))
           e == <<end>>
<1>1. Sendable(c) /\ FlattenSeq(c) = <<frame.command>>
  BY FrameParts, SendableOne
<1>2. Sendable(n) /\ FlattenSeq(n) = <<NewLine>>
  <2>1. NewLine \in Int
    BY DEF NewLine
  <2> QED
    BY <2>1, SendableOne
<1>3. Sendable(f)
  <2> DEFINE S == {k \in Nat : k <= Len(frame.headers) => Sendable(FirstPieces(frame, k))}
  <2>1. 0 \in S
    <3>1. FirstPieces(frame, 0) = <<>>
      BY DEF FirstPieces, FlattenSeq
    <3>2. Sendable(<<>>)
      BY EmptySeq DEF Sendable
    <3> QED
      BY <3>1, <3>2
  <2>2. ASSUME NEW k \in Nat, k \in S
        PROVE  k + 1 \in S
    <3> SUFFICES ASSUME k + 1 <= Len(frame.headers) PROVE Sendable(FirstPieces(frame, k + 1))
      OBVIOUS
    <3>1. k + 1 \in 1..Len(frame.headers) /\ Sendable(FirstPieces(frame, k))
      BY <2>2, FrameParts
    <3>2. Sendable(HeaderPieces(frame.headers[k + 1].key, frame.headers[k + 1].value))
      BY <3>1, FrameParts, HeaderSent
    <3> QED
      BY <3>1, <3>2, NextHeader, SendableConcat
  <2> HIDE DEF S
  <2>3. Len(frame.headers) \in S
    BY <2>1, <2>2, SetInduction, FrameParts
  <2> QED
    BY <2>3, FrameParts DEF S
<1>4. Sendable(l)
  <2>1. CASE HasLength(frame)
    <3>1. frame.body_length \in Nat /\ ContentLength \in Int
      BY <2>1, FrameParts DEF HasLength, ContentLength
    <3> QED
      BY <2>1, <3>1, LengthText, HeaderSent DEF LengthPieces
  <2>2. CASE ~HasLength(frame)
    BY <2>2, EmptySeq DEF LengthPieces, Sendable
  <2> QED
    BY <2>1, <2>2
<1>5. BodyWritten(frame) \in Seq(Int)
  <2> DEFINE text == frame.body
             I == {i \in 1..Len(text) : text[i] = Zero}
  <2>1. text \in Seq(Int) /\ Len(text) \in Nat /\ frame.body_length \in Int
    BY FrameParts
  <2>2. UpToZero(text) \in Seq(Int)
    <3>1. CASE I = {}
      BY <2>1, <3>1 DEF UpToZero
    <3>2. CASE I # {}
      <4>1. PICK m \in I : \A k \in I : m <= k
        <5>1. I \in SUBSET Nat
          OBVIOUS
        <5> QED
          BY <3>2, <5>1, LeastNat
      <4>2. Min(I) = m
        <5>1. \A x, y \in I : x <= y /\ y <= x => x = y
          OBVIOUS
        <5> HIDE DEF I
        <5> QED
          BY <4>1, <5>1 DEF Min
      <4>3. SelectInSeq(text, LAMBDA x : x = Zero) = m
        BY <3>2, <4>2 DEF SelectInSeq
      <4>4. m - 1 \in 0..Len(text)
        BY <2>1, <4>1
      <4>5. UpToZero(text) = SubSeq(text, 1, m - 1)
        BY <3>2, <4>3 DEF UpToZero
      <4> HIDE DEF text
      <4> QED
        BY <2>1, <4>4, <4>5
    <3> QED
      BY <3>1, <3>2
  <2>3. ASSUME ~(frame.body_length < 0)
        PROVE  SubSeq(text, 1, frame.body_length) \in Seq(Int)
    <3>1. frame.body_length \in 0..Len(text)
      BY <2>1, <2>3
    <3> HIDE DEF text
    <3> QED
      BY <2>1, <3>1
  <2> QED
    BY <2>2, <2>3 DEF BodyWritten
<1>6. Sendable(b) /\ FlattenSeq(b) = BodyWritten(frame)
  BY <1>5, PieceIs DEF Sendable
<1>7. Sendable(e) /\ FlattenSeq(e) = end
  BY FlattenOne DEF Sendable
<1>8. Pieces(frame, end) = (((((c \o n) \o f) \o l) \o n) \o b) \o e
  <2>1. <<<<frame.command>>, <<NewLine>>>> = c \o n
    OBVIOUS
  <2> QED
    BY <2>1 DEF Pieces, FirstPieces, LengthPieces
<1>9. e # <<>> /\ e \in Seq(Seq(Int))
  OBVIOUS
<1> HIDE DEF c, n, f, l, b, e
<1>10. Sendable(c \o n) /\ FlattenSeq(c \o n) = <<frame.command>> \o <<NewLine>>
  BY <1>1, <1>2, SendableConcat
<1>11. Sendable((c \o n) \o f)
       /\ FlattenSeq((c \o n) \o f) = (<<frame.command>> \o <<NewLine>>) \o FlattenSeq(f)
  BY <1>3, <1>10, SendableConcat
<1> DEFINE s == (c \o n) \o f
<1> HIDE DEF s
<1>12. Sendable(s \o l) /\ FlattenSeq(s \o l) = FlattenSeq(s) \o FlattenSeq(l)
  BY <1>4, <1>11, SendableConcat DEF s
<1>13. Sendable((s \o l) \o n)
       /\ FlattenSeq((s \o l) \o n) = (FlattenSeq(s) \o FlattenSeq(l)) \o <<NewLine>>
  <2>1. Sendable((s \o l) \o n)
        /\ FlattenSeq((s \o l) \o n) = FlattenSeq(s \o l) \o FlattenSeq(n)
    BY <1>2, <1>12, SendableConcat
  <2> QED
    BY <1>2, <1>12, <2>1
<1> DEFINE t == (s \o l) \o n
<1> HIDE DEF t
<1>14. Sendable(t \o b) /\ FlattenSeq(t \o b) = FlattenSeq(t) \o BodyWritten(frame)
  BY <1>6, <1>13, SendableConcat DEF t
<1>15. Sendable((t \o b) \o e)
       /\ FlattenSeq((t \o b) \o e) = (FlattenSeq(t) \o BodyWritten(frame)) \o end
  BY <1>7, <1>14, SendableConcat
<1>16. Pieces(frame, end) = (t \o b) \o e
  BY <1>8 DEF t, s
<1>17. (t \o b) \o e # <<>>
  BY <1>9, <1>14, ConcatEqualIffEmpty DEF Sendable
<1>18. FlattenSeq(t) = (((<<frame.command>> \o <<NewLine>>) \o FlattenSeq(f)) \o FlattenSeq(l))
                        \o <<NewLine>>
  BY <1>11, <1>13 DEF t, s
<1> QED
  BY <1>15, <1>16, <1>17, <1>18 DEF Joined, f, l

\* The whole of a well-formed body is written.
LEMMA BodyWhole ==
    ASSUME NEW frame, WellFormed(frame)
    PROVE  BodyWritten(frame) = frame.body
<1>1. /\ frame.body \in Seq(Int) /\ frame.body_length \in Int
      /\ SubSeq(frame.body, 1, Len(frame.body)) = frame.body
  BY FrameParts, SubSeqFull DEF WellFormed
<1>2. CASE frame.body_length < 0
  <2>1. ~HasLength(frame)
    BY <1>1, <1>2 DEF HasLength
  <2> QED
    BY <1>2, <2>1 DEF BodyWritten, UpToZero, WellFormed
<1>3. CASE ~(frame.body_length < 0)
  BY <1>1, <1>3 DEF BodyWritten, WellFormed
<1> QED
  BY <1>2, <1>3

\* A frame is read as it was meant: by the process, and by a broker that leaves out
\* the newline behind it.
LEMMA FrameGoes ==
    ASSUME NEW skips, NEW frame, WellFormed(frame)
    PROVE  /\ Goes(skips, Start, Joined(frame, <<Zero>>), Start, <<FrameMeant(frame)>>)
           /\ skips = TRUE =>
                Goes(skips, Start, Joined(frame, WriterEnd), Start, <<FrameMeant(frame)>>)
<1> DEFINE command == <<frame.command>>
           r == Now("command", command, <<>>, {}, 0, <<>>)
<1>0. frame.command \in Int /\ command \in Seq(Int) /\ <<>> \in Seq(Int) /\ <<>> \o command = command
  BY FrameParts DEF WellFormed
<1>1. Goes(skips, Start, command, r, <<>>)
  <2>1. Plain(command)
    BY DEF Plain, WellFormed
  <2>2. Start = Now("command", <<>>, <<>>, {}, 0, <<>>)
    BY DEF Start, Now
  <2> HIDE DEF command
  <2>3. Goes(skips, Now("command", <<>>, <<>>, {}, 0, <<>>), command,
             Now("command", <<>> \o command, <<>>, {}, 0, <<>>), <<>>)
    BY <1>0, <2>1, TextOfLine
  <2> QED
    BY <1>0, <2>2, <2>3
<1>2. Goes(skips, r, <<NewLine>>, InHeaders(command, {}), <<>>)
  <2>1. r.phase = "command" /\ r.line = command /\ command # <<>>
    BY DEF Now
  <2>2. Receive(r, <<NewLine>>) = ReadLine(r, NewLine)
    BY <2>1, ReceiveByte
  <2>3. ReadLine(r, NewLine) = InHeaders(command, {})
    <3>1. ReadLine(r, NewLine) = [r EXCEPT !.command = command, !.line = <<>>, !.phase = "headers"]
      <4> HIDE DEF r
      <4> QED
        BY <2>1 DEF ReadLine
    <3> HIDE DEF command
    <3> QED
      BY <3>1 DEF InHeaders, Now
  <2>4. ~Skips(r, NewLine)
    BY <2>1 DEF Skips
  <2>5. InHeaders(command, {}).phase \notin {"done", "error"} /\ NewLine \in Int
    BY DEF InHeaders, Now, NewLine
  <2> HIDE DEF r
  <2> QED
    BY <2>2, <2>3, <2>4, <2>5, GoesByte
<1> DEFINE f == FlattenSeq(FirstPieces(frame, Len(frame.headers)))
           l == FlattenSeq(LengthPieces(frame))
           first == InHeaders(command, FirstHeaders(frame, Len(frame.headers)))
           all == InHeaders(command, AllHeaders(frame))
           before == AtBody(frame, command)
           behind == BehindBody(frame, command)
           meant == <<FrameMeant(frame)>>
           none == InHeaders(command, {})
<1>3. Goes(skips, none, f, first, <<>>)
  BY HeadersGo
<1>4. Goes(skips, first, l, all, <<>>)
  BY LengthGoes
<1>5. Goes(skips, all, <<NewLine>>, before, <<>>)
  BY BlankGoes
<1>6. Goes(skips, before, BodyWritten(frame), behind, <<>>)
  BY BodyGoes, BodyWhole
<1>7. Goes(skips, behind, <<Zero>>, Start, meant)
  BY EndGoes
<1>8. Joined(frame, <<Zero>>)
        = (((((command \o <<NewLine>>) \o f) \o l) \o <<NewLine>>) \o BodyWritten(frame)) \o <<Zero>>
  BY DEF Joined
<1> HIDE DEF command, r, f, l, first, all, before, behind, meant, none
<1>9. Goes(skips, Start, command \o <<NewLine>>, none, <<>>)
  BY <1>1, <1>2, GoesAndThen DEF none
<1>10. Goes(skips, Start, (command \o <<NewLine>>) \o f, first, <<>>)
  BY <1>3, <1>9, GoesAndThen
<1>11. Goes(skips, Start, ((command \o <<NewLine>>) \o f) \o l, all, <<>>)
  BY <1>4, <1>10, GoesAndThen
<1>12. Goes(skips, Start, (((command \o <<NewLine>>) \o f) \o l) \o <<NewLine>>, before, <<>>)
  BY <1>5, <1>11, GoesAndThen
<1>13. Goes(skips, Start, ((((command \o <<NewLine>>) \o f) \o l) \o <<NewLine>>) \o BodyWritten(frame),
            behind, <<>>)
  BY <1>6, <1>12, GoesAndThen
<1>14. Goes(skips, Start, (((((command \o <<NewLine>>) \o f) \o l) \o <<NewLine>>) \o BodyWritten(frame))
                            \o <<Zero>>, Start, meant)
  BY <1>7, <1>13, GoesAndThen
<1>15. ASSUME skips = TRUE
       PROVE  Goes(skips, Start, Joined(frame, WriterEnd), Start, meant)
  <2> DEFINE whole == ((((command \o <<NewLine>>) \o f) \o l) \o <<NewLine>>) \o BodyWritten(frame)
             zero == <<Zero>>
             newline == <<NewLine>>
  <2>1. Joined(frame, WriterEnd) = whole \o WriterEnd
    BY DEF Joined, command, f, l
  <2>2. whole \in Seq(Int)
    <3>1. Goes(skips, Start, whole, behind, <<>>)
      BY <1>13
    <3> HIDE DEF whole
    <3> QED
      BY <3>1, GoesOn
  <2>3. zero \in Seq(Int) /\ newline \in Seq(Int) /\ zero \o newline = WriterEnd
    <3>1. ASSUME NEW a \in Int, NEW b \in Int
          PROVE  <<a>> \in Seq(Int) /\ <<a>> \o <<b>> = <<a, b>>
      <4> DEFINE x == <<a>>
                 y == <<b>>
                 z == <<a, b>>
      <4>1. /\ x \in Seq(Int) /\ Len(x) = 1 /\ x[1] = a
            /\ y \in Seq(Int) /\ Len(y) = 1 /\ y[1] = b
        OBVIOUS
      <4>2. z \in Seq(Int) /\ Len(z) = 2 /\ z[1] = a /\ z[2] = b
        OBVIOUS
      <4> HIDE DEF x, y, z
      <4>3. /\ x \o y \in Seq(Int) /\ Len(x \o y) = 2
            /\ \A i \in 1..2 : (x \o y)[i] = IF i <= 1 THEN x[i] ELSE y[i - 1]
        <5>1. /\ x \o y \in Seq(Int) /\ Len(x \o y) = Len(x) + Len(y)
              /\ \A i \in 1 .. Len(x) + Len(y) : (x \o y)[i] =
                     IF i <= Len(x) THEN x[i] ELSE y[i - Len(x)]
          BY <4>1, ConcatProperties
        <5> QED
          BY <4>1, <5>1
      <4>4. \A i \in 1..2 : (x \o y)[i] = z[i]
        <5>1. (x \o y)[1] = a /\ (x \o y)[2] = b
          BY <4>1, <4>3
        <5>2. \A i \in 1..2 : i = 1 \/ i = 2
          OBVIOUS
        <5> QED
          BY <4>2, <5>1, <5>2, Zenon
      <4>5. x \o y = z
        BY <4>2, <4>3, <4>4, SeqEqual
      <4> QED
        BY <4>1, <4>5 DEF x, y, z
    <3>2. Zero \in Int /\ NewLine \in Int
      BY DEF Zero, NewLine
    <3> QED
      BY <3>1, <3>2 DEF WriterEnd
  <2>4. meant \in Seq(Frames) /\ meant \o <<>> = meant
    <3>1. meant \in Seq(Frames)
      BY <1>7, GoesOn
    <3> QED
      BY <3>1, ConcatEmptySeq
  <2>5. Goes(skips, Start, whole \o zero, Start, meant)
    BY <1>14
  <2>6. Goes(skips, Start, newline, Start, <<>>)
    BY <1>15, GoesBetween
  <2> HIDE DEF whole, zero, newline
  <2>7. Goes(skips, Start, (whole \o zero) \o newline, Start, meant \o <<>>)
    BY <2>5, <2>6, GoesThen
  <2>8. Regroups(whole, zero, newline)
    BY <2>2, <2>3, Regroup, Zenon
  <2>9. (whole \o zero) \o newline = whole \o WriterEnd
    BY <2>3, <2>8 DEF Regroups
  <2> QED
    BY <2>1, <2>4, <2>7, <2>9
<1> QED
  BY <1>8, <1>14, <1>15 DEF meant

\* The bytes that are sent of a well-formed frame are read as what was meant, and the
\* reader is then where it began: stomp_read undoes stomp_write.
THEOREM FrameReadAsMeant ==
    ASSUME NEW frame, WellFormed(frame)
    PROVE  /\ Goes(FALSE, Start, FlattenSeq(Pieces(frame, <<Zero>>)), Start,
                   <<FrameMeant(frame)>>)
           /\ Goes(TRUE, Start, FlattenSeq(Pieces(frame, WriterEnd)), Start,
                   <<FrameMeant(frame)>>)
<1>1. frame \in Frame /\ frame.body_length <= Len(frame.body)
  <2>1. frame.body_length \in Int /\ Len(frame.body) \in Nat
    BY FrameParts DEF WellFormed
  <2> QED
    BY <2>1 DEF WellFormed
<1>2. /\ <<Zero>> \in Seq(Int) /\ <<Zero>> # <<>>
      /\ WriterEnd \in Seq(Int) /\ WriterEnd # <<>>
  <2>1. Zero \in Int /\ NewLine \in Int
    BY DEF Zero, NewLine
  <2>2. \A a, b \in Int : <<a>> \in Seq(Int) /\ <<a, b>> \in Seq(Int) /\ <<a>> # <<>> /\ <<a, b>> # <<>>
    OBVIOUS
  <2> QED
    BY <2>1, <2>2 DEF WriterEnd
<1>3. /\ FlattenSeq(Pieces(frame, <<Zero>>)) = Joined(frame, <<Zero>>)
      /\ FlattenSeq(Pieces(frame, WriterEnd)) = Joined(frame, WriterEnd)
  BY <1>1, <1>2, FrameSent
<1> QED
  BY <1>3, FrameGoes

-----------------------------------------------------------------------------
(* Types of the session.                                                   *)

USE StompSessionAssumption

\* A reader at work, or one that has just ended a frame.
ReaderAfter ==
    [phase : Phases, line : Seq(Int), command : Seq(Int),
     headers : SUBSET [key : Seq(Int), value : Seq(Int)], need : Nat, body : Seq(Int)]

\* The first element that passes a test is there, when there is one.
LEMMA ColonIn ==
    ASSUME NEW line \in Seq(Int), Contains(line, Colon)
    PROVE  SelectInSeq(line, LAMBDA b : b = Colon) \in 1..Len(line)
<1> DEFINE I == {i \in 1..Len(line) : line[i] = Colon}
<1>1. I # {} /\ I \in SUBSET Nat
  <2>1. PICK i \in 1..Len(line) : line[i] = Colon
    BY DEF Contains
  <2>2. i \in I
    BY <2>1
  <2>3. I \in SUBSET Nat
    OBVIOUS
  <2> QED
    BY <2>2, <2>3
<1>2. PICK m \in I : \A k \in I : m <= k
  BY <1>1, LeastNat
<1>3. Min(I) = m
  <2>1. \A x, y \in I : x <= y /\ y <= x => x = y
    OBVIOUS
  <2> HIDE DEF I
  <2> QED
    BY <1>2, <2>1 DEF Min
<1>4. SelectInSeq(line, LAMBDA b : b = Colon) = m
  BY <1>1, <1>3 DEF SelectInSeq
<1> QED
  BY <1>2, <1>4

\* A reader stays one.
LEMMA ReceiveTypes ==
    ASSUME NEW r \in Reader, r.phase = "body" => r.need # 0,
           NEW chunk \in Seq(Int), Len(chunk) \in Wanted(r)
    PROVE  LET q == Receive(r, chunk) IN
           /\ q \in ReaderAfter
           /\ q.phase = "body" => q.need # 0
           /\ FrameRead(q) \in Frames
<1> DEFINE q == Receive(r, chunk)
           b == chunk[1]
<1>1. /\ r.phase \in {"command", "headers", "body", "end", "text"}
      /\ r.line \in Seq(Int) /\ r.command \in Seq(Int) /\ r.need \in Nat
      /\ r.headers \in SUBSET [key : Seq(Int), value : Seq(Int)] /\ r.body \in Seq(Int)
      /\ r \in ReaderAfter
  BY DEF Reader, ReaderAfter, Phases
<1>2. chunk # <<>> /\ b \in Int /\ Len(chunk) \in Nat
  <2>1. Len(chunk) \in Nat \ {0}
    <3>1. CASE r.phase = "body"
      <4>1. Len(chunk) \in 1..r.need
        BY <3>1 DEF Wanted
      <4> QED
        BY <1>1, <4>1
    <3>2. CASE r.phase # "body"
      <4>1. Len(chunk) = 1
        BY <3>2 DEF Wanted
      <4> QED
        BY <4>1
    <3> QED
      BY <3>1, <3>2
  <2> QED
    BY <2>1, EmptySeq
<1>3. q \in ReaderAfter /\ (q.phase = "body" => q.need # 0)
  <2>1. CASE r.phase \in {"command", "headers"}
    <3>1. q = ReadLine(r, b)
      BY <2>1 DEF Receive
    <3>2. CASE b \notin {NewLine, Zero}
      <4>1. Append(r.line, b) \in Seq(Int)
        BY <1>1, <1>2
      <4>2. q = [r EXCEPT !.line = Append(r.line, b)]
        BY <3>1, <3>2 DEF ReadLine
      <4> HIDE DEF q, b
      <4> QED
        BY <1>1, <2>1, <4>1, <4>2 DEF ReaderAfter
    <3>3. CASE b \in {NewLine, Zero} /\ r.phase = "command"
      <4>1. q = [r EXCEPT !.command = r.line, !.line = <<>>, !.phase = "headers"]
        BY <3>1, <3>3 DEF ReadLine
      <4>2. <<>> \in Seq(Int)
        OBVIOUS
      <4> HIDE DEF q, b
      <4> QED
        BY <1>1, <4>1, <4>2 DEF ReaderAfter, Phases
    <3>4. CASE b \in {NewLine, Zero} /\ r.phase = "headers" /\ r.line = <<>>
      <4>1. q = EndOfHeaders(r)
        BY <3>1, <3>4 DEF ReadLine
      <4> DEFINE lengths == {h \in r.headers : h.key = <<ContentLength>>}
                 n == Atoi((CHOOSE h \in lengths : TRUE).value)
      <4>2. CASE lengths = {}
        <5>1. q = [r EXCEPT !.phase = "text"]
          BY <4>1, <4>2 DEF EndOfHeaders
        <5> HIDE DEF q, b
        <5> QED
          BY <1>1, <5>1 DEF ReaderAfter, Phases
      <4>3. CASE lengths # {}
        <5>1. (CHOOSE h \in lengths : TRUE) \in [key : Seq(Int), value : Seq(Int)]
          BY <1>1, <4>3
        <5>2. \A text \in Seq(Int) : Atoi(text) \in Nat
          <6> SUFFICES ASSUME NEW text \in Seq(Int) PROVE Atoi(text) \in Nat
            OBVIOUS
          <6>1. text # <<>> => text[1] \in Int
            OBVIOUS
          <6> QED
            BY <6>1 DEF Atoi
        <5>3. n \in Nat
          BY <5>1, <5>2
        <5>4. q = [r EXCEPT !.phase = IF n = 0 THEN "end" ELSE "body", !.need = n]
          BY <4>1, <4>3 DEF EndOfHeaders
        <5> HIDE DEF q, b, n
        <5>5. q \in ReaderAfter
          BY <1>1, <5>3, <5>4 DEF ReaderAfter, Phases
        <5>6. q.phase = (IF n = 0 THEN "end" ELSE "body") /\ q.need = n
          BY <1>1, <5>4 DEF ReaderAfter
        <5> QED
          BY <5>5, <5>6
      <4> QED
        BY <4>2, <4>3
    <3>5. CASE b \in {NewLine, Zero} /\ r.phase = "headers" /\ r.line # <<>>
      <4>1. q = HeaderLine(r)
        BY <3>1, <3>5 DEF ReadLine
      <4> DEFINE c == SelectInSeq(r.line, LAMBDA x : x = Colon)
                 key == SubSeq(r.line, 1, c - 1)
                 value == SubSeq(r.line, c + 1, Len(r.line))
      <4>2. CASE ~Contains(r.line, Colon)
        <5>1. q = [r EXCEPT !.phase = "error"]
          BY <4>1, <4>2 DEF HeaderLine
        <5> HIDE DEF q, b
        <5> QED
          BY <1>1, <5>1 DEF ReaderAfter, Phases
      <4>3. CASE Contains(r.line, Colon)
        <5>1. c \in 1..Len(r.line)
          BY <1>1, <4>3, ColonIn
        <5> HIDE DEF c
        <5>2. key \in Seq(Int) /\ value \in Seq(Int)
          BY <1>1, <5>1
        <5>3. q = [r EXCEPT !.line = <<>>, !.headers = SetHeader(r.headers, key, value)]
          BY <4>1, <4>3 DEF HeaderLine, c
        <5> HIDE DEF q, b, key, value
        <5>4. SetHeader(r.headers, key, value) \in SUBSET [key : Seq(Int), value : Seq(Int)]
          BY <1>1, <5>2 DEF SetHeader
        <5>5. <<>> \in Seq(Int)
          OBVIOUS
        <5> QED
          BY <1>1, <3>5, <5>3, <5>4, <5>5 DEF ReaderAfter
      <4> QED
        BY <4>2, <4>3
    <3> QED
      BY <2>1, <3>2, <3>3, <3>4, <3>5
  <2>2. CASE r.phase = "body"
    <3>1. Len(chunk) \in 1..r.need /\ r.body \o chunk \in Seq(Int)
      BY <1>1, <2>2 DEF Wanted
    <3>2. q = [r EXCEPT !.body = r.body \o chunk, !.need = r.need - Len(chunk),
                        !.phase = IF r.need = Len(chunk) THEN "end" ELSE "body"]
      BY <2>2 DEF Receive, ReadBody
    <3>3. r.need - Len(chunk) \in Nat /\ (r.need # Len(chunk) => r.need - Len(chunk) # 0)
      BY <1>1, <3>1
    <3> HIDE DEF q, b
    <3>4. /\ q.phase = (IF r.need = Len(chunk) THEN "end" ELSE "body")
          /\ q.need = r.need - Len(chunk)
      BY <1>1, <3>2 DEF ReaderAfter
    <3>5. q \in ReaderAfter
      BY <1>1, <3>1, <3>2, <3>3 DEF ReaderAfter, Phases
    <3> QED
      BY <3>3, <3>4, <3>5
  <2>3. CASE r.phase = "end"
    <3>1. q = [r EXCEPT !.phase = IF b = Zero THEN "done" ELSE "error"]
      BY <2>3 DEF Receive, ReadEnd
    <3> HIDE DEF q, b
    <3> QED
      BY <1>1, <3>1 DEF ReaderAfter, Phases
  <2>4. CASE r.phase = "text"
    <3>1. q = IF b = Zero THEN [r EXCEPT !.phase = "done"]
              ELSE [r EXCEPT !.body = Append(r.body, b)]
      BY <2>4 DEF Receive, ReadText
    <3>2. Append(r.body, b) \in Seq(Int)
      BY <1>1, <1>2
    <3> HIDE DEF q, b
    <3> QED
      BY <1>1, <2>4, <3>1, <3>2 DEF ReaderAfter, Phases
  <2> QED
    BY <1>1, <2>1, <2>2, <2>3, <2>4
<1>4. FrameRead(q) \in Frames
  <2> HIDE DEF q
  <2> QED
    BY <1>3 DEF FrameRead, Frames, ReaderAfter
<1> QED
  BY <1>3, <1>4

\* What is left to send begins with the first buffer.
LEMMA FlattenHead ==
    ASSUME NEW s, Sendable(s), s # <<>>
    PROVE  /\ Head(s) \in Seq(Int) /\ Head(s) # <<>> /\ Sendable(Tail(s))
           /\ FlattenSeq(Tail(s)) \in Seq(Int)
           /\ FlattenSeq(s) = Head(s) \o FlattenSeq(Tail(s))
<1>1. s \in Seq(Seq(Int)) /\ \A i \in 1..Len(s) : s[i] # <<>>
  BY DEF Sendable
<1>2. /\ Head(s) \in Seq(Int) /\ Tail(s) \in Seq(Seq(Int)) /\ Head(s) = s[1]
      /\ Len(s) \in Nat \ {0} /\ Len(Tail(s)) = Len(s) - 1
      /\ \A i \in 1..Len(Tail(s)) : Tail(s)[i] = s[i + 1]
  BY <1>1
<1>3. Head(s) # <<>>
  BY <1>1, <1>2
<1>4. Sendable(Tail(s))
  <2>1. ASSUME NEW i \in 1..Len(Tail(s)) PROVE Tail(s)[i] # <<>>
    <3>1. i + 1 \in 1..Len(s)
      BY <1>2
    <3> QED
      BY <1>1, <1>2, <3>1
  <2> QED
    BY <1>2, <2>1 DEF Sendable
<1>5. Sendable(<<Head(s)>>) /\ FlattenSeq(<<Head(s)>>) = Head(s)
  BY <1>2, <1>3, FlattenOne DEF Sendable
<1>6. s = <<Head(s)>> \o Tail(s)
  <2> DEFINE t == <<Head(s)>> \o Tail(s)
  <2>1. t \in Seq(Seq(Int)) /\ Len(t) = Len(s) /\ \A i \in 1..Len(s) : s[i] = t[i]
    BY <1>1, <1>2
  <2> HIDE DEF t
  <2>2. s = t
    BY <1>1, <2>1, SeqEqual
  <2> QED
    BY <2>2 DEF t
<1>7. /\ FlattenSeq(<<Head(s)>> \o Tail(s)) = FlattenSeq(<<Head(s)>>) \o FlattenSeq(Tail(s))
      /\ FlattenSeq(Tail(s)) \in Seq(Int)
  BY <1>4, <1>5, SendableConcat
<1> QED
  BY <1>2, <1>3, <1>4, <1>5, <1>6, <1>7

\* What a send has taken is sent, the rest stays.
LEMMA AdvanceIs ==
    ASSUME NEW s, Sendable(s), s # <<>>, NEW n \in 1..Len(Head(s))
    PROVE  /\ Sendable(Advance(s, n))
           /\ SubSeq(Head(s), 1, n) \in Seq(Int) /\ Len(SubSeq(Head(s), 1, n)) = n
           /\ FlattenSeq(Advance(s, n)) \in Seq(Int)
           /\ FlattenSeq(s) = SubSeq(Head(s), 1, n) \o FlattenSeq(Advance(s, n))
<1> DEFINE h == Head(s)
           t == Tail(s)
<1>1. /\ h \in Seq(Int) /\ Sendable(t) /\ FlattenSeq(t) \in Seq(Int)
      /\ FlattenSeq(s) = h \o FlattenSeq(t)
  BY FlattenHead
<1>2. SubSeq(h, 1, n) \in Seq(Int) /\ Len(SubSeq(h, 1, n)) = n /\ SubSeq(h, 1, Len(h)) = h
  BY <1>1
<1>3. CASE n = Len(h)
  <2>1. Advance(s, n) = t
    BY <1>3 DEF Advance
  <2> HIDE DEF h, t
  <2> QED
    BY <1>1, <1>2, <1>3, <2>1 DEF h
<1>4. CASE n # Len(h)
  <2> DEFINE rest == SubSeq(h, n + 1, Len(h))
  <2>1. n + 1 \in 1..Len(h) /\ n \in 0..Len(h) /\ Len(h) \in Nat
    BY <1>1, <1>4
  <2>2. rest \in Seq(Int) /\ Len(rest) = Len(h) - n
    BY <1>1, <2>1
  <2>3. rest # <<>>
    <3> HIDE DEF rest, h
    <3>1. Len(rest) # 0
      BY <2>1, <2>2, <1>4
    <3> QED
      BY <3>1
  <2>4. SubSeq(h, 1, n) \o rest = h
    <3>1. SubSeq(h, 1, n) \o SubSeq(h, n + 1, Len(h)) = SubSeq(h, 1, Len(h))
      <4> HIDE DEF h
      <4>1. /\ 1 \in 1..(Len(h) + 1) /\ n \in (1 - 1)..Len(h) /\ Len(h) \in n..Len(h)
        BY <2>1
      <4> QED
        BY <1>1, <4>1, ConcatAdjacentSubSeq
    <3> QED
      BY <1>2, <3>1
  <2>5. Advance(s, n) = <<rest>> \o t
    BY <1>4 DEF Advance
  <2> HIDE DEF rest, h, t
  <2>6. Sendable(<<rest>>) /\ FlattenSeq(<<rest>>) = rest
    BY <2>2, <2>3, FlattenOne DEF Sendable
  <2>7. Sendable(<<rest>> \o t) /\ FlattenSeq(<<rest>> \o t) = rest \o FlattenSeq(t)
    BY <1>1, <2>6, SendableConcat
  <2>8. rest \o FlattenSeq(t) \in Seq(Int)
    BY <1>1, <2>2, ConcatProperties
  <2>9. Regroups(SubSeq(h, 1, n), rest, FlattenSeq(t))
    BY <1>1, <1>2, <2>2, Regroup, Zenon
  <2> QED
    BY <1>1, <1>2, <2>4, <2>5, <2>7, <2>8, <2>9 DEF Regroups, h
<1> QED
  BY <1>3, <1>4

\* What the places of the process say: the connection is there from connect to the
\* end, buffers are at hand while it writes, and a body that is read is not complete.
AtHand ==
    /\ pc = "connect" <=> link = "none"
    /\ link = "closed" => pc = "exit"
    /\ Writing => unsent # <<>>
    /\ reader.phase = "body" => reader.need # 0
    /\ broker_reader.phase = "body" => broker_reader.need # 0

TypeInv == TypeOK /\ AtHand

\* The frames of the process are among all.
LEMMA ProgramFrames ==
    ASSUME mode \in Modes
    PROVE  /\ Len(Program) \in Nat
           /\ \A i \in 1..Len(Program) : Program[i] \in AllFrames
<1>1. SendFrames[1] \in AllFrames
  <2>1. 1 \in 1..Len(SendFrames)
    OBVIOUS
  <2> QED
    BY <2>1 DEF AllFrames
<1>2. CASE mode = "message"
  <2>1. Program = <<SendFrames[1]>>
    BY <1>2 DEF Program
  <2>2. Len(Program) = 1 /\ Program[1] = SendFrames[1]
    BY <2>1
  <2> QED
    BY <1>1, <2>2
<1>3. CASE mode = "bomber"
  <2>1. Program = SendFrames
    BY <1>3 DEF Program
  <2> QED
    BY <2>1 DEF AllFrames
<1>4. CASE mode = "subscriber"
  <2>1. Program = <<SubscribeFrame>>
    BY <1>4 DEF Program
  <2>2. Len(Program) = 1 /\ Program[1] = SubscribeFrame
    BY <2>1
  <2> QED
    BY <2>2 DEF AllFrames
<1> QED
  BY <1>2, <1>3, <1>4

LEMMA FramesAre == \A frame \in AllFrames : frame \in Frame
BY DEF AllFrames

\* What is sent of a frame.
LEMMA FrameBytes ==
    ASSUME LengthsFit, NEW frame \in AllFrames,
           NEW end \in {WriterEnd, BrokerEnd}
    PROVE  /\ Sendable(Pieces(frame, end)) /\ Pieces(frame, end) # <<>>
           /\ FlattenSeq(Pieces(frame, end)) \in Seq(Int)
           /\ FlattenSeq(Pieces(frame, end)) = Joined(frame, end)
           /\ FrameMeant(frame) \in Frames
<1>1. frame \in Frame /\ frame.body_length <= Len(frame.body)
  BY FramesAre DEF LengthsFit
<1>2. end \in Seq(Int) /\ end # <<>>
  <2>1. Zero \in Int /\ NewLine \in Int
    BY DEF Zero, NewLine
  <2>2. end \in {<<Zero>>, <<Zero, NewLine>>}
    BY DEF WriterEnd
  <2>3. \A a, b \in Int : <<a>> \in Seq(Int) /\ <<a, b>> \in Seq(Int) /\ <<a>> # <<>> /\ <<a, b>> # <<>>
    OBVIOUS
  <2>4. /\ <<Zero>> \in Seq(Int) /\ <<Zero, NewLine>> \in Seq(Int)
        /\ <<Zero>> # <<>> /\ <<Zero, NewLine>> # <<>>
    BY <2>1, <2>3
  <2> QED
    BY <2>2, <2>4
<1>3. /\ Sendable(Pieces(frame, end)) /\ Pieces(frame, end) # <<>>
      /\ FlattenSeq(Pieces(frame, end)) = Joined(frame, end)
  BY <1>1, <1>2, FrameSent
<1>4. FlattenSeq(Pieces(frame, end)) \in Seq(Int)
  BY <1>3, SendableConcat
<1> QED
  BY <1>1, <1>3, <1>4, MeantTypes

\* The types that TypeOK puts together.
LEMMA TypeParts ==
    ASSUME TypeInv
    PROVE  /\ mode \in Modes /\ pc \in Places /\ done \in 0..Len(Program)
           /\ Sendable(unsent) /\ (unsent # <<>> <=> Writing)
           /\ reader \in Reader /\ broker_reader \in Reader
           /\ reader # Start => Reading
           /\ up \in Seq(Int) /\ down \in Seq(Int) /\ answer \in Seq(Int)
           /\ written_up \in Seq(Frames) /\ read_up \in Seq(Frames)
           /\ written_down \in Seq(Frames) /\ read_down \in Seq(Frames)
BY DEF TypeInv, TypeOK, AtHand, Sendable

\* A reader that starts.
LEMMA StartTypes ==
    Start \in Reader /\ Start.phase # "body"
<1>1. <<>> \in Seq(Int)
  OBVIOUS
<1> QED
  BY <1>1 DEF Start, Reader, Phases

\* The process starts in a state of its type.
LEMMA InitTypes == Init => TypeInv
<1> SUFFICES ASSUME Init PROVE TypeInv
  OBVIOUS
<1>1. Len(Program) \in Nat
  BY ProgramFrames DEF Init
<1>2. <<>> \in Seq(Int) /\ <<>> \in Seq(Seq(Int)) /\ <<>> \in Seq(Frames) /\ Len(<<>>) = 0
  OBVIOUS
<1>3. ~Writing /\ Len(MessageFrames) \in Nat
  BY DEF Init, Writing
<1>4. AtHand
  BY <1>3, StartTypes DEF Init, AtHand
<1>5. /\ up \in Seq(Int) /\ Len(up) <= SocketSize /\ down \in Seq(Int) /\ Len(down) <= SocketSize
      /\ unsent \in Seq(Seq(Int)) /\ \A i \in 1..Len(unsent) : unsent[i] # <<>>
      /\ answer \in Seq(Int)
      /\ {written_up, read_up, written_down, read_down} \subseteq Seq(Frames)
  BY <1>2 DEF Init
<1>6. /\ mode \in Modes /\ pc \in Places /\ done \in 0..Len(Program) /\ (unsent # <<>> => Writing)
      /\ {reader, broker_reader} \subseteq Reader /\ (reader # Start => Reading)
      /\ link \in {"none", "open", "broken", "closed"}
  BY <1>1, StartTypes DEF Init, Places
<1>7. /\ breaks \in 0..MaxBreaks /\ subscribed \in BOOLEAN /\ refused \in BOOLEAN
      /\ offered \in 0..Len(MessageFrames)
  <2>1. MaxBreaks \in Nat
    OBVIOUS
  <2>2. breaks \in 0..MaxBreaks /\ offered \in 0..Len(MessageFrames)
    BY <1>3, <2>1 DEF Init
  <2>3. subscribed \in BOOLEAN /\ refused \in BOOLEAN
    BY DEF Init
  <2> QED
    BY <2>2, <2>3
<1> QED
  BY <1>4, <1>5, <1>6, <1>7 DEF TypeInv, TypeOK

\* The process keeps its types while it connects, begins a frame and waits.
LEMMA TypesBegin ==
    ASSUME LengthsFit, TypeInv, Connect \/ Login \/ NextFrame \/ Select
    PROVE  TypeInv'
<1> USE DEF broker, history
<1>1. ASSUME NEW frame \in AllFrames, Begin(frame)
      PROVE  /\ unsent' \in Seq(Seq(Int)) /\ unsent' # <<>>
             /\ \A i \in 1..Len(unsent') : unsent'[i] # <<>>
             /\ written_up' \in Seq(Frames)
  <2>1. Sendable(Pieces(frame, WriterEnd)) /\ Pieces(frame, WriterEnd) # <<>>
        /\ FrameMeant(frame) \in Frames
    BY FrameBytes
  <2>2. written_up \in Seq(Frames)
    BY TypeParts
  <2> QED
    BY <1>1, <2>1, <2>2 DEF Begin, Sendable
<1>2. CASE Connect
  <2>1. ~Writing /\ ~Writing' /\ ~Reading
    BY <1>2 DEF Connect, Writing, Reading
  <2> QED
    BY <1>2, <2>1 DEF Connect, TypeInv, TypeOK, AtHand, Places, Program
<1>3. CASE Login
  <2>1. ConnectFrame \in AllFrames
    BY DEF AllFrames
  <2>2. Writing' /\ ~Reading
    BY <1>3 DEF Login, Writing, Reading
  <2> QED
    BY <1>1, <1>3, <2>1, <2>2 DEF Login, TypeInv, TypeOK, AtHand, Places, Program
<1>4. CASE NextFrame
  <2>1. ~Writing /\ ~Reading
    BY <1>4 DEF NextFrame, Writing, Reading
  <2>2. CASE done < Len(Program)
    <3>1. done + 1 \in 1..Len(Program)
      BY <2>2, ProgramFrames DEF TypeInv, TypeOK
    <3>2. Program[done + 1] \in AllFrames
      BY <3>1, ProgramFrames DEF TypeInv, TypeOK
    <3>3. Writing' /\ done' \in 0..Len(Program) /\ Program' = Program
      BY <1>4, <2>2, <3>1, ProgramFrames DEF NextFrame, Writing, Program, TypeInv, TypeOK
    <3> QED
      BY <1>1, <1>4, <2>1, <2>2, <3>2, <3>3
      DEF NextFrame, TypeInv, TypeOK, AtHand, Places
  <2>3. CASE ~(done < Len(Program))
    <3>1. ~Writing' /\ pc' \in Places /\ pc' \notin {"connect", "exit"} /\ Program' = Program
      BY <1>4, <2>3 DEF NextFrame, Writing, Places, Program
    <3> QED
      BY <1>4, <2>1, <2>3, <3>1 DEF NextFrame, TypeInv, TypeOK, AtHand
  <2> QED
    BY <2>2, <2>3
<1>5. CASE Select
  <2>1. ~Writing /\ ~Writing' /\ Reading'
    BY <1>5 DEF Select, Writing, Reading
  <2> QED
    BY <1>5, <2>1 DEF Select, TypeInv, TypeOK, AtHand, Places, Program
<1> QED
  BY <1>2, <1>3, <1>4, <1>5

\* So it does while it writes.
LEMMA TypesWrite ==
    ASSUME TypeInv, WriteBuffer \/ WriteBroken
    PROVE  TypeInv'
<1> USE DEF broker, history
<1>0. /\ Sendable(unsent) /\ unsent # <<>> /\ Writing /\ ~Reading /\ Program' = Program
      /\ up \in Seq(Int) /\ Len(up) \in Nat
  <2>1. Writing /\ Program' = Program
    BY DEF WriteBuffer, WriteBroken, Program
  <2>2. Sendable(unsent) /\ unsent # <<>> /\ up \in Seq(Int)
    BY <2>1, TypeParts
  <2>3. ~Reading
    BY <2>1 DEF Writing, Reading
  <2> QED
    BY <2>1, <2>2, <2>3
<1>1. CASE WriteBuffer
  <2>1. PICK n \in 1..Len(Head(unsent)) :
          /\ Len(up) + n <= SocketSize
          /\ up' = up \o SubSeq(Head(unsent), 1, n)
          /\ unsent' = Advance(unsent, n)
    BY <1>1 DEF WriteBuffer
  <2>2. /\ Sendable(unsent') /\ SubSeq(Head(unsent), 1, n) \in Seq(Int)
        /\ Len(SubSeq(Head(unsent), 1, n)) = n
    BY <1>0, <2>1, AdvanceIs
  <2>3. up' \in Seq(Int) /\ Len(up') = Len(up) + n
    BY <1>0, <2>1, <2>2, ConcatProperties
  <2>4. /\ pc' = IF unsent' = <<>> THEN AfterWrite ELSE pc
        /\ UNCHANGED <<mode, done, reader, link, down, breaks, broker, history>> /\ link = "open"
    BY <1>1 DEF WriteBuffer
  <2>5. /\ pc' \in Places /\ (unsent' # <<>> <=> Writing') /\ pc' \notin {"connect", "exit"}
    BY <1>0, <2>4 DEF Writing, AfterWrite, Places
  <2> QED
    BY <1>0, <2>1, <2>2, <2>3, <2>4, <2>5 DEF TypeInv, TypeOK, AtHand, Sendable, Reading
<1>2. CASE WriteBroken
  <2>1. Sendable(Tail(unsent)) /\ Sendable(<<>>)
    BY <1>0, FlattenHead, EmptySeq DEF Sendable
  <2>2. /\ Sendable(unsent') /\ pc' \in Places /\ (unsent' # <<>> <=> Writing')
        /\ pc' # "connect"
    BY <1>0, <1>2, <2>1 DEF WriteBroken, Writing, AfterWrite, Places
  <2>3. UNCHANGED <<mode, done, reader, link, up, down, breaks, broker, history>> /\ link = "broken"
    BY <1>2 DEF WriteBroken
  <2> QED
    BY <1>0, <2>2, <2>3 DEF TypeInv, TypeOK, AtHand, Sendable, Reading
<1> QED
  BY <1>1, <1>2

\* So it does while it reads.
LEMMA TypesRead ==
    ASSUME TypeInv, Read
    PROVE  TypeInv'
<1> USE DEF broker, history
<1>0. /\ down \in Seq(Int) /\ Len(down) \in Nat /\ reader \in Reader
      /\ reader.phase = "body" => reader.need # 0
      /\ Reading /\ ~Writing /\ Program' = Program /\ read_down \in Seq(Frames)
  <2>1. Reading /\ ~Writing /\ Program' = Program
    BY DEF Read, Reading, Writing, Program
  <2>2. down \in Seq(Int) /\ reader \in Reader /\ read_down \in Seq(Frames)
    BY TypeParts
  <2>3. reader.phase = "body" => reader.need # 0
    BY DEF TypeInv, AtHand
  <2> QED
    BY <2>1, <2>2, <2>3
<1>1. PICK n \in Wanted(reader) :
        /\ n <= Len(down)
        /\ down' = SubSeq(down, n + 1, Len(down))
        /\ LET r == Receive(reader, SubSeq(down, 1, n))
           IN /\ reader' = IF r.phase \in {"done", "error"} THEN Start ELSE r
              /\ pc' = CASE r.phase = "done" -> AfterRead
                         [] r.phase = "error" -> "disconnect"
                         [] OTHER -> pc
              /\ read_down' = IF r.phase = "done" THEN Append(read_down, FrameRead(r))
                              ELSE read_down
  BY DEF Read
<1> DEFINE chunk == SubSeq(down, 1, n)
           r == Receive(reader, chunk)
<1>2. n \in 1..Len(down)
  <2>1. n \in Nat \ {0}
    <3>1. reader.need \in Nat
      BY <1>0 DEF Reader
    <3>2. CASE reader.phase = "body"
      <4>1. n \in 1..reader.need
        BY <3>2 DEF Wanted
      <4> QED
        BY <3>1, <4>1
    <3>3. CASE reader.phase # "body"
      BY <3>3 DEF Wanted
    <3> QED
      BY <3>2, <3>3
  <2> QED
    BY <1>0, <1>1, <2>1
<1>3. /\ chunk \in Seq(Int) /\ Len(chunk) = n
      /\ SubSeq(down, n + 1, Len(down)) \in Seq(Int)
      /\ Len(SubSeq(down, n + 1, Len(down))) <= Len(down)
  BY <1>0, <1>2
<1> HIDE DEF chunk
<1>4. r \in ReaderAfter /\ (r.phase = "body" => r.need # 0) /\ FrameRead(r) \in Frames
  BY <1>0, <1>3, ReceiveTypes
<1> HIDE DEF r
<1>5. /\ reader' = IF r.phase \in {"done", "error"} THEN Start ELSE r
      /\ pc' = CASE r.phase = "done" -> AfterRead
                 [] r.phase = "error" -> "disconnect"
                 [] OTHER -> pc
      /\ read_down' = IF r.phase = "done" THEN Append(read_down, FrameRead(r))
                      ELSE read_down
  BY <1>1 DEF r, chunk
<1>6. reader' \in Reader /\ (reader'.phase = "body" => reader'.need # 0)
  BY <1>4, <1>5, StartTypes DEF ReaderAfter, Reader
<1>7. read_down' \in Seq(Frames)
  BY <1>0, <1>4, <1>5
<1>8. /\ pc' \in Places /\ ~Writing' /\ pc' \notin {"connect", "exit"}
      /\ reader' # Start => Reading'
  <2>1. CASE r.phase \in {"done", "error"}
    BY <1>0, <1>5, <2>1 DEF AfterRead, Places, Writing
  <2>2. CASE r.phase \notin {"done", "error"}
    BY <1>0, <1>5, <2>2 DEF Places, Writing, Reading
  <2> QED
    BY <2>1, <2>2
<1>9. UNCHANGED <<mode, done, unsent, link, up, breaks, broker, written_up, read_up, written_down>>
  BY DEF Read
<1>10. down' \in Seq(Int) /\ Len(down') <= SocketSize
  <2>1. Len(down) <= SocketSize /\ SocketSize \in Nat
    BY DEF TypeInv, TypeOK
  <2>2. Len(down') <= Len(down) /\ Len(down') \in Nat /\ down' \in Seq(Int)
    BY <1>1, <1>3
  <2> QED
    BY <1>0, <2>1, <2>2
<1>11. pc # "exit" /\ pc # "connect"
  BY <1>0 DEF Reading
<1> QED
  BY <1>0, <1>6, <1>7, <1>8, <1>9, <1>10, <1>11 DEF TypeInv, TypeOK, AtHand

\* So it does when it gives up or ends.
LEMMA TypesEnd ==
    ASSUME TypeInv, ReadFails \/ Disconnect \/ Close
    PROVE  TypeInv'
<1> USE DEF broker, history
<1>0. <<>> \in Seq(Int) /\ Len(<<>>) = 0 /\ <<>> \in Seq(Frames) /\ Program' = Program
      /\ up \in Seq(Int) /\ SocketSize \in Nat /\ Len(up) \in Nat /\ Len(up) <= SocketSize
  <2>1. Program' = Program
    BY DEF ReadFails, Disconnect, Close, Program
  <2>2. up \in Seq(Int) /\ Len(up) <= SocketSize
    BY DEF TypeInv, TypeOK
  <2> QED
    BY <2>1, <2>2
<1>1. CASE ReadFails
  <2>1. ~Writing /\ ~Writing' /\ pc # "exit" /\ pc # "connect"
    BY <1>1 DEF ReadFails, Writing, Reading
  <2> QED
    BY <1>0, <1>1, <2>1, StartTypes DEF ReadFails, TypeInv, TypeOK, AtHand, Places
<1>2. CASE Disconnect
  <2>1. ~Writing /\ ~Writing' /\ ~Reading
    BY <1>2 DEF Disconnect, Writing, Reading
  <2>2. Len(Program) \in Nat
    BY ProgramFrames DEF TypeInv, TypeOK
  <2>3. AtHand'
    BY <1>2, <2>1, StartTypes DEF Disconnect, TypeInv, AtHand
  <2>4. /\ done' = 0 /\ 0 \in 0..Len(Program) /\ pc' \in Places
    BY <1>2, <2>2 DEF Disconnect, Places
  <2>5. /\ up' \in Seq(Int) /\ Len(up') <= SocketSize /\ down' \in Seq(Int) /\ Len(down') <= SocketSize
        /\ answer' \in Seq(Int)
        /\ {written_up', read_up', written_down', read_down'} \subseteq Seq(Frames)
    BY <1>0, <1>2 DEF Disconnect
  <2>6. /\ {reader', broker_reader'} \subseteq Reader /\ (reader' # Start => Reading')
        /\ link' \in {"none", "open", "broken", "closed"}
    <3>1. reader = Start /\ reader \in Reader
      BY <2>1 DEF TypeInv, TypeOK
    <3> QED
      BY <1>2, <3>1, StartTypes DEF Disconnect
  <2>7. /\ unsent' \in Seq(Seq(Int)) /\ (unsent' # <<>> => Writing')
        /\ \A i \in 1..Len(unsent') : unsent'[i] # <<>>
    BY <1>2, <2>1 DEF Disconnect, TypeInv, TypeOK
  <2>8. /\ mode' \in Modes /\ breaks' \in 0..MaxBreaks
        /\ subscribed' \in BOOLEAN /\ refused' \in BOOLEAN
        /\ offered' \in 0..Len(MessageFrames) /\ done' \in 0..Len(Program')
    BY <1>0, <1>2, <2>4 DEF Disconnect, TypeInv, TypeOK
  <2>9. TypeOK'
    <3> HIDE DEF broker, history
    <3> QED
      BY <2>4, <2>5, <2>6, <2>7, <2>8 DEF TypeOK
  <2> QED
    BY <2>3, <2>9 DEF TypeInv
<1>3. CASE Close
  <2>1. ~Writing /\ ~Writing' /\ ~Reading
    BY <1>3 DEF Close, Writing, Reading
  <2>2. \A n \in 0..Len(up) : SubSeq(up, 1, n) \in Seq(Int) /\ Len(SubSeq(up, 1, n)) <= Len(up)
    BY <1>0
  <2>3. up' \in Seq(Int) /\ Len(up') <= SocketSize
    <3>1. up' = up \/ \E n \in 0..Len(up) : up' = SubSeq(up, 1, n)
      BY <1>3 DEF Close
    <3>2. up' \in Seq(Int) /\ Len(up') <= Len(up)
      <4>1. CASE up' = up
        BY <1>0, <4>1
      <4>2. CASE \E n \in 0..Len(up) : up' = SubSeq(up, 1, n)
        BY <2>2, <4>2
      <4> QED
        BY <3>1, <4>1, <4>2
    <3>3. Len(up') \in Nat
      BY <3>2
    <3> QED
      BY <1>0, <3>2, <3>3
  <2>4. link' \in {"none", "open", "broken", "closed"} /\ link' # "none"
    BY <1>3 DEF Close, TypeInv, TypeOK, AtHand
  <2> QED
    BY <1>0, <1>3, <2>1, <2>3, <2>4 DEF Close, TypeInv, TypeOK, AtHand, Places
<1> QED
  BY <1>1, <1>2, <1>3

\* The broker keeps them too.
LEMMA TypesBroker ==
    ASSUME LengthsFit, TypeInv, BrokerReads \/ BrokerSends
    PROVE  TypeInv'
<1> USE DEF process
<1>0. /\ up \in Seq(Int) /\ broker_reader \in Reader /\ read_up \in Seq(Frames)
      /\ written_down \in Seq(Frames) /\ answer \in Seq(Int)
      /\ broker_reader.phase = "body" => broker_reader.need # 0
  BY TypeParts DEF TypeInv, AtHand
<1>1. Program' = Program /\ UNCHANGED <<Writing, Reading>>
  BY DEF BrokerReads, BrokerSends, Program, Writing, Reading
<1>2. ASSUME NEW frame \in AllFrames
      PROVE  /\ FlattenSeq(Pieces(frame, BrokerEnd)) \in Seq(Int)
             /\ Append(written_down, FrameMeant(frame)) \in Seq(Frames)
  <2>1. FlattenSeq(Pieces(frame, BrokerEnd)) \in Seq(Int) /\ FrameMeant(frame) \in Frames
    BY FrameBytes
  <2> QED
    BY <1>0, <2>1
<1>3. CASE BrokerSends
  <2>1. offered + 1 \in 1..Len(MessageFrames) /\ offered' \in 0..Len(MessageFrames)
    BY <1>3 DEF BrokerSends, TypeInv, TypeOK
  <2>2. MessageFrames[offered + 1] \in AllFrames
    BY <2>1 DEF AllFrames
  <2>3. answer' \in Seq(Int) /\ written_down' \in Seq(Frames)
    BY <1>2, <1>3, <2>2 DEF BrokerSends
  <2> QED
    BY <1>1, <1>3, <2>1, <2>3 DEF BrokerSends, TypeInv, TypeOK, AtHand
<1>4. CASE BrokerReads
  <2> DEFINE r == Receive(broker_reader, <<Head(up)>>)
  <2>1. up # <<>> /\ up' = Tail(up) /\ link \in {"open", "closed"}
        /\ UNCHANGED <<process, down, offered, written_up, read_down>>
    BY <1>4 DEF BrokerReads
  <2>2. Head(up) \in Int /\ <<Head(up)>> \in Seq(Int) /\ Len(<<Head(up)>>) = 1
        /\ Tail(up) \in Seq(Int) /\ Len(Tail(up)) <= Len(up) /\ Len(Tail(up)) \in Nat
        /\ Len(up) \in Nat
    BY <1>0, <2>1
  <2>3. 1 \in Wanted(broker_reader)
    BY <1>0 DEF Wanted, Reader
  <2>4. r \in ReaderAfter /\ (r.phase = "body" => r.need # 0) /\ FrameRead(r) \in Frames
    BY <1>0, <2>2, <2>3, ReceiveTypes
  <2>5. /\ answer' = answer \/ \E frame \in AllFrames : answer' = FlattenSeq(Pieces(frame, BrokerEnd))
        /\ \/ written_down' = written_down
           \/ \E frame \in AllFrames : written_down' = Append(written_down, FrameMeant(frame))
        /\ subscribed' \in BOOLEAN /\ refused' \in BOOLEAN /\ breaks' \in 0..MaxBreaks
    <3>1. ConnectedFrame \in AllFrames /\ ErrorFrame \in AllFrames
      BY DEF AllFrames
    <3>2. subscribed \in BOOLEAN /\ refused \in BOOLEAN /\ breaks \in 0..MaxBreaks
          /\ MaxBreaks \in Nat
      BY DEF TypeInv, TypeOK
    <3>3. breaks < MaxBreaks => breaks + 1 \in 0..MaxBreaks
      BY <3>2
    <3>4. CASE UNCHANGED <<answer, written_down, subscribed, refused, breaks>>
      BY <3>2, <3>4
    <3>5. CASE React(FrameRead(r))
      <4> HIDE DEF r
      <4> QED
        BY <3>1, <3>2, <3>3, <3>5 DEF React
    <3> QED
      BY <1>4, <3>4, <3>5 DEF BrokerReads
  <2>6. answer' \in Seq(Int) /\ written_down' \in Seq(Frames)
    BY <1>0, <1>2, <2>5
  <2> HIDE DEF r
  <2>7. /\ broker_reader' \in {broker_reader, Start} \/ (broker_reader' = r /\ r.phase \notin {"done", "error"})
        /\ read_up' = read_up \/ read_up' = Append(read_up, FrameRead(r))
        /\ link' = link \/ link' = "broken"
    BY <1>4 DEF BrokerReads, r
  <2>8. broker_reader' \in Reader /\ (broker_reader'.phase = "body" => broker_reader'.need # 0)
    BY <1>0, <2>4, <2>7, StartTypes DEF ReaderAfter, Reader
  <2>9. read_up' \in Seq(Frames)
    <3>1. Append(read_up, FrameRead(r)) \in Seq(Frames)
      BY <1>0, <2>4, AppendProperties
    <3> QED
      BY <1>0, <2>7, <3>1
  <2>10. up' \in Seq(Int) /\ Len(up') <= SocketSize
    <3>1. Len(up) <= SocketSize /\ SocketSize \in Nat
      BY DEF TypeInv, TypeOK
    <3> QED
      BY <2>1, <2>2, <3>1
  <2>11. AtHand'
    BY <1>1, <2>1, <2>7, <2>8 DEF TypeInv, AtHand
  <2> QED
    BY <1>1, <2>1, <2>5, <2>6, <2>7, <2>8, <2>9, <2>10, <2>11 DEF TypeInv, TypeOK
<1> QED
  BY <1>3, <1>4

\* And so do its writing and the failures of the connection.
LEMMA TypesLink ==
    ASSUME TypeInv, BrokerWrites \/ BrokerCloses \/ LinkBreaks \/ UNCHANGED vars
    PROVE  TypeInv'
<1> USE DEF process, history
<1>0. /\ down \in Seq(Int) /\ answer \in Seq(Int) /\ <<>> \in Seq(Int) /\ Len(<<>>) = 0
      /\ Len(down) \in Nat /\ Len(down) <= SocketSize /\ SocketSize \in Nat /\ MaxBreaks \in Nat
  BY DEF TypeInv, TypeOK
<1>1. CASE UNCHANGED vars
  BY <1>1 DEF vars, broker, TypeInv, TypeOK, AtHand, Program, Writing, Reading
<1>2. Program' = Program /\ UNCHANGED <<Writing, Reading>>
  BY DEF BrokerWrites, BrokerCloses, LinkBreaks, vars, Program, Writing, Reading
<1>3. CASE BrokerWrites
  <2>1. PICK n \in 1..Len(answer) :
          /\ Len(down) + n <= SocketSize
          /\ down' = down \o SubSeq(answer, 1, n)
          /\ answer' = SubSeq(answer, n + 1, Len(answer))
    BY <1>3 DEF BrokerWrites
  <2>2. SubSeq(answer, 1, n) \in Seq(Int) /\ Len(SubSeq(answer, 1, n)) = n
        /\ SubSeq(answer, n + 1, Len(answer)) \in Seq(Int)
    BY <1>0
  <2>3. down' \in Seq(Int) /\ Len(down') = Len(down) + n
    BY <1>0, <2>1, <2>2, ConcatProperties
  <2> QED
    BY <1>2, <1>3, <2>1, <2>2, <2>3 DEF BrokerWrites, TypeInv, TypeOK, AtHand
<1>4. CASE BrokerCloses
  BY <1>0, <1>2, <1>4 DEF BrokerCloses, TypeInv, TypeOK, AtHand
<1>5. CASE LinkBreaks
  <2>1. PICK n \in 0..Len(down) : down' = SubSeq(down, 1, n)
    BY <1>5 DEF LinkBreaks
  <2>2. down' \in Seq(Int) /\ Len(down') <= SocketSize
    <3>1. SubSeq(down, 1, n) \in Seq(Int) /\ Len(SubSeq(down, 1, n)) = n /\ n \in Nat /\ n <= Len(down)
      BY <1>0
    <3> QED
      BY <1>0, <2>1, <3>1
  <2>3. breaks' \in 0..MaxBreaks
    BY <1>0, <1>5 DEF LinkBreaks, TypeInv, TypeOK
  <2> QED
    BY <1>0, <1>2, <1>5, <2>2, <2>3 DEF LinkBreaks, TypeInv, TypeOK, AtHand
<1> QED
  BY <1>1, <1>3, <1>4, <1>5

LEMMA StepTypes ==
    ASSUME LengthsFit, TypeInv, [Next]_vars
    PROVE  TypeInv'
BY TypesBegin, TypesWrite, TypesRead, TypesEnd, TypesBroker, TypesLink
DEF Next, Process, Broker, Quiet

\* Both ends of a connection keep their types; a reader between two frames has
\* nothing of either, and no empty buffer is waited for.
THEOREM TypeCorrect == ASSUME LengthsFit PROVE Spec => []TypeOK
<1>1. TypeInv => TypeOK
  BY DEF TypeInv
<1> QED
  BY <1>1, InitTypes, StepTypes, PTL DEF Spec

-----------------------------------------------------------------------------
(* One direction of a connection.                                          *)

\* What was written and is not read yet is in the bytes on their way.
Channel(skips, r, bytes, written, read) ==
    \E rest \in Seq(Frames) : written = read \o rest /\ Goes(skips, r, bytes, Start, rest)

\* A new connection.
LEMMA ChannelStarts ==
    ASSUME NEW skips
    PROVE  Channel(skips, Start, <<>>, <<>>, <<>>)
<1>1. <<>> \in Seq(Frames) /\ <<>> = <<>> \o <<>>
  BY EmptySeq
<1> QED
  BY <1>1, GoesNowhere DEF Channel

\* A frame more, behind what is on its way.
LEMMA ChannelWrites ==
    ASSUME NEW skips, NEW r, NEW bytes, NEW written, NEW read \in Seq(Frames),
           Channel(skips, r, bytes, written, read),
           NEW more, NEW frame \in Frames, Goes(skips, Start, more, Start, <<frame>>)
    PROVE  Channel(skips, r, bytes \o more, Append(written, frame), read)
<1>1. PICK rest \in Seq(Frames) : written = read \o rest /\ Goes(skips, r, bytes, Start, rest)
  BY DEF Channel
<1>2. Goes(skips, r, bytes \o more, Start, rest \o <<frame>>)
  BY <1>1, GoesThen
<1>3. <<frame>> \in Seq(Frames) /\ rest \o <<frame>> \in Seq(Frames)
  <2>1. <<frame>> \in Seq(Frames)
    OBVIOUS
  <2> QED
    BY <2>1, ConcatProperties
<1>4. Append(written, frame) = read \o (rest \o <<frame>>)
  <2>1. written \in Seq(Frames)
    BY <1>1, ConcatProperties
  <2>2. Append(written, frame) = written \o <<frame>>
    BY <2>1, AppendIsConcat
  <2>3. Regroups(read, rest, <<frame>>)
    BY <1>3, Regroup, Zenon
  <2> QED
    BY <1>1, <2>2, <2>3 DEF Regroups
<1> QED
  BY <1>2, <1>3, <1>4 DEF Channel

\* The frame that is read next was written next.
LEMMA NextWritten ==
    ASSUME NEW read \in Seq(Frames), NEW rest \in Seq(Frames), rest # <<>>,
           NEW written, written = read \o rest
    PROVE  /\ Len(read) < Len(written) /\ written[Len(read) + 1] = Head(rest)
           /\ Tail(rest) \in Seq(Frames) /\ Head(rest) \in Frames
           /\ written = Append(read, Head(rest)) \o Tail(rest)
<1>1. /\ Head(rest) \in Frames /\ Tail(rest) \in Seq(Frames) /\ Head(rest) = rest[1]
      /\ Len(rest) \in Nat \ {0} /\ Len(read) \in Nat
  BY EmptySeq
<1>2. /\ Len(written) = Len(read) + Len(rest)
      /\ \A i \in 1..(Len(read) + Len(rest)) :
           written[i] = IF i <= Len(read) THEN read[i] ELSE rest[i - Len(read)]
  BY ConcatProperties
<1>3. Len(read) < Len(written) /\ written[Len(read) + 1] = Head(rest)
  BY <1>1, <1>2
<1>4. rest = <<Head(rest)>> \o Tail(rest)
  <2> DEFINE t == <<Head(rest)>> \o Tail(rest)
  <2>1. t \in Seq(Frames) /\ Len(t) = Len(rest) /\ \A i \in 1..Len(rest) : rest[i] = t[i]
    BY <1>1
  <2> HIDE DEF t
  <2>2. rest = t
    BY <2>1, SeqEqual
  <2> QED
    BY <2>2 DEF t
<1>5. <<Head(rest)>> \in Seq(Frames) /\ Append(read, Head(rest)) = read \o <<Head(rest)>>
  BY <1>1, AppendIsConcat
<1>6. Regroups(read, <<Head(rest)>>, Tail(rest))
  BY <1>1, <1>5, Regroup, Zenon
<1> QED
  BY <1>1, <1>3, <1>4, <1>5, <1>6 DEF Regroups

\* What reading can come to: one byte is left out, ends the next frame, or is taken.
Receives(skips, r, b, bytes, written, read) ==
    LET q == Receive(r, <<b>>)
        out == skips /\ Skips(r, b)
    IN \/ out /\ Channel(skips, r, bytes, written, read)
       \/ /\ ~out /\ q.phase = "done"
          /\ Len(read) < Len(written) /\ FrameRead(q) = written[Len(read) + 1]
          /\ Channel(skips, Start, bytes, written, Append(read, FrameRead(q)))
       \/ /\ ~out /\ q.phase \notin {"done", "error"}
          /\ Channel(skips, q, bytes, written, read)

LEMMA ChannelReads ==
    ASSUME NEW skips, NEW r, NEW bytes, bytes # <<>>, NEW written, NEW read \in Seq(Frames),
           Channel(skips, r, bytes, written, read)
    PROVE  Receives(skips, r, Head(bytes), Tail(bytes), written, read)
<1> DEFINE q == Receive(r, <<Head(bytes)>>)
           out == skips /\ Skips(r, Head(bytes))
           left == Tail(bytes)
<1>1. PICK rest \in Seq(Frames) : written = read \o rest /\ Goes(skips, r, bytes, Start, rest)
  BY DEF Channel
<1>2. \/ out /\ Goes(skips, r, left, Start, rest)
      \/ /\ ~out /\ q.phase = "done" /\ rest # <<>>
         /\ Head(rest) = FrameRead(q) /\ Goes(skips, Start, left, Start, Tail(rest))
      \/ /\ ~out /\ q.phase \notin {"done", "error"} /\ Goes(skips, q, left, Start, rest)
  BY <1>1, GoesOn
<1>3. rest # <<>> => /\ Len(read) < Len(written) /\ written[Len(read) + 1] = Head(rest)
                     /\ Tail(rest) \in Seq(Frames)
                     /\ written = Append(read, Head(rest)) \o Tail(rest)
  BY <1>1, NextWritten
<1>4. \/ out /\ Channel(skips, r, left, written, read)
      \/ /\ ~out /\ q.phase = "done"
         /\ Len(read) < Len(written) /\ FrameRead(q) = written[Len(read) + 1]
         /\ Channel(skips, Start, left, written, Append(read, FrameRead(q)))
      \/ /\ ~out /\ q.phase \notin {"done", "error"}
         /\ Channel(skips, q, left, written, read)
  <2> HIDE DEF q, out, left
  <2> QED
    BY <1>1, <1>2, <1>3 DEF Channel
<1> QED
  BY <1>4 DEF Receives

\* A byte that ends nothing is taken.
LEMMA GoesTaken ==
    ASSUME NEW r, NEW bytes, NEW last, NEW frames, Goes(FALSE, r, bytes, last, frames),
           bytes # <<>>, NEW b, b = Head(bytes), NEW q, Receive(r, <<b>>) = q,
           q.phase \notin {"done", "error"}
    PROVE  Goes(FALSE, q, Tail(bytes), last, frames)
BY GoesOn

\* A recv may bring a part of a body at once: so it is read as byte by byte.
LEMMA GoesChunk ==
    ASSUME NEW r \in Reader, r.phase = "body", r.need # 0, NEW bytes, NEW rest,
           Goes(FALSE, r, bytes, Start, rest),
           NEW n \in 1..r.need, n <= Len(bytes)
    PROVE  Goes(FALSE, ReadBody(r, SubSeq(bytes, 1, n)), SubSeq(bytes, n + 1, Len(bytes)),
                Start, rest)
<1> DEFINE first(k) == SubSeq(bytes, 1, k)
           left(k) == SubSeq(bytes, k + 1, Len(bytes))
           q(k) == [r EXCEPT !.body = r.body \o first(k), !.need = r.need - k,
                             !.phase = IF r.need = k THEN "end" ELSE "body"]
           P(k) == Goes(FALSE, q(k), left(k), Start, rest)
           S == {k \in Nat : k <= n => P(k)}
<1>1. /\ bytes \in Seq(Int) /\ Len(bytes) \in Nat /\ r.need \in Nat /\ r.body \in Seq(Int)
      /\ n \in Nat /\ n <= r.need /\ Begins(bytes)
  <2>1. bytes \in Seq(Int)
    BY GoesOn
  <2> QED
    BY <2>1, TextBegins DEF Reader
<1>2. \A k \in 0..Len(bytes) : first(k) \in Seq(Int) /\ Len(first(k)) = k
  BY <1>1
<1>3. P(0)
  <2>1. first(0) = <<>> /\ left(0) = bytes /\ r.body \o <<>> = r.body
    BY <1>1, SubSeqFull DEF Begins
  <2>2. q(0) = r
    <3>1. r = [r EXCEPT !.body = r.body, !.need = r.need, !.phase = "body"]
      BY DEF Reader
    <3>2. r.need - 0 = r.need /\ r.body \o first(0) = r.body
      BY <1>1, <2>1
    <3> HIDE DEF first
    <3> QED
      BY <3>1, <3>2
  <2> HIDE DEF q, left
  <2> QED
    BY <2>1, <2>2
<1>4. ASSUME NEW k \in Nat, k + 1 <= n, P(k) PROVE P(k + 1)
  <2> DEFINE b == bytes[k + 1]
  <2>1. /\ k <= n /\ k \in 0..(Len(bytes) - 1) /\ k + 1 \in 1..Len(bytes)
        /\ k # r.need /\ k \in 0..Len(bytes)
    <3> DEFINE l == Len(bytes)
               need == r.need
    <3>1. k <= n /\ k + 1 <= n /\ n <= need /\ n <= l
      BY <1>1, <1>4
    <3>2. l \in Nat /\ need \in Nat /\ n \in Nat
      BY <1>1
    <3> HIDE DEF l, need
    <3>3. k <= n /\ k \in 0..(l - 1) /\ k + 1 \in 1..l /\ k # need /\ k \in 0..l
      BY <3>1, <3>2
    <3> QED
      BY <3>3 DEF l, need
  <2>2. Goes(FALSE, q(k), left(k), Start, rest)
    BY <1>4
  <2>3. left(k) # <<>> /\ Head(left(k)) = b /\ Tail(left(k)) = left(k + 1)
    <3>1. /\ k + 1 \in 1..Len(bytes) /\ Len(bytes) \in (k + 1)..Len(bytes)
          /\ (k + 1) + 1 = k + 2
      BY <1>1, <2>1
    <3>2. Head(left(k)) = bytes[k + 1] /\ Tail(left(k)) = SubSeq(bytes, (k + 1) + 1, Len(bytes))
      BY <1>1, <3>1, HeadTailOfSubSeq
    <3>3. left(k) # <<>>
      <4>1. Len(left(k)) = Len(bytes) - k
        BY <1>1, <2>1
      <4> HIDE DEF left
      <4>2. Len(left(k)) # Len(<<>>)
        BY <1>1, <2>1, <4>1
      <4> QED
        BY <4>2
    <3> QED
      BY <3>2, <3>3
  <2>4. first(k) \o <<b>> = first(k + 1)
    BY <1>1, <2>1 DEF Begins
  <2>5. Receive(q(k), <<b>>) = q(k + 1) /\ q(k + 1).phase \notin {"done", "error"}
    <3> DEFINE start == first(k)
               more == first(k + 1)
    <3>1. (r.body \o start) \o <<b>> = r.body \o more
      <4>1. Regroups(r.body, start, <<b>>)
        <5>1. <<b>> \in Seq(Int) /\ start \in Seq(Int)
          BY <1>1, <1>2, <2>1
        <5> HIDE DEF start, b
        <5> QED
          BY <1>1, <5>1, Regroup, Zenon
      <4> HIDE DEF start, more
      <4> QED
        BY <2>4, <4>1 DEF Regroups, start, more
    <3>2. q(k).phase = "body" /\ q(k).need = r.need - k /\ q(k).body = r.body \o start
      <4> HIDE DEF first
      <4> QED
        BY <2>1 DEF Reader
    <3>3. Receive(q(k), <<b>>) = ReadBody(q(k), <<b>>)
      <4> HIDE DEF q, b
      <4> QED
        BY <3>2, ReceiveByte
    <3>4. Len(<<b>>) = 1 /\ (r.need - k) - 1 = r.need - (k + 1)
          /\ (r.need - k = 1 <=> r.need = k + 1)
      <4>1. Len(<<b>>) = 1
        OBVIOUS
      <4>2. /\ (r.need - k) - 1 = r.need - (k + 1)
            /\ r.need - k = 1 <=> r.need = k + 1
        <5> DEFINE need == r.need
        <5>1. need \in Int
          BY <1>1
        <5> HIDE DEF need
        <5>2. /\ (need - k) - 1 = need - (k + 1)
              /\ need - k = 1 <=> need = k + 1
          BY <5>1
        <5> QED
          BY <5>2 DEF need
      <4> QED
        BY <4>1, <4>2
    <3> HIDE DEF b, first
    <3>5. ReadBody(q(k), <<b>>) = q(k + 1)
      <4>1. ReadBody(q(k), <<b>>)
              = [q(k) EXCEPT !.body = r.body \o more, !.need = r.need - (k + 1),
                             !.phase = IF r.need = k + 1 THEN "end" ELSE "body"]
        <5> HIDE DEF q
        <5> QED
          BY <3>1, <3>2, <3>4 DEF ReadBody
      <4> QED
        BY <4>1 DEF Reader
    <3>6. q(k + 1).phase \in {"end", "body"}
      BY DEF Reader
    <3> HIDE DEF q
    <3> QED
      BY <3>3, <3>5, <3>6
  <2> HIDE DEF q, left, b
  <2>6. P(k + 1)
    BY <2>2, <2>3, <2>5, GoesTaken
  <2> QED
    BY <2>6
<1>5. P(n)
  <2> HIDE DEF P
  <2>1. \A k \in Nat : k \in S => k + 1 \in S
    BY <1>1, <1>4
  <2>2. 0 \in S
    BY <1>3
  <2> HIDE DEF S
  <2>3. Nat \subseteq S
    BY <2>1, <2>2, SetInduction
  <2> QED
    BY <1>1, <2>3 DEF S
<1>7. Goes(FALSE, q(n), left(n), Start, rest)
  BY <1>5
<1>8. q(n) = ReadBody(r, first(n))
  <2>1. Len(first(n)) = n
    BY <1>1, <1>2
  <2> HIDE DEF first
  <2> QED
    BY <2>1 DEF ReadBody
<1> QED
  BY <1>7, <1>8

\* The first bytes of two sequences, one behind the other.
Divides(a, b, n) ==
    /\ n <= Len(a \o b)
    /\ SubSeq(a \o b, 1, n) = SubSeq(a, 1, n)
    /\ SubSeq(a \o b, n + 1, Len(a \o b)) = SubSeq(a, n + 1, Len(a)) \o b
LEMMA DividesThem ==
    ASSUME NEW a \in Seq(Int), NEW b \in Seq(Int), NEW n \in 1..Len(a)
    PROVE  Divides(a, b, n)
<1> DEFINE s == SubSeq(a, 1, n)
           t == SubSeq(a, n + 1, Len(a))
           v == t \o b
<1>1. /\ Len(a) \in Nat /\ Len(b) \in Nat /\ n \in Nat /\ 1 \in 1..Len(a)
      /\ n \in (1 - 1)..Len(a) /\ Len(a) \in n..Len(a) /\ 1 \in 1..(Len(a) + 1)
  OBVIOUS
<1>2. s \in Seq(Int) /\ Len(s) = n /\ t \in Seq(Int) /\ Len(t) = Len(a) - n
  OBVIOUS
<1>3. SubSeq(a \o b, 1, n) = s
  BY <1>1, SubSeqOfConcat1
<1>4. s \o t = a
  <2>1. SubSeq(a, 1, n) \o SubSeq(a, n + 1, Len(a)) = SubSeq(a, 1, Len(a))
    BY <1>1, ConcatAdjacentSubSeq
  <2>2. SubSeq(a, 1, Len(a)) = a
    BY SubSeqFull
  <2> QED
    BY <2>1, <2>2
<1> HIDE DEF s, t
<1>5. v \in Seq(Int) /\ Len(v) \in Nat
  <2>1. v \in Seq(Int)
    BY <1>2, ConcatProperties
  <2> HIDE DEF v
  <2> QED
    BY <2>1
<1>6. a \o b = s \o v
  <2>1. Regroups(s, t, b)
    BY <1>2, Regroup, Zenon
  <2> QED
    BY <1>4, <2>1 DEF Regroups
<1> HIDE DEF v
<1>7. Len(a \o b) = n + Len(v) /\ Len(a \o b) = Len(a) + Len(b)
  <2>1. Len(s \o v) = Len(s) + Len(v)
    BY <1>2, <1>5, ConcatProperties
  <2> QED
    BY <1>2, <1>6, <2>1, ConcatProperties
<1>8. SubSeq(s \o v, n + 1, n + Len(v)) = v
  <2>1. CASE Len(v) = 0
    <3>1. SubSeq(s \o v, n + 1, n + Len(v)) = <<>>
      BY <1>1, <1>5, <2>1, SubSeqEmpty
    <3>2. v = <<>>
      BY <1>5, <2>1, EmptySeq
    <3> QED
      BY <3>1, <3>2
  <2>2. CASE Len(v) # 0
    <3> DEFINE k == n + 1
               l == n + Len(v)
    <3>1. /\ k \in Len(s) + 1..Len(s) + Len(v) /\ l \in Len(s) + 1..Len(s) + Len(v)
          /\ k - Len(s) = 1 /\ l - Len(s) = Len(v)
      BY <1>1, <1>2, <1>5, <2>2
    <3> HIDE DEF k, l
    <3>4. SubSeq(s \o v, k, l) = SubSeq(v, k - Len(s), l - Len(s))
      <4>1. s \in Seq(Int) /\ v \in Seq(Int)
        BY <1>2, <1>5
      <4> QED
        BY <4>1, <3>1, SubSeqOfConcat2
    <3>2. SubSeq(s \o v, n + 1, n + Len(v)) = SubSeq(v, 1, Len(v))
      BY <3>1, <3>4 DEF k, l
    <3>3. SubSeq(v, 1, Len(v)) = v
      BY <1>5, SubSeqFull
    <3> QED
      BY <3>2, <3>3
  <2> QED
    BY <2>1, <2>2
<1>9. n <= Len(a \o b)
  BY <1>1, <1>5, <1>7
<1>10. SubSeq(a \o b, n + 1, Len(a \o b)) = v
  BY <1>6, <1>7, <1>8, Zenon
<1> QED
  BY <1>3, <1>9, <1>10 DEF Divides, s, t, v

\* What stomp_read can come to with what a recv brought.
Takes(r, chunk, bytes, written, read) ==
    LET q == Receive(r, chunk)
    IN \/ /\ q.phase = "done"
          /\ Len(read) < Len(written) /\ FrameRead(q) = written[Len(read) + 1]
          /\ Channel(FALSE, Start, bytes, written, Append(read, FrameRead(q)))
       \/ /\ q.phase \notin {"done", "error"}
          /\ Channel(FALSE, q, bytes, written, read)

LEMMA ChannelTakes ==
    ASSUME NEW r \in Reader, r.phase = "body" => r.need # 0,
           NEW bytes \in Seq(Int), NEW more \in Seq(Int),
           NEW n \in Wanted(r), n <= Len(bytes),
           NEW written, NEW read \in Seq(Frames),
           Channel(FALSE, r, bytes \o more, written, read)
    PROVE  Takes(r, SubSeq(bytes, 1, n), SubSeq(bytes, n + 1, Len(bytes)) \o more,
                 written, read)
<1>0. r.need \in Nat /\ r.phase \in {"command", "headers", "body", "end", "text"}
  BY DEF Reader, Phases
<1>1. CASE r.phase = "body"
  <2>1. n \in 1..r.need /\ n \in 1..Len(bytes)
    BY <1>0, <1>1 DEF Wanted
  <2> DEFINE all == bytes \o more
             chunk == SubSeq(bytes, 1, n)
             left == SubSeq(bytes, n + 1, Len(bytes)) \o more
             q == ReadBody(r, chunk)
  <2>2. /\ n <= Len(all) /\ SubSeq(all, 1, n) = chunk
        /\ SubSeq(all, n + 1, Len(all)) = left
    BY <2>1, DividesThem DEF Divides
  <2>3. PICK rest \in Seq(Frames) : written = read \o rest /\ Goes(FALSE, r, all, Start, rest)
    BY DEF Channel
  <2>4. Goes(FALSE, ReadBody(r, SubSeq(all, 1, n)), SubSeq(all, n + 1, Len(all)), Start, rest)
    <3> HIDE DEF all
    <3> QED
      BY <1>1, <2>1, <2>2, <2>3, GoesChunk
  <2> HIDE DEF all, chunk, left
  <2>5. q.phase \in {"end", "body"}
    BY DEF ReadBody, Reader
  <2>6. Receive(r, chunk) = q
    BY <1>1 DEF Receive
  <2> HIDE DEF q
  <2>7. Channel(FALSE, q, left, written, read)
    BY <2>2, <2>3, <2>4 DEF Channel, q
  <2>8. Takes(r, chunk, left, written, read)
    BY <2>5, <2>6, <2>7 DEF Takes
  <2> QED
    BY <2>8 DEF chunk, left
<1>2. CASE r.phase # "body"
  <2>1. n = 1
    BY <1>2 DEF Wanted
  <2> DEFINE all == bytes \o more
             b == Head(bytes)
             left == Tail(bytes) \o more
  <2>2. bytes # <<>> /\ SubSeq(bytes, 1, n) = <<b>>
        /\ SubSeq(bytes, n + 1, Len(bytes)) = Tail(bytes)
    <3>1. bytes # <<>> /\ Len(bytes) \in Nat
      BY <2>1
    <3>2. SubSeq(bytes, 1, 1) = <<Head(bytes)>>
      <4>1. 1 \in 1..Len(bytes) /\ bytes[1] \in Int
        BY <2>1, <3>1
      <4>2. SubSeq(bytes, 1, 1) = <<bytes[1]>>
        <5>1. SubSeq(bytes, 1, 1) = <<bytes[1]>> \o SubSeq(bytes, 1 + 1, 1)
          <6>1. 1 \in 1..Len(bytes)
            BY <4>1
          <6> QED
            BY <6>1, SubSeqRecursiveFirst
        <5>2. SubSeq(bytes, 1 + 1, 1) = <<>>
          BY SubSeqEmpty
        <5>3. <<bytes[1]>> \o <<>> = <<bytes[1]>>
          BY <4>1, ConcatEmptySeq
        <5> QED
          BY <5>1, <5>2, <5>3
      <4>3. Head(bytes) = bytes[1]
        BY <3>1
      <4> QED
        BY <4>2, <4>3
    <3>3. Tail(bytes) = SubSeq(bytes, 2, Len(bytes))
      BY <3>1, TailIsSubSeq
    <3>4. n + 1 = 2
      BY <2>1
    <3> QED
      BY <2>1, <3>1, <3>2, <3>3, <3>4, Zenon
  <2>3. all # <<>> /\ Head(all) = b /\ Tail(all) = left
    <3>1. Continues(bytes, more)
      BY <2>2, HeadTailConcat, Zenon
    <3> QED
      BY <3>1 DEF Continues
  <2>4. Receives(FALSE, r, Head(all), Tail(all), written, read)
    <3> HIDE DEF all
    <3> QED
      BY <2>3, ChannelReads DEF all
  <2> HIDE DEF all, b, left
  <2>5. Takes(r, <<b>>, left, written, read)
    BY <2>3, <2>4 DEF Receives, Takes
  <2> QED
    BY <2>2, <2>5 DEF left
<1> QED
  BY <1>1, <1>2

LEMMA FramesFit == AllWellFormed => LengthsFit
<1> SUFFICES ASSUME AllWellFormed, NEW frame \in AllFrames
             PROVE  frame.body_length <= Len(frame.body)
  BY DEF LengthsFit
<1>1. WellFormed(frame)
  BY DEF AllWellFormed
<1>2. frame.body_length \in Int /\ Len(frame.body) \in Nat
  BY <1>1, FrameParts DEF WellFormed
<1> QED
  BY <1>1, <1>2 DEF WellFormed

\* The bytes of a frame are read as that frame.
LEMMA FrameArrives ==
    ASSUME AllWellFormed, NEW frame \in AllFrames
    PROVE  /\ FrameMeant(frame) \in Frames
           /\ Goes(TRUE, Start, FlattenSeq(Pieces(frame, WriterEnd)), Start, <<FrameMeant(frame)>>)
           /\ BrokerEnd = <<Zero>> =>
                Goes(FALSE, Start, FlattenSeq(Pieces(frame, BrokerEnd)), Start,
                     <<FrameMeant(frame)>>)
<1>1. WellFormed(frame) /\ LengthsFit
  BY FramesFit DEF AllWellFormed
<1>2. /\ FlattenSeq(Pieces(frame, WriterEnd)) = Joined(frame, WriterEnd)
      /\ FlattenSeq(Pieces(frame, BrokerEnd)) = Joined(frame, BrokerEnd)
      /\ FrameMeant(frame) \in Frames
  BY <1>1, FrameBytes
<1> QED
  BY <1>1, <1>2, FrameGoes

\* The bytes that are on their way to the broker are the frames it has yet to read.
\* When the process has ended, the rest of them may never come.
UpHolds ==
    /\ link \in {"none", "open"} =>
         Channel(TRUE, broker_reader, up \o FlattenSeq(unsent), written_up, read_up)
    /\ link = "closed" =>
         \E rest \in Seq(Int) : Channel(TRUE, broker_reader, up \o rest, written_up, read_up)

LEMMA UpStarts == Init => UpHolds
<1>1. <<>> \o FlattenSeq(<<>>) = <<>>
  BY FlattenNone
<1> QED
  BY <1>1, ChannelStarts DEF Init, UpHolds

\* A frame is written when it is put behind the others.
LEMMA FrameWritten ==
    ASSUME NEW written \in Seq(Frames), NEW frame \in Frames
    PROVE  LET longer == Append(written, frame)
           IN Len(longer) = Len(written) + 1 /\ SubSeq(longer, 1, Len(written)) = written
<1> DEFINE longer == Append(written, frame)
<1>1. longer \in Seq(Frames) /\ Len(longer) = Len(written) + 1 /\ Len(written) \in Nat
      /\ \A i \in 1..Len(written) : longer[i] = written[i]
  BY AppendProperties
<1> HIDE DEF longer
<1>2. SubSeq(longer, 1, Len(written)) = written
  <2> DEFINE t == SubSeq(longer, 1, Len(written))
  <2>1. t \in Seq(Frames) /\ Len(t) = Len(written) /\ \A i \in 1..Len(written) : t[i] = written[i]
    BY <1>1
  <2> HIDE DEF t
  <2>2. t = written
    BY <2>1, SeqEqual
  <2> QED
    BY <2>2 DEF t
<1> QED
  BY <1>1, <1>2 DEF longer

\* The process begins a frame.
LEMMA UpBegins ==
    ASSUME AllWellFormed, TypeInv, UpHolds, NEW frame \in AllFrames, Begin(frame),
           unsent = <<>>, link # "closed",
           UNCHANGED <<link, up, broker_reader, read_up>>
    PROVE  UpHolds' /\ UpChannel!Write
<1>1. up \in Seq(Int) /\ written_up \in Seq(Frames) /\ read_up \in Seq(Frames)
  BY TypeParts
<1>2. FrameMeant(frame) \in Frames
      /\ Goes(TRUE, Start, FlattenSeq(Pieces(frame, WriterEnd)), Start, <<FrameMeant(frame)>>)
  BY FrameArrives
<1>3. unsent' = Pieces(frame, WriterEnd) /\ written_up' = Append(written_up, FrameMeant(frame))
  BY DEF Begin
<1>4. up \o FlattenSeq(unsent) = up
  BY <1>1, FlattenNone, ConcatEmptySeq
<1>5. UpHolds'
  <2>1. CASE link \in {"none", "open"}
    <3>1. Channel(TRUE, broker_reader, up, written_up, read_up)
      BY <1>4, <2>1 DEF UpHolds
    <3>2. Channel(TRUE, broker_reader, up \o FlattenSeq(unsent'), written_up', read_up)
      BY <1>1, <1>2, <1>3, <3>1, ChannelWrites
    <3> QED
      BY <2>1, <3>2 DEF UpHolds
  <2>2. CASE link \notin {"none", "open"}
    BY <2>2 DEF UpHolds
  <2> QED
    BY <2>1, <2>2
<1>6. UpChannel!Write
  BY <1>1, <1>2, <1>3, FrameWritten DEF UpChannel!Write
<1> QED
  BY <1>5, <1>6

\* The process writes, and ends.
LEMMA UpWrites ==
    ASSUME AllWellFormed, TypeInv, UpHolds,
           Login \/ NextFrame \/ WriteBuffer \/ WriteBroken
    PROVE  UpHolds' /\ (UpChannel!Write \/ UNCHANGED <<written_up, read_up>>)
<1> USE DEF broker, history
<1>0. /\ up \in Seq(Int) /\ Sendable(unsent) /\ (unsent # <<>> <=> Writing) /\ mode \in Modes
      /\ done \in 0..Len(Program)
  BY TypeParts
<1>1. CASE Login
  <2>1. unsent = <<>> /\ link # "closed"
    BY <1>0, <1>1 DEF Login, Writing, TypeInv, AtHand
  <2>2. ConnectFrame \in AllFrames /\ Begin(ConnectFrame)
        /\ UNCHANGED <<link, up, broker_reader, read_up>>
    BY <1>1 DEF AllFrames, Login
  <2> QED
    BY <2>1, <2>2, UpBegins
<1>2. CASE NextFrame
  <2>1. unsent = <<>> /\ link # "closed" /\ UNCHANGED <<link, up, broker_reader, read_up>>
    BY <1>0, <1>2 DEF NextFrame, Writing, TypeInv, AtHand
  <2>2. CASE done < Len(Program)
    <3>1. done + 1 \in 1..Len(Program)
      BY <1>0, <2>2, ProgramFrames
    <3>2. Program[done + 1] \in AllFrames /\ Begin(Program[done + 1])
      BY <1>0, <1>2, <2>2, <3>1, ProgramFrames DEF NextFrame
    <3> QED
      BY <2>1, <3>2, UpBegins
  <2>3. CASE ~(done < Len(Program))
    <3>1. UNCHANGED <<unsent, link, up, broker_reader, written_up, read_up>>
      BY <1>2, <2>3 DEF NextFrame
    <3> QED
      BY <3>1 DEF UpHolds
  <2> QED
    BY <2>2, <2>3
<1>3. CASE WriteBuffer
  <2>1. PICK n \in 1..Len(Head(unsent)) :
          /\ up' = up \o SubSeq(Head(unsent), 1, n)
          /\ unsent' = Advance(unsent, n)
    BY <1>3 DEF WriteBuffer
  <2>2. unsent # <<>> /\ link = "open" /\ UNCHANGED <<link, broker_reader, written_up, read_up>>
    BY <1>0, <1>3 DEF WriteBuffer
  <2> DEFINE part == SubSeq(Head(unsent), 1, n)
             left == FlattenSeq(Advance(unsent, n))
  <2>3. part \in Seq(Int) /\ left \in Seq(Int) /\ FlattenSeq(unsent) = part \o left
    BY <1>0, <2>2, AdvanceIs
  <2>4. up' = up \o part /\ FlattenSeq(unsent') = left
    BY <2>1
  <2> HIDE DEF part, left
  <2>5. Regroups(up, part, left)
    BY <1>0, <2>3, Regroup, Zenon
  <2>6. up' \o FlattenSeq(unsent') = up \o FlattenSeq(unsent)
    BY <2>3, <2>4, <2>5 DEF Regroups
  <2> QED
    BY <2>2, <2>6 DEF UpHolds
<1>4. CASE WriteBroken
  BY <1>4 DEF WriteBroken, UpHolds
<1> QED
  BY <1>1, <1>2, <1>3, <1>4

LEMMA UpEnds ==
    ASSUME TypeInv, UpHolds, Disconnect \/ Close
    PROVE  UpHolds' /\ (UpChannel!Open \/ UNCHANGED <<written_up, read_up>>)
<1> USE DEF broker, history
<1>0. /\ up \in Seq(Int) /\ unsent = <<>>
  BY TypeParts DEF Disconnect, Close, Writing
<1>1. CASE Disconnect
  <2>1. up' \o FlattenSeq(unsent') = <<>> /\ link' = "none"
    <3>1. up' = <<>> /\ unsent' = <<>> /\ link' = "none"
      BY <1>0, <1>1 DEF Disconnect
    <3> QED
      BY <3>1, FlattenNone
  <2>2. broker_reader' = Start /\ written_up' = <<>> /\ read_up' = <<>>
    BY <1>1 DEF Disconnect
  <2>3. UpHolds'
    BY <2>1, <2>2, ChannelStarts DEF UpHolds
  <2> QED
    BY <2>2, <2>3 DEF UpChannel!Open
<1>2. CASE Close
  <2>1. UNCHANGED <<broker_reader, written_up, read_up>>
    BY <1>2 DEF Close
  <2>2. link' \in {"closed", "broken"} /\ (link' = "closed" => link = "open")
    BY <1>2 DEF Close, TypeInv, TypeOK, AtHand
  <2>3. \E rest \in Seq(Int) : up = up' \o rest
    <3>1. CASE up' = up
      BY <1>0, <3>1, ConcatEmptySeq, EmptySeq
    <3>2. CASE \E n \in 0..Len(up) : up' = SubSeq(up, 1, n)
      <4>1. PICK n \in 0..Len(up) : up' = SubSeq(up, 1, n)
        BY <3>2
      <4>2. Len(up) \in Nat /\ 1 \in 1..(Len(up) + 1) /\ n \in (1 - 1)..Len(up) /\ Len(up) \in n..Len(up)
        BY <1>0
      <4>3. SubSeq(up, 1, n) \o SubSeq(up, n + 1, Len(up)) = SubSeq(up, 1, Len(up))
        BY <1>0, <4>2, ConcatAdjacentSubSeq
      <4>4. SubSeq(up, 1, Len(up)) = up /\ SubSeq(up, n + 1, Len(up)) \in Seq(Int)
        BY <1>0, <4>2, SubSeqFull
      <4> QED
        BY <4>1, <4>3, <4>4
    <3> QED
      BY <1>2, <3>1, <3>2 DEF Close
  <2>4. up \o FlattenSeq(unsent) = up
    BY <1>0, FlattenNone, ConcatEmptySeq
  <2>5. UpHolds'
    BY <2>1, <2>2, <2>3, <2>4 DEF UpHolds
  <2> QED
    BY <2>1, <2>5
<1> QED
  BY <1>1, <1>2

\* The broker reads a byte.
LEMMA UpReads ==
    ASSUME TypeInv, UpHolds, BrokerReads
    PROVE  UpHolds' /\ (UpChannel!Read \/ UNCHANGED <<written_up, read_up>>)
<1> DEFINE r == Receive(broker_reader, <<Head(up)>>)
           b == Head(up)
           more == Tail(up)
<1>0. /\ up \in Seq(Int) /\ up # <<>> /\ Sendable(unsent) /\ read_up \in Seq(Frames)
      /\ up' = more /\ link \in {"open", "closed"}
      /\ UNCHANGED <<unsent, written_up>>
  BY TypeParts DEF BrokerReads, process
<1>1. FlattenSeq(unsent) \in Seq(Int)
  BY <1>0, SendableConcat
<1>2. PICK rest \in Seq(Int) :
        /\ Channel(TRUE, broker_reader, up \o rest, written_up, read_up)
        /\ link = "open" => rest = FlattenSeq(unsent)
  <2>1. CASE link = "open"
    BY <1>1, <2>1 DEF UpHolds
  <2>2. CASE link = "closed"
    BY <2>2 DEF UpHolds
  <2> QED
    BY <1>0, <2>1, <2>2
<1>3. Continues(up, rest)
  BY <1>0, HeadTailConcat, Zenon
<1>4. Receives(TRUE, broker_reader, Head(up \o rest), Tail(up \o rest), written_up, read_up)
  <2> DEFINE all == up \o rest
  <2>1. all # <<>> /\ Channel(TRUE, broker_reader, all, written_up, read_up)
    BY <1>2, <1>3 DEF Continues
  <2> HIDE DEF all
  <2>2. Receives(TRUE, broker_reader, Head(all), Tail(all), written_up, read_up)
    BY <1>0, <2>1, ChannelReads
  <2> QED
    BY <2>2 DEF all
<1>5. Receives(TRUE, broker_reader, b, more \o rest, written_up, read_up)
  BY <1>3, <1>4 DEF Continues
<1>6. IF Skips(broker_reader, b)
      THEN UNCHANGED <<broker_reader, read_up, link>>
      ELSE IF r.phase = "done"
      THEN broker_reader' = Start /\ read_up' = Append(read_up, FrameRead(r)) /\ UNCHANGED link
      ELSE /\ broker_reader' = IF r.phase = "error" THEN Start ELSE r
           /\ link' = IF r.phase = "error" THEN "broken" ELSE link
           /\ UNCHANGED read_up
  BY DEF BrokerReads
<1>7. /\ Channel(TRUE, broker_reader', more \o rest, written_up, read_up') /\ link' = link
      /\ \/ UNCHANGED read_up
         \/ /\ Len(read_up) < Len(written_up)
            /\ read_up' = Append(read_up, written_up[Len(read_up) + 1])
  <2>1. r = Receive(broker_reader, <<b>>)
    OBVIOUS
  <2> DEFINE left == more \o rest
             f == FrameRead(r)
  <2> HIDE DEF r, b, left, f
  <2>2. \/ /\ Skips(broker_reader, b)
           /\ Channel(TRUE, broker_reader, left, written_up, read_up)
        \/ /\ ~Skips(broker_reader, b) /\ r.phase = "done"
           /\ Len(read_up) < Len(written_up) /\ f = written_up[Len(read_up) + 1]
           /\ Channel(TRUE, Start, left, written_up, Append(read_up, f))
        \/ /\ ~Skips(broker_reader, b) /\ r.phase \notin {"done", "error"}
           /\ Channel(TRUE, r, left, written_up, read_up)
    <3>1. Receives(TRUE, broker_reader, b, left, written_up, read_up)
      BY <1>5 DEF left
    <3> QED
      BY <2>1, <3>1 DEF Receives, f
  <2>3. CASE Skips(broker_reader, b)
    <3>1. broker_reader' = broker_reader /\ read_up' = read_up /\ link' = link
      BY <1>6, <2>3
    <3>2. Channel(TRUE, broker_reader, left, written_up, read_up)
      BY <2>2, <2>3
    <3>3. Channel(TRUE, broker_reader', left, written_up, read_up')
      BY <3>1, <3>2, Zenon
    <3> QED
      BY <3>1, <3>3 DEF left
  <2>4. CASE ~Skips(broker_reader, b) /\ r.phase = "done"
    <3>1. broker_reader' = Start /\ read_up' = Append(read_up, f) /\ UNCHANGED link
      BY <1>6, <2>4 DEF f
    <3> QED
      BY <2>2, <2>4, <3>1 DEF left
  <2>5. CASE ~Skips(broker_reader, b) /\ r.phase # "done"
    <3>1. r.phase # "error"
      BY <2>2, <2>5
    <3>2. broker_reader' = r /\ read_up' = read_up /\ link' = link
      BY <1>6, <2>5, <3>1
    <3>3. Channel(TRUE, r, left, written_up, read_up)
      BY <2>2, <2>5
    <3>4. Channel(TRUE, broker_reader', left, written_up, read_up')
      BY <3>2, <3>3, Zenon
    <3> QED
      BY <3>2, <3>4 DEF left
  <2> QED
    BY <2>3, <2>4, <2>5
<1>8. UpHolds'
  <2>1. up' \o rest = more \o rest
    BY <1>0
  <2> HIDE DEF more
  <2> QED
    BY <1>0, <1>2, <1>7, <2>1 DEF UpHolds
<1>9. UpChannel!Read \/ UNCHANGED <<written_up, read_up>>
  BY <1>0, <1>7 DEF UpChannel!Read
<1> QED
  BY <1>8, <1>9

\* What disturbs nothing of this direction.
LEMMA UpElse ==
    ASSUME TypeInv, UpHolds,
           \/ Connect \/ Select \/ Read \/ ReadFails
           \/ BrokerSends \/ BrokerWrites \/ BrokerCloses \/ LinkBreaks \/ UNCHANGED vars
    PROVE  UpHolds' /\ UNCHANGED <<written_up, read_up>>
<1>1. CASE Connect
  BY <1>1 DEF Connect, UpHolds, TypeInv, AtHand, broker, history
<1>2. CASE BrokerCloses \/ LinkBreaks
  BY <1>2 DEF BrokerCloses, LinkBreaks, UpHolds, history
<1>3. CASE Select \/ Read \/ ReadFails \/ BrokerSends \/ BrokerWrites \/ UNCHANGED vars
  BY <1>3 DEF Select, Read, ReadFails, BrokerSends, BrokerWrites, UpHolds, vars, process, broker,
              history
<1> QED
  BY <1>1, <1>2, <1>3

LEMMA UpStep ==
    ASSUME AllWellFormed, TypeInv, UpHolds, [Next]_vars
    PROVE  UpHolds' /\ [UpChannel!Next]_<<written_up, read_up>>
<1>1. CASE Login \/ NextFrame \/ WriteBuffer \/ WriteBroken
  BY <1>1, UpWrites DEF UpChannel!Next
<1>2. CASE Disconnect \/ Close
  BY <1>2, UpEnds DEF UpChannel!Next
<1>3. CASE BrokerReads
  BY <1>3, UpReads DEF UpChannel!Next
<1>4. CASE \/ Connect \/ Select \/ Read \/ ReadFails
           \/ BrokerSends \/ BrokerWrites \/ BrokerCloses \/ LinkBreaks \/ UNCHANGED vars
  BY <1>4, UpElse
<1> QED
  BY <1>1, <1>2, <1>3, <1>4 DEF Next, Process, Broker, Quiet

\* What the broker reads are the frames of the process, whole and in their order,
\* however the bytes are cut and wherever the connection breaks.
THEOREM UpIsChannel == ASSUME AllWellFormed PROVE Spec => UpIsAChannel
<1>1. LengthsFit
  BY FramesFit
<1>2. Init => UpChannel!Init
  BY DEF Init, UpChannel!Init
<1>3. TypeInv /\ UpHolds /\ [Next]_vars => UpHolds' /\ [UpChannel!Next]_<<written_up, read_up>>
  BY UpStep
<1>4. TypeInv /\ [Next]_vars => TypeInv'
  BY <1>1, StepTypes
<1> QED
  BY <1>2, <1>3, <1>4, InitTypes, UpStarts, PTL DEF Spec, UpIsAChannel, UpChannel!Spec

\* The login is the first frame of a connection, and the broker writes nothing before
\* it has read it.
LoginFirst ==
    /\ read_up = <<>> => answer = <<>> /\ ~subscribed
    /\ \A i \in 1..Len(written_up) : written_up[i].command = <<ConnectFrame.command>> => i = 1
    /\ pc \in {"connect", "login"} => written_up = <<>>

LEMMA LoginStarts == Init => LoginFirst
BY EmptySeq DEF Init, LoginFirst

LEMMA ProgramLogsIn ==
    ASSUME OneLogin, mode \in Modes, NEW i \in 1..Len(Program)
    PROVE  Program[i].command # ConnectFrame.command
<1>1. 1 \in 1..Len(SendFrames)
  OBVIOUS
<1>2. CASE mode = "message"
  <2>1. Program = <<SendFrames[1]>>
    BY <1>2 DEF Program
  <2>2. Len(Program) = 1 /\ Program[1] = SendFrames[1]
    BY <2>1
  <2> QED
    BY <1>1, <2>2 DEF OneLogin
<1>3. CASE mode = "bomber"
  <2>1. Program = SendFrames
    BY <1>3 DEF Program
  <2> QED
    BY <2>1 DEF OneLogin
<1>4. CASE mode = "subscriber"
  <2>1. Program = <<SubscribeFrame>>
    BY <1>4 DEF Program
  <2>2. Len(Program) = 1 /\ Program[1] = SubscribeFrame
    BY <2>1
  <2> QED
    BY <2>2 DEF OneLogin
<1> QED
  BY <1>2, <1>3, <1>4

\* Frames that the process begins keep it.
LEMMA LoginBegins ==
    ASSUME AllWellFormed, OneLogin, TypeInv, LoginFirst, Login \/ NextFrame
    PROVE  LoginFirst'
<1> USE DEF broker
<1>0. /\ written_up \in Seq(Frames) /\ mode \in Modes /\ done \in 0..Len(Program)
      /\ UNCHANGED <<read_up, answer, subscribed>> /\ pc' \notin {"connect", "login"}
  BY TypeParts DEF Login, NextFrame
<1>1. ASSUME NEW frame \in AllFrames, Begin(frame),
             written_up = <<>> \/ frame.command # ConnectFrame.command
      PROVE  LoginFirst'
  <2> DEFINE meant == FrameMeant(frame)
  <2>1. meant \in Frames /\ meant.command = <<frame.command>>
    BY FrameArrives DEF FrameMeant
  <2> HIDE DEF meant
  <2>2. /\ Len(written_up') = Len(written_up) + 1 /\ Len(written_up) \in Nat
        /\ \A i \in 1..Len(written_up) : written_up'[i] = written_up[i]
        /\ written_up'[Len(written_up) + 1] = meant
    BY <1>0, <1>1, <2>1, AppendProperties DEF Begin, meant
  <2>3. ASSUME NEW i \in 1..Len(written_up'), written_up'[i].command = <<ConnectFrame.command>>
        PROVE  i = 1
    <3>1. CASE i <= Len(written_up)
      BY <2>2, <2>3, <3>1 DEF LoginFirst
    <3>2. CASE ~(i <= Len(written_up))
      <4>1. i = Len(written_up) + 1
        BY <2>2, <3>2
      <4>2. <<frame.command>> = <<ConnectFrame.command>>
        BY <2>1, <2>2, <2>3, <4>1
      <4>3. frame.command = ConnectFrame.command
        BY <4>2
      <4>4. Len(written_up) = 0
        BY <1>1, <4>3
      <4> QED
        BY <4>1, <4>4
    <3> QED
      BY <3>1, <3>2
  <2> QED
    BY <1>0, <2>3 DEF LoginFirst
<1>2. CASE Login
  <2>1. ConnectFrame \in AllFrames /\ Begin(ConnectFrame) /\ written_up = <<>>
    BY <1>2 DEF AllFrames, Login, LoginFirst
  <2> QED
    BY <1>1, <2>1
<1>3. CASE NextFrame
  <2>1. CASE done < Len(Program)
    <3>1. done + 1 \in 1..Len(Program)
      BY <1>0, <2>1, ProgramFrames
    <3>2. Program[done + 1] \in AllFrames /\ Begin(Program[done + 1])
          /\ Program[done + 1].command # ConnectFrame.command
      BY <1>0, <1>3, <2>1, <3>1, ProgramFrames, ProgramLogsIn DEF NextFrame
    <3> QED
      BY <1>1, <3>2
  <2>2. CASE ~(done < Len(Program))
    <3>1. UNCHANGED written_up
      BY <1>3, <2>2 DEF NextFrame
    <3> QED
      BY <1>0, <3>1 DEF LoginFirst
  <2> QED
    BY <2>1, <2>2
<1> QED
  BY <1>2, <1>3

\* What the broker makes of a byte.
LEMMA BrokerByte ==
    ASSUME TypeInv, up # <<>>
    PROVE  FrameRead(Receive(broker_reader, <<Head(up)>>)) \in Frames
<1>1. /\ up \in Seq(Int) /\ broker_reader \in Reader
      /\ broker_reader.phase = "body" => broker_reader.need # 0
  BY TypeParts DEF TypeInv, AtHand
<1>2. Head(up) \in Int /\ <<Head(up)>> \in Seq(Int) /\ Len(<<Head(up)>>) = 1
  BY <1>1
<1>3. 1 \in Wanted(broker_reader)
  BY <1>1 DEF Wanted, Reader
<1> QED
  BY <1>1, <1>2, <1>3, ReceiveTypes

LEMMA LoginStep ==
    ASSUME AllWellFormed, OneLogin, TypeInv, LoginFirst, [Next]_vars
    PROVE  LoginFirst'
<1>1. CASE Login \/ NextFrame
  BY <1>1, LoginBegins
<1>2. CASE Connect \/ WriteBuffer \/ WriteBroken \/ Select \/ Read \/ ReadFails \/ UNCHANGED vars
  <2>1. UNCHANGED <<read_up, answer, subscribed, written_up>>
    BY <1>2 DEF Connect, WriteBuffer, WriteBroken, Select, Read, ReadFails, vars, broker, history
  <2>2. pc' \in {"connect", "login"} => pc \in {"connect", "login"}
    BY <1>2 DEF Connect, WriteBuffer, WriteBroken, Select, Read, ReadFails, vars, process,
                AfterWrite, AfterRead
  <2> QED
    BY <2>1, <2>2 DEF LoginFirst
<1>3. CASE Disconnect
  BY <1>3, EmptySeq DEF Disconnect, LoginFirst
<1>4. CASE Close
  BY <1>4 DEF Close, LoginFirst, history
<1>5. CASE BrokerReads
  <2>1. UNCHANGED <<written_up, pc>>
    BY <1>5 DEF BrokerReads, process
  <2>2. read_up' = <<>> => UNCHANGED <<read_up, answer, subscribed>>
    <3> DEFINE f == FrameRead(Receive(broker_reader, <<Head(up)>>))
    <3>1. f \in Frames /\ read_up \in Seq(Frames)
      BY <1>5, BrokerByte, TypeParts DEF BrokerReads
    <3>2. \/ UNCHANGED <<read_up, answer, subscribed>>
          \/ read_up' = Append(read_up, f)
      BY <1>5 DEF BrokerReads
    <3> HIDE DEF f
    <3>3. Append(read_up, f) # <<>>
      BY <3>1, AppendProperties
    <3> QED
      BY <3>2, <3>3
  <2> QED
    BY <2>1, <2>2 DEF LoginFirst
<1>6. CASE BrokerSends
  BY <1>6 DEF BrokerSends, LoginFirst, process
<1>7. CASE BrokerWrites
  <2>1. answer # <<>>
    BY <1>7, EmptySeq DEF BrokerWrites
  <2> QED
    BY <1>7, <2>1 DEF BrokerWrites, LoginFirst, process, history
<1>8. CASE BrokerCloses \/ LinkBreaks
  BY <1>8 DEF BrokerCloses, LinkBreaks, LoginFirst, process, history
<1> QED
  BY <1>1, <1>2, <1>3, <1>4, <1>5, <1>6, <1>7, <1>8 DEF Next, Process, Broker, Quiet

\* The bytes that are on their way to the process, and those that the broker has yet to
\* write, are the frames it has yet to read; of a broken connection the rest of them is
\* lost.
DownHolds ==
    /\ link \in {"none", "open"} =>
         Channel(FALSE, reader, down \o answer, written_down, read_down)
    /\ link = "broken" /\ pc \notin {"disconnect", "exit"} =>
         \E rest \in Seq(Int) : Channel(FALSE, reader, down \o rest, written_down, read_down)

LEMMA DownStarts == Init => DownHolds
<1>1. <<>> \o <<>> = <<>>
  OBVIOUS
<1> QED
  BY <1>1, ChannelStarts DEF Init, DownHolds

\* The process reads a part of them.
LEMMA DownReads ==
    ASSUME TypeInv, DownHolds, Read
    PROVE  DownHolds' /\ (DownChannel!Read \/ UNCHANGED <<written_down, read_down>>)
           /\ pc' # "disconnect"
<1>0. /\ down \in Seq(Int) /\ answer \in Seq(Int) /\ reader \in Reader /\ read_down \in Seq(Frames)
      /\ reader.phase = "body" => reader.need # 0
      /\ Reading /\ pc \notin {"connect", "disconnect", "exit"}
      /\ UNCHANGED <<link, answer, written_down>>
      /\ link \in {"open", "broken"}
  <2>1. Reading /\ UNCHANGED <<link, answer, written_down>>
    BY DEF Read, broker
  <2>2. pc \notin {"connect", "disconnect", "exit"}
    BY <2>1 DEF Reading
  <2>3. link \in {"open", "broken"}
    BY <2>2 DEF TypeInv, TypeOK, AtHand
  <2>4. reader.phase = "body" => reader.need # 0
    BY DEF TypeInv, AtHand
  <2> QED
    BY <2>1, <2>2, <2>3, <2>4, TypeParts
<1>1. PICK rest \in Seq(Int) :
        /\ Channel(FALSE, reader, down \o rest, written_down, read_down)
        /\ link = "open" => rest = answer
  BY <1>0 DEF DownHolds
<1>2. PICK n \in Wanted(reader) :
        /\ n <= Len(down)
        /\ down' = SubSeq(down, n + 1, Len(down))
        /\ LET r == Receive(reader, SubSeq(down, 1, n))
           IN /\ reader' = IF r.phase \in {"done", "error"} THEN Start ELSE r
              /\ pc' = CASE r.phase = "done" -> AfterRead
                         [] r.phase = "error" -> "disconnect"
                         [] OTHER -> pc
              /\ read_down' = IF r.phase = "done" THEN Append(read_down, FrameRead(r))
                              ELSE read_down
  BY DEF Read
<1> DEFINE chunk == SubSeq(down, 1, n)
           r == Receive(reader, chunk)
           f == FrameRead(r)
           left == down' \o rest
<1>3. Takes(reader, chunk, left, written_down, read_down)
  <2> DEFINE all == SubSeq(down, n + 1, Len(down)) \o rest
  <2>1. left = all
    BY <1>2
  <2>2. Takes(reader, chunk, all, written_down, read_down)
    BY <1>0, <1>1, <1>2, ChannelTakes
  <2> HIDE DEF left, all
  <2> QED
    BY <2>1, <2>2
<1>4. /\ reader' = IF r.phase \in {"done", "error"} THEN Start ELSE r
      /\ pc' = CASE r.phase = "done" -> AfterRead
                 [] r.phase = "error" -> "disconnect"
                 [] OTHER -> pc
      /\ read_down' = IF r.phase = "done" THEN Append(read_down, f) ELSE read_down
  BY <1>2
<1>5. \/ /\ r.phase = "done"
         /\ Len(read_down) < Len(written_down) /\ f = written_down[Len(read_down) + 1]
         /\ Channel(FALSE, Start, left, written_down, Append(read_down, f))
      \/ /\ r.phase \notin {"done", "error"}
         /\ Channel(FALSE, r, left, written_down, read_down)
  <2> HIDE DEF chunk, left
  <2> QED
    BY <1>3 DEF Takes
<1> HIDE DEF chunk, r, f, left
<1>6. CASE r.phase = "done"
  <2>1. reader' = Start /\ pc' = AfterRead /\ read_down' = Append(read_down, f)
    BY <1>4, <1>6
  <2>2. pc' # "disconnect"
    BY <2>1 DEF AfterRead
  <2>3. Channel(FALSE, reader', left, written_down', read_down')
    BY <1>0, <1>5, <1>6, <2>1
  <2>4. DownHolds'
    BY <1>0, <1>1, <2>3 DEF DownHolds, left
  <2>5. DownChannel!Read
    BY <1>0, <1>5, <1>6, <2>1 DEF DownChannel!Read
  <2> QED
    BY <2>2, <2>4, <2>5
<1>7. CASE r.phase # "done"
  <2>1. r.phase # "error"
    BY <1>5, <1>7
  <2>2. reader' = r /\ pc' = pc /\ read_down' = read_down
    BY <1>4, <1>7, <2>1
  <2>3. Channel(FALSE, reader', left, written_down', read_down')
    BY <1>0, <1>5, <1>7, <2>2
  <2>4. DownHolds'
    BY <1>0, <1>1, <2>3 DEF DownHolds, left
  <2> QED
    BY <1>0, <2>2, <2>4
<1> QED
  BY <1>6, <1>7

\* The broker puts a frame behind them, when it has nothing left to write.
LEMMA DownBegins ==
    ASSUME AllWellFormed, BrokerEnd = <<Zero>>, TypeInv, DownHolds, NEW frame \in AllFrames,
           link = "open" => answer = <<>>,
           answer' = FlattenSeq(Pieces(frame, BrokerEnd)),
           written_down' = Append(written_down, FrameMeant(frame)),
           link \in {"open", "closed"}, UNCHANGED <<link, reader, down, read_down>>
    PROVE  DownHolds' /\ DownChannel!Write
<1>1. /\ down \in Seq(Int) /\ written_down \in Seq(Frames) /\ read_down \in Seq(Frames)
  BY TypeParts
<1>2. /\ FrameMeant(frame) \in Frames
      /\ Goes(FALSE, Start, FlattenSeq(Pieces(frame, BrokerEnd)), Start, <<FrameMeant(frame)>>)
  BY FrameArrives
<1>3. DownHolds'
  <2>1. CASE link = "open"
    <3>1. down \o answer = down
      BY <1>1, <2>1, ConcatEmptySeq
    <3>2. Channel(FALSE, reader, down, written_down, read_down)
      BY <2>1, <3>1 DEF DownHolds
    <3>3. Channel(FALSE, reader, down \o answer', written_down', read_down)
      BY <1>1, <1>2, <3>2, ChannelWrites
    <3> QED
      BY <2>1, <3>3 DEF DownHolds
  <2>2. CASE link = "closed"
    BY <2>2 DEF DownHolds
  <2> QED
    BY <2>1, <2>2
<1>4. DownChannel!Write
  BY <1>1, <1>2, FrameWritten DEF DownChannel!Write
<1> QED
  BY <1>3, <1>4

LEMMA DownAnswers ==
    ASSUME AllWellFormed, BrokerEnd = <<Zero>>, TypeInv, UpHolds, LoginFirst, DownHolds,
           BrokerReads \/ BrokerSends
    PROVE  DownHolds' /\ (DownChannel!Write \/ UNCHANGED <<written_down, read_down>>)
<1>1. CASE BrokerSends
  <2>1. offered + 1 \in 1..Len(MessageFrames)
    BY <1>1 DEF BrokerSends, TypeInv, TypeOK
  <2>2. MessageFrames[offered + 1] \in AllFrames
    BY <2>1 DEF AllFrames
  <2> QED
    BY <1>1, <2>2, DownBegins DEF BrokerSends, process
<1>2. CASE BrokerReads
  <2> DEFINE f == FrameRead(Receive(broker_reader, <<Head(up)>>))
  <2>1. link \in {"open", "closed"} /\ UNCHANGED <<process, down, read_down>> /\ up # <<>>
        /\ answer \in Seq(Int)
    BY <1>2, TypeParts DEF BrokerReads
  <2>2. UNCHANGED <<reader, pc>>
    BY <2>1 DEF process
  <2>3. \/ UNCHANGED <<answer, written_down>> /\ link' \in {link, "broken"}
        \/ React(f) /\ UNCHANGED link /\ read_up' = Append(read_up, f)
    BY <1>2 DEF BrokerReads
  <2>4. CASE UNCHANGED <<answer, written_down>> /\ link' \in {link, "broken"}
    <3>1. CASE link = "open"
      <4>1. Channel(FALSE, reader', down' \o answer', written_down', read_down')
        BY <2>1, <2>2, <2>4, <3>1 DEF DownHolds
      <4>2. answer' \in Seq(Int) /\ link' \in {"open", "broken"}
        BY <2>1, <2>4, <3>1
      <4>3. \E rest \in Seq(Int) :
              Channel(FALSE, reader', down' \o rest, written_down', read_down')
        BY <4>1, <4>2
      <4> QED
        BY <2>1, <2>4, <4>1, <4>2, <4>3 DEF DownHolds
    <3>2. CASE link = "closed"
      <4>1. pc' = "exit" /\ link' \in {"closed", "broken"}
        BY <2>2, <2>4, <3>2 DEF TypeInv, AtHand
      <4> QED
        BY <2>1, <2>4, <4>1 DEF DownHolds
    <3> QED
      BY <2>1, <3>1, <3>2
  <2>5. CASE React(f) /\ UNCHANGED link /\ read_up' = Append(read_up, f)
    <3>1. f \in Frames /\ read_up \in Seq(Frames) /\ written_up \in Seq(Frames)
      BY <2>1, BrokerByte, TypeParts
    <3> HIDE DEF f
    <3>2. /\ Len(read_up) < Len(written_up) /\ f = written_up[Len(read_up) + 1]
      <4>1. UpChannel!Read \/ UNCHANGED <<written_up, read_up>>
        BY <1>2, UpReads
      <4>2. read_up' # read_up
        <5>1. Len(Append(read_up, f)) = Len(read_up) + 1 /\ Len(read_up) \in Nat
          BY <3>1, AppendProperties
        <5> QED
          BY <2>5, <5>1
      <4>3. /\ Len(read_up) < Len(written_up)
            /\ read_up' = Append(read_up, written_up[Len(read_up) + 1])
        BY <4>1, <4>2 DEF UpChannel!Read
      <4>4. written_up[Len(read_up) + 1] \in Frames
        BY <3>1, <4>3
      <4>5. f = written_up[Len(read_up) + 1]
        <5> DEFINE g == written_up[Len(read_up) + 1]
        <5>1. g \in Frames /\ Append(read_up, f) = Append(read_up, g)
          BY <2>5, <4>3, <4>4
        <5> HIDE DEF g
        <5>2. f = g
          BY <3>1, <5>1, AppendInjective
        <5> QED
          BY <5>2 DEF g
      <4> QED
        BY <4>3, <4>5
    <3>3. ASSUME f.command = <<ConnectFrame.command>> PROVE answer = <<>>
      <4>1. Len(read_up) + 1 \in 1..Len(written_up) /\ Len(read_up) \in Nat
        BY <3>1, <3>2
      <4>2. Len(read_up) + 1 = 1
        BY <3>2, <3>3, <4>1 DEF LoginFirst
      <4>3. read_up = <<>>
        BY <3>1, <4>1, <4>2, EmptySeq
      <4> QED
        BY <4>3 DEF LoginFirst
    <3>4. CASE UNCHANGED <<answer, written_down>>
      BY <2>1, <2>2, <2>5, <3>4 DEF DownHolds
    <3>5. ASSUME NEW frame \in AllFrames, answer = <<>>,
                 answer' = FlattenSeq(Pieces(frame, BrokerEnd)),
                 written_down' = Append(written_down, FrameMeant(frame))
          PROVE  DownHolds' /\ DownChannel!Write
      BY <2>1, <2>2, <2>5, <3>5, DownBegins
    <3>6. ConnectedFrame \in AllFrames /\ ErrorFrame \in AllFrames
      BY DEF AllFrames
    <3> QED
      BY <2>1, <2>5, <3>3, <3>4, <3>5, <3>6 DEF React
  <2> QED
    BY <2>1, <2>3, <2>4, <2>5
<1> QED
  BY <1>1, <1>2

\* Bytes move from the broker to the socket, or are lost with the connection.
LEMMA DownLink ==
    ASSUME TypeInv, DownHolds, BrokerWrites \/ BrokerCloses \/ LinkBreaks
    PROVE  DownHolds' /\ UNCHANGED <<written_down, read_down>>
<1>0. /\ down \in Seq(Int) /\ answer \in Seq(Int) /\ link = "open"
      /\ Len(down) \in Nat /\ Len(answer) \in Nat
      /\ reader' = reader /\ pc' = pc /\ written_down' = written_down /\ read_down' = read_down
  <2>1. down \in Seq(Int) /\ answer \in Seq(Int)
    BY TypeParts
  <2>2. /\ link = "open"
        /\ reader' = reader /\ pc' = pc /\ written_down' = written_down /\ read_down' = read_down
    BY DEF BrokerWrites, BrokerCloses, LinkBreaks, process, history
  <2> QED
    BY <2>1, <2>2
<1>1. Channel(FALSE, reader, down \o answer, written_down, read_down)
  BY <1>0 DEF DownHolds
<1>2. \A s \in Seq(Int) : \A n \in 0..Len(s) :
        /\ SubSeq(s, 1, n) \in Seq(Int) /\ SubSeq(s, n + 1, Len(s)) \in Seq(Int)
        /\ SubSeq(s, 1, n) \o SubSeq(s, n + 1, Len(s)) = s
  <2> SUFFICES ASSUME NEW s \in Seq(Int), NEW n \in 0..Len(s)
               PROVE  /\ SubSeq(s, 1, n) \in Seq(Int) /\ SubSeq(s, n + 1, Len(s)) \in Seq(Int)
                      /\ SubSeq(s, 1, n) \o SubSeq(s, n + 1, Len(s)) = s
    OBVIOUS
  <2>1. Len(s) \in Nat /\ 1 \in 1..(Len(s) + 1) /\ n \in (1 - 1)..Len(s) /\ Len(s) \in n..Len(s)
    OBVIOUS
  <2>2. SubSeq(s, 1, n) \o SubSeq(s, n + 1, Len(s)) = SubSeq(s, 1, Len(s))
    BY <2>1, ConcatAdjacentSubSeq
  <2>3. SubSeq(s, 1, Len(s)) = s
    BY SubSeqFull
  <2>4. SubSeq(s, 1, n) \in Seq(Int) /\ SubSeq(s, n + 1, Len(s)) \in Seq(Int)
    BY <2>1
  <2> QED
    BY <2>2, <2>3, <2>4
<1>3. CASE BrokerWrites
  <2>1. PICK n \in 1..Len(answer) :
          down' = down \o SubSeq(answer, 1, n) /\ answer' = SubSeq(answer, n + 1, Len(answer))
    BY <1>3 DEF BrokerWrites
  <2> DEFINE part == SubSeq(answer, 1, n)
             left == SubSeq(answer, n + 1, Len(answer))
  <2>2. part \in Seq(Int) /\ left \in Seq(Int) /\ part \o left = answer
    <3>1. n \in 0..Len(answer)
      BY <1>0
    <3> QED
      BY <1>0, <1>2, <3>1
  <2>3. down' = down \o part /\ answer' = left /\ link' = "open"
    BY <1>0, <1>3, <2>1 DEF BrokerWrites
  <2> HIDE DEF part, left
  <2>4. Regroups(down, part, left)
    BY <1>0, <2>2, Regroup, Zenon
  <2>5. down' \o answer' = down \o answer
    BY <2>2, <2>3, <2>4 DEF Regroups
  <2> QED
    BY <1>0, <1>1, <2>3, <2>5 DEF DownHolds
<1>4. CASE BrokerCloses
  <2>1. down' = down /\ link' = "broken"
    BY <1>4 DEF BrokerCloses
  <2> QED
    BY <1>0, <1>1, <2>1 DEF DownHolds
<1>5. CASE LinkBreaks
  <2>1. PICK n \in 0..Len(down) : down' = SubSeq(down, 1, n)
    BY <1>5 DEF LinkBreaks
  <2> DEFINE part == SubSeq(down, 1, n)
             left == SubSeq(down, n + 1, Len(down))
  <2>2. part \in Seq(Int) /\ left \in Seq(Int) /\ part \o left = down
    BY <1>0, <1>2
  <2>3. down' = part /\ link' = "broken"
    BY <1>5, <2>1 DEF LinkBreaks
  <2> HIDE DEF part, left
  <2>4. Regroups(part, left, answer) /\ left \o answer \in Seq(Int)
    <3>1. Regroups(part, left, answer)
      BY <1>0, <2>2, Regroup, Zenon
    <3>2. left \o answer \in Seq(Int)
      BY <1>0, <2>2, ConcatProperties
    <3> QED
      BY <3>1, <3>2
  <2>5. down \o answer = down' \o (left \o answer)
    BY <2>2, <2>3, <2>4 DEF Regroups
  <2> QED
    BY <1>0, <1>1, <2>3, <2>4, <2>5 DEF DownHolds
<1> QED
  BY <1>0, <1>3, <1>4, <1>5

\* What the process does besides.
LEMMA DownElse ==
    ASSUME TypeInv, DownHolds,
           \/ Connect \/ Login \/ NextFrame \/ WriteBuffer \/ WriteBroken \/ Select \/ ReadFails
           \/ Disconnect \/ Close \/ UNCHANGED vars
    PROVE  DownHolds' /\ (DownChannel!Open \/ UNCHANGED <<written_down, read_down>>)
<1> USE DEF broker, history
<1>1. CASE Connect
  BY <1>1 DEF Connect, DownHolds, TypeInv, AtHand
<1>2. CASE Login \/ NextFrame \/ WriteBuffer \/ WriteBroken \/ Select \/ UNCHANGED vars
  <2>1. UNCHANGED <<link, reader, down, answer, written_down, read_down>>
    BY <1>2 DEF Login, NextFrame, WriteBuffer, WriteBroken, Select, vars, process
  <2>2. pc' \notin {"disconnect", "exit"} => pc \notin {"disconnect", "exit"}
    BY <1>2 DEF Login, NextFrame, WriteBuffer, WriteBroken, Writing, Select, vars, process
  <2> QED
    BY <2>1, <2>2 DEF DownHolds
<1>3. CASE ReadFails
  BY <1>3 DEF ReadFails, DownHolds
<1>4. CASE Close
  <2>1. link' \in {"closed", "broken"} /\ pc' = "exit"
    BY <1>4 DEF Close, TypeInv, TypeOK, AtHand
  <2> QED
    BY <1>4, <2>1 DEF Close, DownHolds
<1>5. CASE Disconnect
  <2>1. reader = Start
    BY <1>5 DEF Disconnect, TypeInv, TypeOK, Reading
  <2>2. down' \o answer' = <<>> /\ link' = "none" /\ reader' = Start
    <3>1. down' = <<>> /\ answer' = <<>> /\ link' = "none" /\ reader' = Start
      BY <1>5, <2>1 DEF Disconnect
    <3> QED
      BY <3>1
  <2>3. written_down' = <<>> /\ read_down' = <<>>
    BY <1>5 DEF Disconnect
  <2>4. DownHolds'
    BY <2>2, <2>3, ChannelStarts DEF DownHolds
  <2> QED
    BY <2>3, <2>4 DEF DownChannel!Open
<1> QED
  BY <1>1, <1>2, <1>3, <1>4, <1>5

LEMMA DownStep ==
    ASSUME AllWellFormed, BrokerEndsWithZero, TypeInv, UpHolds, LoginFirst, DownHolds,
           [Next]_vars
    PROVE  DownHolds' /\ [DownChannel!Next]_<<written_down, read_down>>
<1>1. CASE Read
  BY <1>1, DownReads DEF DownChannel!Next
<1>2. CASE BrokerReads \/ BrokerSends
  BY <1>2, DownAnswers DEF DownChannel!Next, BrokerEndsWithZero
<1>3. CASE BrokerWrites \/ BrokerCloses \/ LinkBreaks
  BY <1>3, DownLink
<1>4. CASE \/ Connect \/ Login \/ NextFrame \/ WriteBuffer \/ WriteBroken \/ Select
           \/ ReadFails \/ Disconnect \/ Close \/ UNCHANGED vars
  BY <1>4, DownElse DEF DownChannel!Next
<1> QED
  BY <1>1, <1>2, <1>3, <1>4 DEF Next, Process, Broker, Quiet

\* stomp_read has no reason to fail but the connection.
LEMMA FailureStep ==
    ASSUME TypeInv, DownHolds, [Next]_vars, pc' = "disconnect", pc # "disconnect"
    PROVE  link = "broken"
<1>1. ~Read
  BY DownReads
<1>2. CASE WriteBroken \/ ReadFails
  BY <1>2 DEF WriteBroken, ReadFails
<1>3. CASE Connect \/ Login \/ NextFrame \/ WriteBuffer \/ Select \/ Disconnect \/ Close
  BY <1>3 DEF Connect, Login, NextFrame, WriteBuffer, AfterWrite, Writing, Select, Disconnect,
              Close
<1>4. CASE Broker \/ LinkBreaks \/ UNCHANGED vars
  BY <1>4 DEF Broker, BrokerReads, BrokerSends, BrokerWrites, BrokerCloses, LinkBreaks, vars,
              process
<1> QED
  BY <1>1, <1>2, <1>3, <1>4 DEF Next, Process, Quiet

\* What every step of the connection keeps.
SessionInv == TypeInv /\ UpHolds /\ LoginFirst /\ DownHolds

LEMMA SessionAlways ==
    ASSUME AllWellFormed, OneLogin, BrokerEndsWithZero
    PROVE  Spec => []SessionInv
<1>1. Init => SessionInv
  BY InitTypes, UpStarts, LoginStarts, DownStarts DEF SessionInv
<1>2. SessionInv /\ [Next]_vars => SessionInv'
  BY FramesFit, StepTypes, UpStep, LoginStep, DownStep DEF SessionInv
<1> QED
  BY <1>1, <1>2, PTL DEF Spec

\* What the process reads are the frames of the broker, whole and in their order, if it
\* ends them with a zero alone, as stomp_read expects.
THEOREM DownIsChannel ==
    ASSUME AllWellFormed, OneLogin, BrokerEndsWithZero
    PROVE  Spec => DownIsAChannel
<1>1. Init => DownChannel!Init
  BY DEF Init, DownChannel!Init
<1>2. SessionInv /\ [Next]_vars => [DownChannel!Next]_<<written_down, read_down>>
  BY DownStep DEF SessionInv
<1> QED
  BY <1>1, <1>2, SessionAlways, PTL DEF Spec, DownIsAChannel, DownChannel!Spec

\* stomp_read, and with it the session, fails only when the connection does.
THEOREM OnlyBreaksFail ==
    ASSUME AllWellFormed, OneLogin, BrokerEndsWithZero
    PROVE  Spec => FailsOnlyWhenBroken
<1>1. SessionInv /\ [Next]_vars => [pc' = "disconnect" /\ pc # "disconnect" => link = "broken"]_vars
  BY FailureStep DEF SessionInv
<1> QED
  BY <1>1, SessionAlways, PTL DEF Spec, FailsOnlyWhenBroken
=============================================================================
