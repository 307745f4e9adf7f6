------------------------- MODULE RadarFrameProofs -------------------------
(***************************************************************************)
(* Proofs about RadarFrame, for any number of lists of any sizes, cut by   *)
(* the reads in any way.                                                   *)
(***************************************************************************)
EXTENDS RadarFrame, TLAPS

-----------------------------------------------------------------------------
(* The lists in a sequence of tokens, said of positions that need not be   *)
(* neighbours, so that it survives every cut.                              *)

\* A token the device has sent.
Genuine(t) ==
  /\ t.list <= Len(sizes)
  /\ IF t.kind = "record" THEN t.n \in 1 .. Records(sizes[t.list])
                          ELSE t.n = sizes[t.list]

\* What a token at j says of the one at k.
InShape(s, j, k) ==
  /\ j < k => s[j].list <= s[k].list
  /\ j < k /\ s[k].kind = "head" => s[j].list < s[k].list
  /\ s[j].kind = "head" /\ k - j \in 1 .. Records(s[j].n) =>
       s[k].kind = "record" /\ s[k].list = s[j].list /\ s[k].n = k - j
  /\ s[j].kind = "head" /\ k = j + Records(s[j].n) + 1 =>
       s[k].kind = "tail" /\ s[k].list = s[j].list
  /\ s[j].kind = "tail" /\ k = j + 1 => s[k].kind = "head"

Listed(s) ==
  /\ \A j \in 1 .. Len(s) : Genuine(s[j])
  /\ \A j, k \in 1 .. Len(s) : InShape(s, j, k)

Visible(t) == t.part # "rest"

\* What waits: every list is there to its tail, and only the first token may
\* have been cut.
WireInv ==
  /\ Listed(wire)
  /\ \A j \in 1 .. Len(wire) :
       /\ wire[j].kind = "head" => j + Records(wire[j].n) + 1 <= Len(wire)
       /\ wire[j].part \in {"whole", "rest"}
       /\ j > 1 => wire[j].part = "whole"

\* What was read: only the first and the last token are cut, and the lists of
\* which the head is still to come are later ones.
MsgInv ==
  /\ Listed(msg)
  /\ \A j \in 1 .. Len(msg) :
       /\ j < Len(msg) => msg[j].part \in {"whole", "rest"}
       /\ j > 1 => Visible(msg[j])
  /\ \A j \in 1 .. Len(msg), k \in 1 .. Len(wire) :
       wire[k].kind = "head" /\ Visible(wire[k]) => msg[j].list < wire[k].list

Decoding == phase \in {"begin", "list", "copy"}

\* In a list the decoder is between its head and its tail, or at the end.
InList ==
  /\ start \in 2 .. i
  /\ msg[start - 1].kind = "head" /\ Visible(msg[start - 1])
  /\ entries = msg[start - 1].n
  /\ i <= start + Records(entries) \/ i = Len(msg) + 1

\* A tail that cannot be overlooked.
Sure(t) == t.kind = "tail" /\ t.part \in {"whole", "front"}

PlaceInv ==
  /\ ~Decoding => /\ msg = <<>> /\ i = 1 /\ entries = 0 /\ start = 0
                  /\ decoded = NoTargets /\ result = "ok"
  /\ Decoding => msg # <<>> /\ (i > 1 => AtHead)
  /\ phase = "begin" /\ i > 1 => msg[i - 1].kind = "tail"
  /\ phase = "list" => InList
  /\ phase = "copy" =>
       \/ i = 1 /\ (AtHead => Len(msg) = 1 /\ msg[1].kind = "head")
       \/ \A r \in 1 .. Len(msg) : Sure(msg[r]) => r < i

TypeInv == TypeOK /\ WireInv /\ MsgInv /\ PlaceInv

\* A head's number is a number of targets, and so is that of its records.
LEMMA RecordsTyped ==
  /\ \A n \in 0 .. MaxTargets : Records(n) \in 0 .. MaxTargets - 1 
                                /\ Records(n) <= n
  /\ MaxTargets \in Nat
BY FrameAssumption DEF FrameAssumption, Records

\* The fields of a token.
LEMMA Fields ==
  ASSUME NEW t \in Tokens
  PROVE  /\ t.list \in 1 .. MaxLists /\ t.list \in Nat /\ t.list >= 1
         /\ t.kind \in Kinds /\ t.part \in Parts
         /\ t.n \in 0 .. MaxTargets /\ t.n \in Nat
         /\ Records(t.n) \in Nat /\ Records(t.n) <= t.n
BY RecordsTyped, FrameAssumption DEF Tokens, FrameAssumption

\* The pieces of a token are the token but for the part.
Like(t, u) == t.list = u.list /\ t.kind = u.kind /\ t.n = u.n

LEMMA Pieces ==
  ASSUME NEW t \in Tokens, NEW cut \in {"front", "torn"}
  PROVE  /\ FrontPart(t, cut) \in Tokens /\ Like(FrontPart(t, cut), t)
         /\ FrontPart(t, cut).part = IF t.part = "rest" THEN "rest" ELSE cut
         /\ RestPart(t) \in Tokens /\ Like(RestPart(t), t)
         /\ RestPart(t).part = "rest"
BY DEF Tokens, FrontPart, RestPart, Like, Parts

\* A part of a sequence of tokens is of the same shape, whatever was cut.
LEMMA PartListed ==
  ASSUME NEW s \in Seq(Tokens), NEW t \in Seq(Tokens), NEW off \in Nat,
         Listed(s), off + Len(t) <= Len(s),
         \A j \in 1 .. Len(t) : Like(t[j], s[off + j])
  PROVE  Listed(t)
<1>1. \A j \in 1 .. Len(t) : Genuine(t[j])
  BY DEF Listed, Genuine, Like
<1>2. ASSUME NEW j \in 1 .. Len(t), NEW k \in 1 .. Len(t)
      PROVE  InShape(t, j, k)
  <2>1. off + j \in 1 .. Len(s) /\ off + k \in 1 .. Len(s)
    OBVIOUS
  <2>2. InShape(s, off + j, off + k)
    BY <2>1 DEF Listed
  <2>3. s[off + j] \in Tokens /\ s[off + k] \in Tokens
    BY <2>1
  <2>4. Records(s[off + j].n) \in Nat
    BY <2>3, Fields
  <2>5. /\ t[j].list = s[off + j].list /\ t[k].list = s[off + k].list
        /\ t[j].kind = s[off + j].kind /\ t[k].kind = s[off + k].kind
        /\ t[j].n = s[off + j].n /\ t[k].n = s[off + k].n
    BY DEF Like
  <2>6. /\ j < k <=> off + j < off + k
        /\ (off + k) - (off + j) = k - j
        /\ k = j + 1 <=> off + k = off + j + 1
    OBVIOUS
  <2>7. \A m \in Nat : k = j + m + 1 <=> off + k = off + j + m + 1
    OBVIOUS
  <2> QED
    BY <2>2, <2>4, <2>5, <2>6, <2>7 DEF InShape
<1> QED
  BY <1>1, <1>2 DEF Listed

\* A list that was sent is in shape, and lists that were are so for ever.
LEMMA SizesGrow ==
  ASSUME TypeOK, NEW n \in Sizes, sizes' = Append(sizes, n),
         NEW t \in Tokens, Genuine(t)
  PROVE  Genuine(t)'
<1>1. sizes \in Seq(Sizes) /\ t.list \in 1 .. Len(sizes)
  BY Fields DEF TypeOK, Genuine
<1>2. sizes'[t.list] = sizes[t.list] /\ Len(sizes') = Len(sizes) + 1
  BY <1>1
<1> QED
  BY <1>1, <1>2 DEF Genuine

LEMMA ListedGrow ==
  ASSUME TypeOK, NEW n \in Sizes, sizes' = Append(sizes, n),
         NEW s \in Seq(Tokens), Listed(s)
  PROVE  Listed(s)'
<1>1. \A j \in 1 .. Len(s) : Genuine(s[j])'
  <2> TAKE j \in 1 .. Len(s)
  <2>1. s[j] \in Tokens /\ Genuine(s[j])
    BY DEF Listed
  <2> QED
    BY <2>1, SizesGrow
<1> QED
  BY <1>1 DEF Listed, InShape

-----------------------------------------------------------------------------
(* What a read takes and leaves.                                           *)

LEMMA TakenIs ==
  ASSUME TypeOK, NEW k \in 0 .. Len(wire), NEW cut \in Cuts, CanRead(k, cut)
  PROVE  /\ Taken(k, cut) \in Seq(Tokens)
         /\ Len(Taken(k, cut)) = k + (IF cut = "none" THEN 0 ELSE 1)
         /\ Len(Taken(k, cut)) > 0 /\ Len(Taken(k, cut)) <= Len(wire)
         /\ \A j \in 1 .. k : Taken(k, cut)[j] = wire[j]
         /\ cut # "none" => Taken(k, cut)[k + 1] = FrontPart(wire[k + 1], cut)
<1> DEFINE u == SubSeq(wire, 1, k)
<1>1. wire \in Seq(Tokens) /\ k \in Nat /\ k <= Len(wire)
  BY DEF TypeOK
<1>2. /\ u \in Seq(Tokens) /\ Len(u) = k
      /\ \A j \in 1 .. k : u[j] = wire[j]
  BY <1>1
<1> HIDE DEF u
<1>3. CASE cut = "none"
  <2>1. Taken(k, cut) = u \o <<>>
    BY <1>3 DEF Taken, u
  <2>2. u \o <<>> = u
    BY <1>2
  <2>3. Taken(k, cut) = u
    BY <2>1, <2>2
  <2>4. k > 0
    BY <1>3 DEF CanRead
  <2> QED
    BY <1>1, <1>2, <1>3, <2>3, <2>4
<1>4. CASE cut # "none"
  <2> DEFINE t == FrontPart(wire[k + 1], cut)
  <2>1. k + 1 \in 1 .. Len(wire) /\ wire[k + 1] \in Tokens
    BY <1>1, <1>4 DEF CanRead
  <2>2. t \in Tokens
    BY <1>4, <2>1, Pieces DEF Cuts
  <2>3. Taken(k, cut) = u \o <<t>>
    BY <1>4 DEF Taken, u
  <2> HIDE DEF t
  <2>4. /\ u \o <<t>> \in Seq(Tokens) /\ Len(u \o <<t>>) = k + 1
        /\ \A j \in 1 .. k : (u \o <<t>>)[j] = u[j]
        /\ (u \o <<t>>)[k + 1] = t
    BY <1>1, <1>2, <2>2
  <2>5. k + 1 > 0 /\ k + 1 <= Len(wire)
    BY <1>1, <2>1
  <2> QED
    BY <1>2, <1>4, <2>3, <2>4, <2>5 DEF t
<1> QED
  BY <1>3, <1>4

LEMMA LeftIs ==
  ASSUME TypeOK, NEW k \in 0 .. Len(wire), NEW cut \in Cuts, CanRead(k, cut)
  PROVE  /\ Left(k, cut) \in Seq(Tokens)
         /\ Len(Left(k, cut)) = Len(wire) - k
         /\ \A j \in 1 .. Len(Left(k, cut)) :
              Left(k, cut)[j] = IF j = 1 /\ cut # "none"
                                THEN RestPart(wire[k + 1]) ELSE wire[k + j]
<1>1. wire \in Seq(Tokens)
  BY DEF TypeOK
<1>3. CASE cut = "none"
  <2> DEFINE u == SubSeq(wire, k + 1, Len(wire))
  <2>1. Left(k, cut) = u
    BY <1>1, <1>3 DEF Left
  <2>2. /\ u \in Seq(Tokens) /\ Len(u) = Len(wire) - k
        /\ \A j \in 1 .. Len(u) : u[j] = wire[k + j]
    BY <1>1
  <2> HIDE DEF u
  <2> QED
    BY <1>3, <2>1, <2>2
<1>4. CASE cut # "none"
  <2> DEFINE u == SubSeq(wire, k + 2, Len(wire))
  <2>1. k + 1 \in 1 .. Len(wire) /\ wire[k + 1] \in Tokens
    BY <1>1, <1>4 DEF CanRead
  <2>2. RestPart(wire[k + 1]) \in Tokens
    BY <2>1, Pieces
  <2>3. Left(k, cut) = <<RestPart(wire[k + 1])>> \o u
    BY <1>4 DEF Left
  <2>4. /\ u \in Seq(Tokens) /\ Len(u) = Len(wire) - k - 1
        /\ \A j \in 1 .. Len(u) : u[j] = wire[k + 1 + j]
    BY <1>1, <2>1
  <2> HIDE DEF u
  <2>5. /\ Left(k, cut) \in Seq(Tokens) /\ Len(Left(k, cut)) = Len(wire) - k
        /\ \A j \in 1 .. Len(Left(k, cut)) :
             Left(k, cut)[j] = IF j = 1 THEN RestPart(wire[k + 1])
                                        ELSE u[j - 1]
    BY <1>1, <2>1, <2>2, <2>3, <2>4
  <2>6. \A j \in 2 .. Len(Left(k, cut)) : u[j - 1] = wire[k + j]
    BY <1>1, <2>1, <2>4, <2>5
  <2> QED
    BY <1>4, <2>5, <2>6
<1> QED
  BY <1>3, <1>4

\* What is left is as what waited, from further on.
LEMMA LeaveWire ==
  ASSUME TypeOK, WireInv, NEW k \in 0 .. Len(wire), NEW cut \in Cuts,
         CanRead(k, cut), wire' = Left(k, cut), sizes' = sizes
  PROVE  /\ wire' \in Seq(Tokens)
         /\ WireInv'
         /\ \A j \in 1 .. Len(wire') :
              /\ k + j \in 1 .. Len(wire)
              /\ Like(wire'[j], wire[k + j])
              /\ Visible(wire'[j]) => /\ Visible(wire[k + j])
                                      /\ j > 1 \/ cut = "none"
<1>1. /\ wire \in Seq(Tokens) /\ wire' \in Seq(Tokens)
      /\ Len(wire') = Len(wire) - k
      /\ \A j \in 1 .. Len(wire') :
           wire'[j] = IF j = 1 /\ cut # "none" THEN RestPart(wire[k + 1])
                                               ELSE wire[k + j]
  <2>1. wire \in Seq(Tokens)
    BY DEF TypeOK
  <2> QED
    BY <2>1, LeftIs
<1>2. ASSUME NEW j \in 1 .. Len(wire')
      PROVE  /\ k + j \in 1 .. Len(wire) /\ wire[k + j] \in Tokens
             /\ Like(wire'[j], wire[k + j])
             /\ wire'[j].part = IF j = 1 /\ cut # "none" THEN "rest"
                                ELSE wire[k + j].part
  <2>1. k + j \in 1 .. Len(wire) /\ wire[k + j] \in Tokens
    BY <1>1
  <2>2. /\ Like(RestPart(wire[k + j]), wire[k + j])
        /\ RestPart(wire[k + j]).part = "rest"
    BY <2>1, Pieces DEF Cuts
  <2> QED
    BY <1>1, <2>1, <2>2 DEF Like
<1>3. Listed(wire')
  <2>1. k \in Nat /\ k + Len(wire') <= Len(wire)
    BY <1>1
  <2>2. \A j \in 1 .. Len(wire') : Like(wire'[j], wire[k + j])
    BY <1>2
  <2>3. Listed(wire)
    BY DEF WireInv
  <2> QED
    BY <1>1, <2>1, <2>2, <2>3, PartListed
<1>4. Listed(wire)'
  BY <1>3 DEF Listed, Genuine, InShape
<1>5. ASSUME NEW j \in 1 .. Len(wire')
      PROVE  /\ wire'[j].kind = "head"
                  => j + Records(wire'[j].n) + 1 <= Len(wire')
             /\ wire'[j].part \in {"whole", "rest"}
             /\ j > 1 => wire'[j].part = "whole"
  <2>1. /\ wire[k + j].kind = "head"
             => k + j + Records(wire[k + j].n) + 1 <= Len(wire)
        /\ wire[k + j].part \in {"whole", "rest"}
        /\ k + j > 1 => wire[k + j].part = "whole"
    BY <1>2 DEF WireInv
  <2>2. Records(wire[k + j].n) \in Nat
    BY <1>2, Fields
  <2> QED
    BY <1>1, <1>2, <2>1, <2>2 DEF Like
<1>6. WireInv'
  BY <1>4, <1>5 DEF WireInv
<1> QED
  BY <1>1, <1>2, <1>6 DEF Visible

\* What was taken is as what waited, and what is left comes behind it.
LEMMA TakeMsg ==
  ASSUME TypeOK, WireInv, NEW k \in 0 .. Len(wire), NEW cut \in Cuts,
         CanRead(k, cut), msg' = Taken(k, cut), wire' = Left(k, cut),
         sizes' = sizes
  PROVE  /\ msg' \in Seq(Tokens) /\ msg' # <<>> /\ Len(msg') > 0
         /\ MsgInv'
         /\ \A j \in 1 .. Len(msg') : /\ j \in 1 .. Len(wire)
                                      /\ Like(msg'[j], wire[j])
                                      /\ Visible(msg'[j]) => Visible(wire[j])
<1>1. /\ wire \in Seq(Tokens) /\ msg' \in Seq(Tokens)
      /\ Len(msg') = k + (IF cut = "none" THEN 0 ELSE 1)
      /\ Len(msg') > 0 /\ Len(msg') <= Len(wire)
      /\ \A j \in 1 .. k : msg'[j] = wire[j]
      /\ cut # "none" => msg'[k + 1] = FrontPart(wire[k + 1], cut)
  BY TakenIs DEF TypeOK
<1>2. ASSUME NEW j \in 1 .. Len(msg')
      PROVE  /\ j \in 1 .. Len(wire) /\ wire[j] \in Tokens
             /\ Like(msg'[j], wire[j])
             /\ msg'[j].part = IF j = k + 1 /\ wire[j].part # "rest" THEN cut
                               ELSE wire[j].part
             /\ j = k + 1 => j = Len(msg') /\ cut # "none"
  <2>1. j \in 1 .. Len(wire) /\ wire[j] \in Tokens
    BY <1>1
  <2>2. CASE j \in 1 .. k
    BY <1>1, <2>1, <2>2 DEF Like
  <2>3. CASE j = k + 1
    <3>1. cut # "none" /\ cut \in {"front", "torn"} /\ j = Len(msg')
      BY <1>1, <2>3 DEF Cuts
    <3>2. /\ Like(FrontPart(wire[j], cut), wire[j])
          /\ FrontPart(wire[j], cut).part = IF wire[j].part = "rest" THEN "rest"
                                            ELSE cut
      BY <2>1, <3>1, Pieces
    <3> QED
      BY <1>1, <2>1, <2>3, <3>1, <3>2
  <2> QED
    BY <1>1, <2>2, <2>3
<1>3. Listed(msg')
  <2>1. 0 \in Nat /\ 0 + Len(msg') <= Len(wire)
    BY <1>1
  <2>2. \A j \in 1 .. Len(msg') : Like(msg'[j], wire[0 + j])
    BY <1>2
  <2>3. Listed(wire)
    BY DEF WireInv
  <2> QED
    BY <1>1, <2>1, <2>2, <2>3, PartListed
<1>4. Listed(msg)'
  BY <1>3 DEF Listed, Genuine, InShape
<1>5. ASSUME NEW j \in 1 .. Len(msg')
      PROVE  /\ j < Len(msg') => msg'[j].part \in {"whole", "rest"}
             /\ j > 1 => msg'[j].part # "rest"
  <2>1. /\ wire[j].part \in {"whole", "rest"}
        /\ j > 1 => wire[j].part = "whole"
    BY <1>2 DEF WireInv
  <2> QED
    BY <1>2, <2>1 DEF Cuts
<1>6. ASSUME NEW j \in 1 .. Len(msg'), NEW n \in 1 .. Len(wire'),
             wire'[n].kind = "head", Visible(wire'[n])
      PROVE  msg'[j].list < wire'[n].list
  <2>1. /\ k + n \in 1 .. Len(wire) /\ Like(wire'[n], wire[k + n])
        /\ n > 1 \/ cut = "none"
    BY <1>6, LeaveWire
  <2>2. j < k + n
    BY <1>1, <2>1
  <2>3. InShape(wire, j, k + n)
    BY <1>2, <2>1 DEF WireInv, Listed
  <2> QED
    BY <1>2, <1>6, <2>1, <2>2, <2>3 DEF InShape, Like
<1>7. MsgInv'
  BY <1>4, <1>5, <1>6 DEF MsgInv, Visible
<1> QED
  BY <1>1, <1>2, <1>7 DEF Visible

-----------------------------------------------------------------------------
(* What the device sends.                                                  *)

\* One sequence behind another.
LEMMA Joined ==
  ASSUME NEW s \in Seq(Tokens), NEW t \in Seq(Tokens)
  PROVE  /\ s \o t \in Seq(Tokens) /\ Len(s \o t) = Len(s) + Len(t)
         /\ \A j \in 1 .. Len(s) : (s \o t)[j] = s[j]
         /\ \A j \in 1 .. Len(t) : (s \o t)[Len(s) + j] = t[j]
<1>1. s \o t \in Seq(Tokens) /\ Len(s \o t) = Len(s) + Len(t)
  OBVIOUS
<1>2. \A j \in 1 .. Len(s) : (s \o t)[j] = s[j]
  OBVIOUS
<1>3. \A j \in 1 .. Len(t) : (s \o t)[Len(s) + j] = t[j]
  OBVIOUS
<1> QED
  BY <1>1, <1>2, <1>3

\* A list has its head, its records in order and its tail.
LEMMA ListIs ==
  ASSUME NEW l \in 1 .. MaxLists, NEW n \in 0 .. MaxTargets
  PROVE  /\ Records(n) \in Nat
         /\ ListTokens(l, n) \in Seq(Tokens)
         /\ Len(ListTokens(l, n)) = Records(n) + 2
         /\ ListTokens(l, n)[1] = Token(l, "head", n)
         /\ \A k \in 1 .. Records(n) :
              ListTokens(l, n)[k + 1] = Token(l, "record", k)
         /\ ListTokens(l, n)[Records(n) + 2] = Token(l, "tail", n)
<1> DEFINE head == <<Token(l, "head", n)>>
           body == [k \in 1 .. Records(n) |-> Token(l, "record", k)]
           tail == <<Token(l, "tail", n)>>
<1>1. /\ Records(n) \in Nat /\ Records(n) <= MaxTargets /\ MaxTargets \in Nat
      /\ 1 .. Records(n) \subseteq 0 .. MaxTargets
  BY RecordsTyped
<1>2. \A k \in 0 .. MaxTargets, kind \in Kinds : Token(l, kind, k) \in Tokens
  BY DEF Token, Tokens, Parts
<1>3. head \in Seq(Tokens) /\ Len(head) = 1 /\ head[1] = Token(l, "head", n)
  BY <1>2 DEF Kinds
<1>4. tail \in Seq(Tokens) /\ Len(tail) = 1 /\ tail[1] = Token(l, "tail", n)
  BY <1>2 DEF Kinds
<1>5. /\ body \in Seq(Tokens) /\ Len(body) = Records(n)
      /\ \A k \in 1 .. Records(n) : body[k] = Token(l, "record", k)
  <2>1. \A k \in 1 .. Records(n) : Token(l, "record", k) \in Tokens
    BY <1>1, <1>2 DEF Kinds
  <2>2. body \in [1 .. Records(n) -> Tokens]
    BY <2>1
  <2> QED
    BY <1>1, <2>2
<1>6. ListTokens(l, n) = (head \o body) \o tail
  BY DEF ListTokens
<1> HIDE DEF head, body, tail
<1>7. /\ head \o body \in Seq(Tokens) /\ Len(head \o body) = Records(n) + 1
      /\ (head \o body)[1] = Token(l, "head", n)
      /\ \A k \in 1 .. Records(n) :
           (head \o body)[k + 1] = Token(l, "record", k)
  <2>1. /\ head \o body \in Seq(Tokens)
        /\ Len(head \o body) = 1 + Records(n)
        /\ (head \o body)[1] = head[1]
        /\ \A k \in 1 .. Records(n) : (head \o body)[1 + k] = body[k]
    <3>1. /\ head \o body \in Seq(Tokens)
          /\ Len(head \o body) = Len(head) + Len(body)
          /\ \A j \in 1 .. Len(head) : (head \o body)[j] = head[j]
          /\ \A j \in 1 .. Len(body) :
               (head \o body)[Len(head) + j] = body[j]
      BY <1>3, <1>5, Joined, Zenon
    <3> QED
      BY <1>3, <1>5, <3>1
  <2>2. \A k \in 1 .. Records(n) : 1 + k = k + 1
    BY <1>1
  <2> QED
    BY <1>1, <1>3, <1>5, <2>1, <2>2
<1> DEFINE front == head \o body
<1> HIDE DEF front
<1>8. /\ front \in Seq(Tokens) /\ Len(front) = Records(n) + 1
      /\ front[1] = Token(l, "head", n)
      /\ \A k \in 1 .. Records(n) : front[k + 1] = Token(l, "record", k)
  BY <1>7 DEF front
<1>9. ListTokens(l, n) = front \o tail
  BY <1>6 DEF front
<1>10. /\ front \o tail \in Seq(Tokens)
       /\ Len(front \o tail) = Records(n) + 2
       /\ \A k \in 1 .. Records(n) + 1 : (front \o tail)[k] = front[k]
       /\ (front \o tail)[Records(n) + 2] = tail[1]
  <2>1. /\ front \o tail \in Seq(Tokens)
        /\ Len(front \o tail) = Records(n) + 1 + 1
        /\ \A k \in 1 .. Records(n) + 1 : (front \o tail)[k] = front[k]
        /\ (front \o tail)[Records(n) + 1 + 1] = tail[1]
    <3>1. /\ front \o tail \in Seq(Tokens)
          /\ Len(front \o tail) = Len(front) + Len(tail)
          /\ \A j \in 1 .. Len(front) : (front \o tail)[j] = front[j]
          /\ \A j \in 1 .. Len(tail) :
               (front \o tail)[Len(front) + j] = tail[j]
      BY <1>4, <1>8, Joined, Zenon
    <3> QED
      BY <1>4, <1>8, <3>1
  <2>2. Records(n) + 1 + 1 = Records(n) + 2
    BY <1>1
  <2> QED
    BY <2>1, <2>2
<1>11. \A k \in 1 .. Records(n) : k + 1 \in 1 .. Records(n) + 1
  BY <1>1
<1>12. 1 \in 1 .. Records(n) + 1
  BY <1>1
<1> QED
  BY <1>1, <1>4, <1>8, <1>9, <1>10, <1>11, <1>12

\* What is sent comes behind what waits.
LEMMA SendIs ==
  ASSUME TypeOK, WireInv, NEW n \in Sizes, Len(sizes) < MaxLists,
         sizes' = Append(sizes, n),
         wire' = wire \o ListTokens(Len(sizes) + 1, n)
  PROVE  LET l == Len(sizes) + 1
             w == Len(wire)
         IN  /\ l \in 1 .. MaxLists /\ n \in 0 .. MaxTargets
             /\ w \in Nat /\ Records(n) \in Nat
             /\ sizes' \in Seq(Sizes) /\ Len(sizes') = l /\ sizes'[l] = n
             /\ wire' \in Seq(Tokens) /\ Len(wire') = w + Records(n) + 2
             /\ \A j \in 1 .. w : wire'[j] = wire[j]
             /\ wire'[w + 1] = Token(l, "head", n)
             /\ \A k \in 1 .. Records(n) :
                  wire'[w + k + 1] = Token(l, "record", k)
             /\ wire'[w + Records(n) + 2] = Token(l, "tail", n)
<1> DEFINE l == Len(sizes) + 1
           u == ListTokens(l, n)
<1>1. /\ sizes \in Seq(Sizes) /\ wire \in Seq(Tokens) /\ Len(sizes) \in Nat
      /\ l \in 1 .. MaxLists /\ n \in 0 .. MaxTargets
  BY FrameAssumption DEF TypeOK, FrameAssumption
<1>2. sizes' \in Seq(Sizes) /\ Len(sizes') = l /\ sizes'[l] = n
  BY <1>1
<1>3. /\ Records(n) \in Nat /\ u \in Seq(Tokens) /\ Len(u) = Records(n) + 2
      /\ u[1] = Token(l, "head", n)
      /\ \A k \in 1 .. Records(n) : u[k + 1] = Token(l, "record", k)
      /\ u[Records(n) + 2] = Token(l, "tail", n)
  BY <1>1, ListIs
<1> HIDE DEF u
<1>4. wire' = wire \o u
  BY DEF u
<1>5. /\ wire' \in Seq(Tokens) /\ Len(wire') = Len(wire) + Len(u)
      /\ Len(wire) \in Nat
      /\ \A j \in 1 .. Len(wire) : wire'[j] = wire[j]
      /\ \A j \in 1 .. Len(u) : wire'[Len(wire) + j] = u[j]
  <2>1. /\ wire \o u \in Seq(Tokens) /\ Len(wire \o u) = Len(wire) + Len(u)
        /\ \A j \in 1 .. Len(wire) : (wire \o u)[j] = wire[j]
        /\ \A j \in 1 .. Len(u) : (wire \o u)[Len(wire) + j] = u[j]
    BY <1>1, <1>3, Joined, Zenon
  <2>2. Len(wire) \in Nat
    BY <1>1
  <2> QED
    BY <1>4, <2>1, <2>2, Zenon
<1>6. wire'[Len(wire) + 1] = u[1]
  BY <1>3, <1>5
<1>7. \A k \in 1 .. Records(n) : wire'[Len(wire) + k + 1] = u[k + 1]
  <2> TAKE k \in 1 .. Records(n)
  <2>1. k + 1 \in 1 .. Len(u) /\ Len(wire) + k + 1 = Len(wire) + (k + 1)
    BY <1>3, <1>5
  <2> QED
    BY <1>5, <2>1
<1>8. wire'[Len(wire) + Records(n) + 2] = u[Records(n) + 2]
  <2>1. /\ Records(n) + 2 \in 1 .. Len(u)
        /\ Len(wire) + Records(n) + 2 = Len(wire) + (Records(n) + 2)
    BY <1>3, <1>5
  <2> QED
    BY <1>5, <2>1
<1>9. Len(wire') = Len(wire) + Records(n) + 2
  BY <1>3, <1>5
<1> QED
  BY <1>1, <1>2, <1>3, <1>5, <1>6, <1>7, <1>8, <1>9

\* The token at j is one of list l, which begins behind the first w.
OfList(t, j, w, l, n) ==
  /\ t.list = l /\ t.part = "whole"
  /\ \/ j = w + 1 /\ t.kind = "head" /\ t.n = n
     \/ j - w - 1 \in 1 .. Records(n) /\ t.kind = "record" /\ t.n = j - w - 1
     \/ j = w + 1 + Records(n) + 1 /\ t.kind = "tail" /\ t.n = n

\* The tokens of the new list.
LEMMA NewTokens ==
  ASSUME NEW w \in Nat, NEW l, NEW n \in 0 .. MaxTargets, NEW s,
         s[w + 1] = Token(l, "head", n),
         \A k \in 1 .. Records(n) : s[w + k + 1] = Token(l, "record", k),
         s[w + Records(n) + 2] = Token(l, "tail", n),
         NEW j \in 1 .. w + Records(n) + 2, j > w
  PROVE  OfList(s[j], j, w, l, n)
<1> DEFINE a == j - w - 1
<1>1. Records(n) \in Nat
  BY RecordsTyped
<1>2. \/ j = w + 1
      \/ j = w + Records(n) + 2 /\ j = w + 1 + Records(n) + 1
      \/ a \in 1 .. Records(n) /\ j = w + a + 1
  BY <1>1
<1>3. CASE j = w + 1
  BY <1>3 DEF OfList, Token
<1>4. CASE j = w + Records(n) + 2 /\ j = w + 1 + Records(n) + 1
  BY <1>4 DEF OfList, Token
<1>5. CASE a \in 1 .. Records(n) /\ j = w + a + 1
  <2>1. s[j] = Token(l, "record", a)
    BY <1>5
  <2> QED
    BY <1>5, <2>1 DEF OfList, Token
<1> QED
  BY <1>2, <1>3, <1>4, <1>5

\* A list behind others that are complete leaves the sequence in shape.
LEMMA AddedShape ==
  ASSUME NEW s \in Seq(Tokens), NEW t \in Seq(Tokens), NEW l \in Nat,
         NEW n \in 0 .. MaxTargets, NEW w \in Nat, w = Len(s),
         Len(t) = w + Records(n) + 2,
         \A j, k \in 1 .. w : InShape(s, j, k),
         \A j \in 1 .. w :
           /\ t[j] = s[j] /\ s[j].list < l
           /\ s[j].kind = "head" => j + Records(s[j].n) + 1 <= w,
         \A j \in 1 .. Len(t) : j > w => OfList(t[j], j, w, l, n),
         NEW j \in 1 .. Len(t), NEW k \in 1 .. Len(t)
  PROVE  InShape(t, j, k)
<1> DEFINE R == Records(n)
<1>1. R \in Nat
  BY RecordsTyped
<1>2. /\ t[j] \in Tokens /\ t[k] \in Tokens
      /\ t[j].list \in Nat /\ t[k].list \in Nat /\ Records(t[j].n) \in Nat
  <2>1. t[j] \in Tokens /\ t[k] \in Tokens
    OBVIOUS
  <2> QED
    BY <2>1, Fields
<1>3. CASE j <= w /\ k <= w
  <2>1. InShape(s, j, k) /\ t[j] = s[j] /\ t[k] = s[k]
    BY <1>3
  <2> QED
    BY <2>1 DEF InShape
<1>4. CASE j <= w /\ k > w
  <2>1. /\ t[j].kind = "head" => j + Records(t[j].n) + 1 <= w
        /\ t[j].list < l
        /\ OfList(t[k], k, w, l, n)
    BY <1>4
  <2>2. t[k].list = l /\ (k = w + 1 => t[k].kind = "head")
    BY <1>1, <2>1 DEF OfList
  <2>3. k = j + 1 => k = w + 1
    BY <1>4
  <2>4. t[j].kind = "head" => k - j > Records(t[j].n) + 1
    BY <1>2, <1>4, <2>1
  <2> QED
    BY <1>2, <1>4, <2>1, <2>2, <2>3, <2>4 DEF InShape
<1>5. CASE j > w /\ k <= w
  BY <1>2, <1>5 DEF InShape
<1>6. CASE j > w /\ k > w
  <2>1. OfList(t[j], j, w, l, n) /\ OfList(t[k], k, w, l, n)
    BY <1>6
  <2>2. t[j].list = t[k].list
    BY <2>1 DEF OfList
  <2>4. t[k].kind = "head" => k = w + 1
    BY <2>1 DEF OfList
  <2>5. t[j].kind = "head" => j = w + 1 /\ t[j].n = n
    BY <2>1 DEF OfList
  <2>6. t[j].kind = "tail" => j = w + 1 + R + 1
    BY <2>1 DEF OfList
  <2>7. j \in Nat /\ k \in Nat /\ j <= w + R + 2 /\ k <= w + R + 2
    BY <1>1
  <2>3. /\ k - w - 1 \in 1 .. R => t[k].kind = "record" /\ t[k].n = k - w - 1
        /\ k = w + 1 + R + 1 => t[k].kind = "tail"
    BY <1>1, <1>6, <2>1 DEF OfList
  <2>8. /\ j < k => t[k].kind # "head"
        /\ t[j].kind = "tail" => k # j + 1
    BY <1>1, <1>6, <2>4, <2>6, <2>7
  <2>9. t[j].kind = "head" =>
          /\ k - j \in 1 .. R => /\ k - w - 1 \in 1 .. R
                                 /\ k - w - 1 = k - j
          /\ k = j + R + 1 => k = w + 1 + R + 1
    BY <1>1, <1>6, <2>5, <2>7
  <2>10. t[j].kind = "head" => Records(t[j].n) = R
    BY <2>5
  <2>11. t[j].list <= t[k].list
    BY <1>2, <2>2
  <2> HIDE DEF R
  <2> QED
    BY <2>2, <2>3, <2>8, <2>9, <2>10, <2>11 DEF InShape
<1> QED
  BY <1>3, <1>4, <1>5, <1>6

\* The list that is sent leaves what waits in shape.
LEMMA SendKeepsShape ==
  ASSUME TypeOK, WireInv, MsgInv, NEW n \in Sizes, Len(sizes) < MaxLists,
         sizes' = Append(sizes, n),
         wire' = wire \o ListTokens(Len(sizes) + 1, n), msg' = msg
  PROVE  WireInv' /\ MsgInv'
<1> DEFINE l == Len(sizes) + 1
           w == Len(wire)
           R == Records(n)
           Old(j) == /\ j \in 1 .. w /\ wire'[j] = wire[j]
                     /\ wire[j] \in Tokens /\ wire[j].list \in Nat
                     /\ wire[j].list < l
           New(j) == j > w /\ OfList(wire'[j], j, w, l, n)
<1>1. /\ l \in Nat /\ w \in Nat /\ R \in Nat /\ n \in 0 .. MaxTargets
      /\ wire \in Seq(Tokens) /\ msg \in Seq(Tokens)
      /\ wire' \in Seq(Tokens) /\ Len(wire') = w + R + 2
      /\ Len(sizes') = l /\ sizes'[l] = n /\ MaxTargets \in Nat
  <2>1. wire \in Seq(Tokens) /\ msg \in Seq(Tokens) /\ sizes \in Seq(Sizes)
    BY DEF TypeOK
  <2>2. MaxTargets \in Nat
    BY RecordsTyped
  <2>3. /\ l \in 1 .. MaxLists /\ n \in 0 .. MaxTargets
        /\ w \in Nat /\ R \in Nat
        /\ Len(sizes') = l /\ sizes'[l] = n
        /\ wire' \in Seq(Tokens) /\ Len(wire') = w + R + 2
    BY SendIs
  <2>4. l \in Nat
    BY <2>3
  <2> QED
    BY <2>1, <2>2, <2>3, <2>4
<1>2. ASSUME NEW j \in 1 .. Len(wire')
      PROVE  Old(j) \/ New(j)
  <2>1. CASE j > w
    <3>1. /\ w \in Nat /\ n \in 0 .. MaxTargets
          /\ Len(wire') = w + R + 2
          /\ wire'[w + 1] = Token(l, "head", n)
          /\ \A k \in 1 .. R : wire'[w + k + 1] = Token(l, "record", k)
          /\ wire'[w + R + 2] = Token(l, "tail", n)
      BY SendIs
    <3>2. OfList(wire'[j], j, w, l, n)
      BY <2>1, <3>1, NewTokens
    <3> QED
      BY <2>1, <3>2
  <2>2. CASE j <= w
    <3>1. j \in 1 .. w /\ wire'[j] = wire[j]
      BY <1>1, <2>2, SendIs
    <3>2. wire[j] \in Tokens /\ wire[j].list <= Len(sizes)
      BY <1>1, <3>1 DEF WireInv, Listed, Genuine
    <3>3. wire[j].list \in Nat
      BY <3>2, Fields
    <3> QED
      BY <1>1, <3>1, <3>2, <3>3
  <2> QED
    BY <1>1, <2>1, <2>2
<1>3. \A j \in 1 .. Len(wire) : Genuine(wire[j])'
  <2>1. Listed(wire)
    BY DEF WireInv
  <2>2. \A t \in Tokens : Genuine(t) => Genuine(t)'
    BY SizesGrow
  <2>3. \A j \in 1 .. Len(wire) : wire[j] \in Tokens /\ Genuine(wire[j])
    BY <1>1, <2>1 DEF Listed
  <2>4. \A j \in 1 .. Len(wire) : wire'[j] = wire[j]
    BY <1>1, SendIs
  <2> QED
    BY <2>2, <2>3, <2>4 DEF Genuine
<1>4. ASSUME NEW j \in 1 .. Len(wire')
      PROVE  Genuine(wire[j])'
  <2>1. CASE Old(j)
    BY <1>3, <2>1
  <2>2. CASE New(j)
    <3>1. /\ wire'[j].list = l
          /\ wire'[j].kind = "record" => wire'[j].n \in 1 .. R
          /\ wire'[j].kind # "record" => wire'[j].n = n
      BY <2>2 DEF OfList
    <3>2. l = Len(sizes') /\ sizes'[wire'[j].list] = n /\ l \in Nat
      BY <1>1, <3>1
    <3> HIDE DEF l
    <3>3. wire'[j].list <= Len(sizes')
      BY <3>1, <3>2
    <3> QED
      BY <3>1, <3>2, <3>3 DEF Genuine
  <2> QED
    BY <1>2, <2>1, <2>2
\* How the tokens follow one another.
<1>5. \A j, k \in 1 .. Len(wire') : InShape(wire', j, k)
  <2>1. /\ \A j, k \in 1 .. w : InShape(wire, j, k)
        /\ \A j \in 1 .. w :
             wire[j].kind = "head" => j + Records(wire[j].n) + 1 <= w
    BY DEF WireInv, Listed
  <2>2. ASSUME NEW j \in 1 .. w
        PROVE  wire'[j] = wire[j] /\ wire[j].list < l
    <3>1. j \in 1 .. Len(wire') /\ ~(j > w)
      BY <1>1
    <3> QED
      BY <1>2, <3>1
  <2>3. \A j \in 1 .. Len(wire') : j > w => OfList(wire'[j], j, w, l, n)
    BY <1>2
  <2> QED
    BY <1>1, <2>1, <2>2, <2>3, AddedShape
<1>6. Listed(wire)'
  BY <1>4, <1>5 DEF Listed, InShape
<1>7. ASSUME NEW j \in 1 .. Len(wire')
      PROVE  /\ wire'[j].kind = "head"
                  => j + Records(wire'[j].n) + 1 <= Len(wire')
             /\ wire'[j].part \in {"whole", "rest"}
             /\ j > 1 => wire'[j].part = "whole"
  <2>1. CASE Old(j)
    <3>1. /\ wire[j].kind = "head" => j + Records(wire[j].n) + 1 <= w
          /\ wire[j].part \in {"whole", "rest"}
          /\ j > 1 => wire[j].part = "whole"
          /\ Records(wire[j].n) \in Nat
      BY <2>1, Fields DEF WireInv
    <3> QED
      BY <1>1, <2>1, <3>1
  <2>2. CASE New(j)
    <3>1. /\ wire'[j].kind = "head" => j = w + 1 /\ wire'[j].n = n
          /\ wire'[j].part = "whole"
      BY <1>1, <2>2 DEF OfList
    <3>2. wire'[j].kind = "head" => j + R + 1 = Len(wire')
      BY <1>1, <3>1
    <3>3. Len(wire') \in Nat
      BY <1>1
    <3> QED
      BY <3>1, <3>2, <3>3
  <2> QED
    BY <1>2, <2>1, <2>2
<1>8. WireInv'
  BY <1>6, <1>7 DEF WireInv
<1>9. Listed(msg)'
  <2>1. Listed(msg)
    BY DEF MsgInv
  <2>2. \A t \in Tokens : Genuine(t) => Genuine(t)'
    BY SizesGrow
  <2>3. \A j \in 1 .. Len(msg) : msg[j] \in Tokens /\ Genuine(msg[j])
    BY <1>1, <2>1 DEF Listed
  <2>4. \A j \in 1 .. Len(msg) : Genuine(msg[j])'
    BY <2>2, <2>3 DEF Genuine
  <2> QED
    BY <2>1, <2>4 DEF Listed, InShape
<1>10. ASSUME NEW j \in 1 .. Len(msg), NEW k \in 1 .. Len(wire'),
              wire'[k].kind = "head", Visible(wire'[k])
       PROVE  msg[j].list < wire'[k].list
  <2>1. CASE Old(k)
    BY <1>10, <2>1 DEF MsgInv
  <2>2. CASE New(k)
    <3>1. msg[j] \in Tokens /\ msg[j].list <= Len(sizes)
      BY <1>1 DEF MsgInv, Listed, Genuine
    <3>2. msg[j].list \in Nat /\ l = Len(sizes) + 1 /\ Len(sizes) \in Nat
      BY <3>1, Fields DEF l, TypeOK
    <3>3. wire'[k].list = l
      BY <2>2 DEF OfList
    <3> QED
      BY <3>1, <3>2, <3>3
  <2> QED
    BY <1>2, <2>1, <2>2
<1>11. MsgInv'
  BY <1>9, <1>10 DEF MsgInv, Visible
<1> QED
  BY <1>8, <1>11

-----------------------------------------------------------------------------
(* The types, and the decoder's place in the message.                      *)

\* A mark is seen for certain, perhaps, or not at all.
LEMMA SeenIs ==
  ASSUME NEW t, NEW kind
  PROVE  /\ TRUE \in Seen(t, kind) <=> t.kind = kind /\ Visible(t)
         /\ FALSE \in Seen(t, kind) <=>
              t.kind # kind \/ ~Visible(t) \/ t.part = "torn"
<1>1. CASE t.kind # kind \/ t.part = "rest"
  BY <1>1 DEF Seen, Visible
<1>2. CASE t.kind = kind /\ t.part # "rest" /\ t.part = "torn"
  BY <1>2 DEF Seen, Visible
<1>3. CASE t.kind = kind /\ t.part # "rest" /\ t.part # "torn"
  BY <1>3 DEF Seen, Visible
<1> QED
  BY <1>1, <1>2, <1>3

LEMMA NoMessage ==
  /\ <<>> \in Seq(Tokens) /\ Len(<<>>) = 0
  /\ Listed(<<>>)
BY DEF Listed

\* The largest notify cycle.
LEMMA CycleTop == TopCycle \in Nat /\ TopCycle \in Cycles
                  /\ \A c \in Cycles : c <= TopCycle /\ c \in Nat
BY FrameAssumption DEF FrameAssumption, TopCycle

\* Where a tail is seen, the records between it and the head are those of one
\* list, in order.
LEMMA AtTail ==
  ASSUME TypeInv, phase = "list", i <= Len(msg),
         TRUE \in Seen(msg[i], "tail")
  PROVE  /\ i = start + Records(entries) /\ Records(entries) \in Nat
         /\ start - 1 \in 1 .. Len(msg) /\ i \in 1 .. Len(msg)
         /\ msg[i].list = msg[start - 1].list
         /\ msg[start - 1].list \in 1 .. MaxLists
         /\ \A k \in 1 .. Records(entries) :
              /\ start + k - 1 \in 1 .. Len(msg)
              /\ msg[start + k - 1].list = msg[start - 1].list
              /\ msg[start + k - 1].n = k
<1>1. /\ msg \in Seq(Tokens) /\ i \in Nat /\ i >= 1 /\ i \in 1 .. Len(msg)
      /\ entries \in 0 .. MaxTargets
  BY DEF TypeInv, TypeOK
<1>2. /\ start \in 2 .. i
      /\ msg[start - 1].kind = "head" /\ entries = msg[start - 1].n
      /\ i <= start + Records(entries)
  BY <1>1 DEF TypeInv, PlaceInv, InList
<1>3. Records(entries) \in Nat
  BY <1>1, RecordsTyped
<1>4. start - 1 \in 1 .. Len(msg) /\ start \in Nat /\ start >= 2
  BY <1>1, <1>2
<1>5. \A k \in 1 .. Len(msg) : InShape(msg, start - 1, k)
  BY <1>4 DEF TypeInv, MsgInv, Listed
<1>6. \A k \in 1 .. Len(msg) :
        k - (start - 1) \in 1 .. Records(entries) =>
          /\ msg[k].kind = "record" /\ msg[k].list = msg[start - 1].list
          /\ msg[k].n = k - (start - 1)
  BY <1>2, <1>5 DEF InShape
<1>7. msg[i].kind = "tail"
  BY SeenIs
<1>8. i = start + Records(entries)
  <2>1. CASE i < start + Records(entries)
    <3>1. i - (start - 1) \in 1 .. Records(entries)
      BY <1>1, <1>2, <1>3, <1>4, <2>1
    <3> QED
      BY <1>1, <1>6, <1>7, <3>1
  <2> QED
    BY <1>1, <1>2, <1>3, <1>4, <2>1
<1>9. msg[i].list = msg[start - 1].list
  <2>1. i = (start - 1) + Records(msg[start - 1].n) + 1
    BY <1>2, <1>3, <1>4, <1>8
  <2> QED
    BY <1>1, <1>2, <1>5, <2>1 DEF InShape
<1>10. ASSUME NEW k \in 1 .. Records(entries)
       PROVE  /\ start + k - 1 \in 1 .. Len(msg)
              /\ msg[start + k - 1].list = msg[start - 1].list
              /\ msg[start + k - 1].n = k
  <2>1. PICK p \in 1 .. Len(msg) : p = start + k - 1 /\ p - (start - 1) = k
    BY <1>1, <1>3, <1>4, <1>8
  <2> QED
    BY <1>6, <2>1
<1>11. msg[start - 1].list \in 1 .. MaxLists
  BY <1>1, <1>4, Fields
<1> QED
  BY <1>1, <1>3, <1>4, <1>8, <1>9, <1>10, <1>11

\* What is decoded has the type of a list.
LEMMA UnpackedTyped ==
  ASSUME TypeInv, phase = "list", i <= Len(msg),
         TRUE \in Seen(msg[i], "tail")
  PROVE  Unpacked \in [nr : 0 .. MaxTargets,
                       targets : [1 .. MaxTargets -> Targets \cup {Zero}]]
<1>1. /\ entries \in 0 .. MaxTargets /\ MaxTargets \in Nat
      /\ decoded.targets \in [1 .. MaxTargets -> Targets \cup {Zero}]
  BY RecordsTyped DEF TypeInv, TypeOK
<1>2. ASSUME NEW k \in 1 .. MaxTargets, k <= Records(entries)
      PROVE  Target(msg[start + k - 1].list, msg[start + k - 1].n) \in Targets
  <2>1. k \in 1 .. Records(entries)
    BY <1>1, <1>2, RecordsTyped
  <2>2. /\ msg[start + k - 1].list \in 1 .. MaxLists
        /\ msg[start + k - 1].n = k
    BY <2>1, AtTail
  <2> QED
    BY <2>2 DEF Target, Targets
<1> QED
  BY <1>1, <1>2 DEF Unpacked

\* smartCopy stays within the array.
LEMMA CopiedTyped ==
  ASSUME TypeOK
  PROVE  Copied \in Seq(Targets \cup {Zero}) /\ Len(Copied) <= MaxTargets
<1> DEFINE T == Targets \cup {Zero}
           m == MinOf(decoded.nr, MaxTargets - Len(build))
<1>1. /\ build \in Seq(T) /\ Len(build) <= MaxTargets /\ MaxTargets \in Nat
      /\ decoded.nr \in 0 .. MaxTargets
      /\ decoded.targets \in [1 .. MaxTargets -> T]
  BY RecordsTyped DEF TypeOK
<1> HIDE DEF T
<1>2. /\ m \in Nat /\ m <= decoded.nr /\ m <= MaxTargets - Len(build)
  BY <1>1 DEF MinOf
<1>3. decoded.targets \in Seq(T) /\ Len(decoded.targets) = MaxTargets
  BY <1>1
<1>4. Found \in Seq(T) /\ Len(Found) = decoded.nr
  BY <1>1, <1>3 DEF Found
<1> HIDE DEF m
<1>5. SubSeq(Found, 1, m) \in Seq(T) /\ Len(SubSeq(Found, 1, m)) = m
  BY <1>1, <1>2, <1>4
<1>6. Copied = build \o SubSeq(Found, 1, m)
  BY DEF Copied, m
<1>7. Copied \in Seq(T) /\ Len(Copied) = Len(build) + m
  BY <1>1, <1>5, <1>6
<1> QED
  BY <1>1, <1>2, <1>7 DEF T

LEMMA FoundNothing ==
  NoTargets \in [nr : 0 .. MaxTargets,
                 targets : [1 .. MaxTargets -> Targets \cup {Zero}]]
BY RecordsTyped DEF NoTargets

\* At the start nothing was sent or read.
LEMMA TypeInit == Init => TypeInv
<1> SUFFICES ASSUME Init PROVE TypeInv
  OBVIOUS
<1>1. TypeOK
  BY FoundNothing, RecordsTyped, CycleTop, FrameAssumption
     DEF Init, TypeOK, Phases, FrameAssumption
<1>2. WireInv /\ MsgInv
  BY NoMessage DEF Init, WireInv, MsgInv
<1>3. PlaceInv
  BY DEF Init, PlaceInv, Decoding
<1> QED
  BY <1>1, <1>2, <1>3 DEF TypeInv

\* The device's step.
LEMMA TypeSend == TypeInv /\ Send => TypeInv'
<1> SUFFICES ASSUME TypeInv, Send PROVE TypeInv'
  OBVIOUS
<1>1. PICK n \in Sizes : /\ Len(sizes) < MaxLists /\ sizes' = Append(sizes, n)
                         /\ wire' = wire \o ListTokens(Len(sizes) + 1, n)
  BY DEF Send
<1>2. UNCHANGED <<phase, decodeVars, build, notifyVars>>
  BY DEF Send
<1>3. TypeOK /\ WireInv /\ MsgInv /\ PlaceInv
  BY DEF TypeInv
<1>4. sizes' \in Seq(Sizes) /\ wire' \in Seq(Tokens)
  BY <1>1, <1>3, SendIs
<1>5. TypeOK'
  BY <1>2, <1>3, <1>4 DEF TypeOK, decodeVars, notifyVars
<1>6. WireInv' /\ MsgInv'
  BY <1>1, <1>2, <1>3, SendKeepsShape DEF decodeVars
<1>7. PlaceInv'
  BY <1>2, <1>3 DEF PlaceInv, Decoding, InList, AtHead, decodeVars
<1> QED
  BY <1>5, <1>6, <1>7 DEF TypeInv

\* What is sent and what was read stay in shape if they stay.
LEMMA ShapeStays ==
  ASSUME WireInv, MsgInv, UNCHANGED <<sizes, wire, msg>>
  PROVE  WireInv' /\ MsgInv'
BY DEF WireInv, MsgInv, Listed, Genuine, InShape

\* The reads.
LEMMA TypeReads ==
  TypeInv /\ (Start \/ GiveUp \/ Receive \/ NoData \/ ReadFails) => TypeInv'
<1> SUFFICES ASSUME TypeInv, Start \/ GiveUp \/ Receive \/ NoData \/ ReadFails
             PROVE  TypeInv'
  OBVIOUS
<1>1. TypeOK /\ WireInv /\ MsgInv /\ PlaceInv
  BY DEF TypeInv
<1>2. CASE Start \/ GiveUp \/ NoData
  <2>1. /\ UNCHANGED <<wireVars, decodeVars, build>>
        /\ UNCHANGED <<interval, setting, sets, out>>
        /\ cycle' \in {cycle, setting}
        /\ ~Decoding /\ ~Decoding' /\ phase' \in Phases /\ phase' # "copy"
        /\ phase' \notin {"begin", "list"}
    BY <1>2 DEF Start, GiveUp, NoData, Move, LoadCycle, notifyVars, Decoding,
                Phases
  <2>2. TypeOK'
    BY <1>1, <2>1 DEF TypeOK, wireVars, decodeVars
  <2>3. WireInv' /\ MsgInv'
    BY <1>1, <2>1, ShapeStays DEF wireVars, decodeVars
  <2>4. PlaceInv'
    BY <1>1, <2>1 DEF PlaceInv, decodeVars
  <2> QED
    BY <2>2, <2>3, <2>4 DEF TypeInv
<1>3. CASE Receive
  <2>1. PICK k \in 0 .. Len(wire), cut \in Cuts :
          CanRead(k, cut) /\ msg' = Taken(k, cut) /\ wire' = Left(k, cut)
    BY <1>3 DEF Receive
  <2>2. /\ phase = "poll" /\ phase' = "begin" /\ cycle' = setting
        /\ UNCHANGED <<sizes, i, entries, start, decoded, result, build>>
        /\ UNCHANGED <<interval, setting, sets, out>>
    BY <1>3 DEF Receive, Move, LoadCycle
  <2>3. WireInv' /\ wire' \in Seq(Tokens)
    BY <1>1, <2>1, <2>2, LeaveWire
  <2>4. MsgInv' /\ msg' \in Seq(Tokens) /\ msg' # <<>> /\ Len(msg') > 0
    BY <1>1, <2>1, <2>2, TakeMsg
  <2>5. i = 1 /\ start = 0 /\ Len(msg') \in Nat
    BY <1>1, <2>2, <2>4 DEF PlaceInv, Decoding
  <2>6. i' \in 1 .. Len(msg') + 1 /\ start' \in 0 .. Len(msg') + 1
    BY <2>2, <2>4, <2>5
  <2>7. TypeOK'
    BY <1>1, <2>2, <2>3, <2>4, <2>6 DEF TypeOK, Phases
  <2>8. PlaceInv'
    BY <2>2, <2>4, <2>5 DEF PlaceInv, Decoding
  <2> QED
    BY <2>3, <2>4, <2>7, <2>8 DEF TypeInv
<1>4. CASE ReadFails
  <2>1. PICK k \in 0 .. Len(wire), cut \in Cuts :
          CanRead(k, cut) /\ wire' = Left(k, cut)
    BY <1>4 DEF ReadFails
  <2>2. /\ phase = "poll" /\ phase' = "notify" /\ cycle' = setting
        /\ UNCHANGED <<sizes, decodeVars, build>>
        /\ UNCHANGED <<interval, setting, sets, out>>
    BY <1>4 DEF ReadFails, Move, LoadCycle
  <2>3. WireInv' /\ wire' \in Seq(Tokens)
    BY <1>1, <2>1, <2>2, LeaveWire
  <2>4. msg = <<>> /\ msg' = <<>>
    BY <1>1, <2>2 DEF PlaceInv, Decoding, decodeVars
  <2>5. MsgInv'
    BY <2>4, NoMessage DEF MsgInv, Listed
  <2>6. TypeOK'
    BY <1>1, <2>2, <2>3 DEF TypeOK, Phases, decodeVars
  <2>7. PlaceInv'
    BY <1>1, <2>2 DEF PlaceInv, Decoding, decodeVars
  <2> QED
    BY <2>3, <2>5, <2>6, <2>7 DEF TypeInv
<1> QED
  BY <1>2, <1>3, <1>4

\* The decoder's steps.
LEMMA TypeDecodes ==
  TypeInv /\ (BeginList \/ NotAHead \/ SkipRecord \/ EndList \/ Exhausted)
    => TypeInv'
<1> SUFFICES ASSUME TypeInv,
                    \/ BeginList \/ NotAHead \/ SkipRecord \/ EndList
                    \/ Exhausted
             PROVE  TypeInv'
  OBVIOUS
<1>1. TypeOK /\ WireInv /\ MsgInv /\ PlaceInv
  BY DEF TypeInv
<1>2. /\ UNCHANGED <<wireVars, msg, build, notifyVars>>
      /\ Decoding /\ Decoding'
  BY DEF BeginList, NotAHead, SkipRecord, EndList, Exhausted, Move, Decoding,
         decodeVars
<1>3. WireInv' /\ MsgInv' /\ AtHead' = AtHead
  BY <1>1, <1>2, ShapeStays DEF wireVars, AtHead
<1>4. /\ msg \in Seq(Tokens) /\ i \in 1 .. Len(msg) + 1 /\ Len(msg) \in Nat
      /\ msg # <<>> /\ (i > 1 => AtHead)
      /\ \A j \in 1 .. Len(msg) : msg[j] \in Tokens /\ msg[j].n \in 0 .. MaxTargets
  <2>1. msg \in Seq(Tokens) /\ i \in 1 .. Len(msg) + 1
    BY <1>1 DEF TypeOK
  <2> QED
    BY <1>1, <1>2, <2>1, Fields DEF PlaceInv
<1>5. CASE BeginList
  <2>1. /\ phase = "begin" /\ phase' = "list" /\ i <= Len(msg)
        /\ msg[i].kind = "head" /\ Visible(msg[i])
        /\ entries' = msg[i].n /\ start' = i + 1 /\ i' = i + 1
        /\ UNCHANGED <<decoded, result>>
    BY <1>5, SeenIs DEF BeginList, Move
  <2>2. /\ i \in 1 .. Len(msg) /\ entries' \in 0 .. MaxTargets
        /\ i' \in 1 .. Len(msg) + 1 /\ start' \in 0 .. Len(msg) + 1
    BY <1>4, <2>1
  <2>3. TypeOK'
    BY <1>1, <1>2, <2>1, <2>2 DEF TypeOK, Phases, wireVars, notifyVars
  <2>4. AtHead
    <3>1. i = 1 => AtHead
      BY <1>4, <1>5 DEF BeginList, AtHead
    <3> QED
      BY <1>4, <3>1
  <2>5. InList'
    <3>1. start' \in 2 .. i' /\ start' - 1 = i
      BY <1>4, <2>1
    <3>2. Records(entries') \in Nat
      BY <2>2, RecordsTyped
    <3> QED
      BY <1>2, <1>4, <2>1, <3>1, <3>2 DEF InList
  <2>6. PlaceInv'
    BY <1>2, <1>3, <1>4, <2>1, <2>4, <2>5 DEF PlaceInv
  <2> QED
    BY <1>3, <2>3, <2>6 DEF TypeInv
<1>6. CASE NotAHead
  <2>1. /\ phase = "begin" /\ phase' = "copy" /\ i <= Len(msg)
        /\ msg[i].kind # "head" \/ ~Visible(msg[i]) \/ msg[i].part = "torn"
        /\ result' \in {"ok", "error"}
        /\ UNCHANGED <<i, entries, start, decoded>>
    BY <1>6, SeenIs DEF NotAHead, Move
  <2>2. TypeOK'
    BY <1>1, <1>2, <2>1 DEF TypeOK, Phases, wireVars, notifyVars
  <2>3. i \in 1 .. Len(msg) /\ (msg[i].part = "torn" => i = Len(msg))
    <3>1. i \in 1 .. Len(msg)
      BY <1>4, <2>1
    <3>2. i < Len(msg) => msg[i].part \in {"whole", "rest"}
      BY <1>1, <3>1 DEF MsgInv
    <3> QED
      BY <1>4, <3>1, <3>2
  <2>4. CASE i = 1
    <3>1. AtHead => msg[1].kind = "head" /\ Visible(msg[1])
      BY SeenIs DEF AtHead
    <3>2. AtHead => Len(msg) = 1 /\ msg[1].kind = "head"
      BY <2>1, <2>3, <2>4, <3>1
    <3> QED
      BY <1>2, <1>3, <1>4, <2>1, <2>2, <2>4, <3>2 DEF PlaceInv, TypeInv
  <2>5. CASE i # 1
    <3>1. i - 1 \in 1 .. Len(msg) /\ i > 1
      BY <1>4, <2>3, <2>5
    <3>2. msg[i - 1].kind = "tail"
      BY <1>1, <2>1, <3>1 DEF PlaceInv
    <3>3. InShape(msg, i - 1, i)
      BY <1>1, <2>3, <3>1 DEF MsgInv, Listed
    <3>4. msg[i].kind = "head" /\ Visible(msg[i])
      BY <1>1, <1>4, <2>3, <3>1, <3>2, <3>3 DEF InShape, MsgInv
    <3>5. i = Len(msg)
      BY <2>1, <2>3, <3>4
    <3>6. \A r \in 1 .. Len(msg) : Sure(msg[r]) => r < i
      BY <1>4, <3>4, <3>5 DEF Sure
    <3> QED
      BY <1>2, <1>3, <1>4, <2>1, <2>2, <3>6 DEF PlaceInv, TypeInv
  <2> QED
    BY <2>4, <2>5
<1>7. CASE SkipRecord
  <2>1. /\ phase = "list" /\ phase' = "list" /\ i <= Len(msg) /\ i' = i + 1
        /\ msg[i].kind # "tail" \/ ~Visible(msg[i]) \/ msg[i].part = "torn"
        /\ UNCHANGED <<entries, start, decoded, result>>
    BY <1>7, SeenIs DEF SkipRecord
  <2>2. i' \in 1 .. Len(msg) + 1 /\ i \in 1 .. Len(msg)
    BY <1>4, <2>1
  <2>3. TypeOK'
    BY <1>1, <1>2, <2>1, <2>2 DEF TypeOK, wireVars, notifyVars
  <2>4. /\ start \in 2 .. i /\ start \in Nat
        /\ msg[start - 1].kind = "head" /\ Visible(msg[start - 1])
        /\ entries = msg[start - 1].n
        /\ i <= start + Records(entries)
    BY <1>1, <1>4, <2>1 DEF PlaceInv, InList
  <2>5. Records(entries) \in Nat /\ i \in Nat
    <3>1. entries \in 0 .. MaxTargets
      BY <1>1 DEF TypeOK
    <3> QED
      BY <1>4, <3>1, RecordsTyped
  <2>6. i' <= start + Records(entries) \/ i' = Len(msg) + 1
    <3>1. CASE i < start + Records(entries)
      BY <1>4, <2>1, <2>4, <2>5, <3>1
    <3>2. CASE i = start + Records(entries)
      <4>1. /\ start - 1 \in 1 .. Len(msg)
            /\ i = (start - 1) + Records(msg[start - 1].n) + 1
        <5>1. Records(msg[start - 1].n) = Records(entries)
          BY <2>4
        <5>2. start - 1 \in 1 .. Len(msg)
          BY <1>4, <2>1, <2>4, <2>5
        <5>3. i = (start - 1) + Records(entries) + 1
          BY <2>4, <2>5, <3>2
        <5> QED
          BY <5>1, <5>2, <5>3
      <4>2. InShape(msg, start - 1, i)
        BY <1>1, <2>2, <4>1 DEF MsgInv, Listed
      <4>3. msg[i].kind = "tail"
        BY <2>4, <4>1, <4>2 DEF InShape
      <4>4. /\ i > 1 => Visible(msg[i])
            /\ i < Len(msg) => msg[i].part \in {"whole", "rest"}
        BY <1>1, <2>2 DEF MsgInv
      <4>5. i > 1
        BY <1>4, <2>4
      <4>6. ~(i < Len(msg))
        BY <2>1, <4>3, <4>4, <4>5
      <4> QED
        BY <1>4, <2>1, <2>2, <4>6
    <3>3. i < start + Records(entries) \/ i = start + Records(entries)
      BY <2>4, <2>5
    <3> QED
      BY <3>1, <3>2, <3>3
  <2>7. start \in 2 .. i' /\ AtHead
    BY <1>4, <2>1, <2>4
  <2>8. InList'
    BY <1>2, <2>1, <2>4, <2>6, <2>7 DEF InList
  <2>9. PlaceInv'
    BY <1>2, <1>3, <1>4, <2>1, <2>7, <2>8 DEF PlaceInv
  <2> QED
    BY <1>3, <2>3, <2>9 DEF TypeInv
<1>8. CASE EndList
  <2>1. /\ phase = "list" /\ phase' = "begin" /\ i <= Len(msg) /\ i' = i + 1
        /\ TRUE \in Seen(msg[i], "tail") /\ decoded' = Unpacked
        /\ UNCHANGED <<entries, start, result>>
    BY <1>8 DEF EndList, Move
  <2>2. /\ i' \in 1 .. Len(msg) + 1 /\ i \in 1 .. Len(msg) /\ i' - 1 = i
        /\ msg[i].kind = "tail"
    <3>1. msg[i].kind = "tail"
      BY <2>1, SeenIs
    <3> QED
      BY <1>4, <2>1, <3>1
  <2>3. decoded' \in [nr : 0 .. MaxTargets,
                      targets : [1 .. MaxTargets -> Targets \cup {Zero}]]
    BY <2>1, UnpackedTyped
  <2>4. TypeOK'
    BY <1>1, <1>2, <2>1, <2>2, <2>3 DEF TypeOK, Phases, wireVars, notifyVars
  <2>5. start \in 2 .. i
    BY <1>1, <2>1 DEF PlaceInv, InList
  <2>6. AtHead
    BY <1>4, <2>5
  <2>7. PlaceInv'
    BY <1>2, <1>3, <1>4, <2>1, <2>2, <2>6 DEF PlaceInv
  <2> QED
    BY <1>3, <2>4, <2>7 DEF TypeInv
<1>9. CASE Exhausted
  <2>1. /\ phase' = "copy" /\ i > Len(msg)
        /\ UNCHANGED <<i, entries, start, decoded, result>>
    BY <1>9 DEF Exhausted, decodeVars
  <2>2. TypeOK'
    BY <1>1, <1>2, <2>1 DEF TypeOK, Phases, wireVars, notifyVars
  <2>3. \A r \in 1 .. Len(msg) : r < i
    BY <1>4, <2>1
  <2>4. PlaceInv'
    BY <1>2, <1>3, <1>4, <2>1, <2>3 DEF PlaceInv
  <2> QED
    BY <1>3, <2>2, <2>4 DEF TypeInv
<1> QED
  BY <1>5, <1>6, <1>7, <1>8, <1>9

\* The steps behind the decoder, and the web form.
LEMMA TypeNotifies ==
  TypeInv /\ (Copy \/ Publish \/ NotDue \/ SetNotify) => TypeInv'
<1> SUFFICES ASSUME TypeInv, Copy \/ Publish \/ NotDue \/ SetNotify
             PROVE  TypeInv'
  OBVIOUS
<1>1. TypeOK /\ WireInv /\ MsgInv /\ PlaceInv
  BY DEF TypeInv
<1>2. CASE Copy
  <2>1. /\ phase' = "notify" /\ build' = Copied
        /\ msg' = <<>> /\ i' = 1 /\ entries' = 0 /\ start' = 0
        /\ result' = "ok" /\ decoded' = NoTargets
        /\ UNCHANGED <<wireVars, notifyVars>>
    BY <1>2 DEF Copy, Move, Fresh
  <2>2. build' \in Seq(Targets \cup {Zero}) /\ Len(build') <= MaxTargets
    BY <1>1, <2>1, CopiedTyped
  <2>3. i' \in 1 .. Len(msg') + 1 /\ start' \in 0 .. Len(msg') + 1
        /\ msg' \in Seq(Tokens) /\ entries' \in 0 .. MaxTargets
    BY <2>1, NoMessage, RecordsTyped
  <2>4. TypeOK'
    BY <1>1, <2>1, <2>2, <2>3, FoundNothing
       DEF TypeOK, Phases, wireVars, notifyVars
  <2>5. WireInv'
    BY <1>1, <2>1 DEF WireInv, Listed, Genuine, InShape, wireVars
  <2>6. MsgInv'
    BY <2>1, NoMessage DEF MsgInv, Listed
  <2>7. PlaceInv'
    BY <2>1 DEF PlaceInv, Decoding
  <2> QED
    BY <2>4, <2>5, <2>6, <2>7 DEF TypeInv
<1>3. CASE Publish \/ NotDue \/ SetNotify
  <2>1. /\ UNCHANGED <<wireVars, decodeVars>> /\ cycle' = cycle
        /\ Decoding' = Decoding
        /\ phase' # phase => ~Decoding
        /\ phase' \in {phase, "poll"}
    BY <1>3 DEF Publish, NotDue, SetNotify, Move, Decoding
  <2>2. /\ interval' \in 0 .. TopCycle + 1 /\ setting' \in Cycles
        /\ sets' \in 0 .. MaxSets
    <3>1. /\ interval \in 0 .. TopCycle + 1 /\ setting \in Cycles
          /\ sets \in 0 .. MaxSets /\ TopCycle \in Nat /\ MaxSets \in Nat
      BY <1>1, CycleTop, FrameAssumption DEF TypeOK, FrameAssumption
    <3>2. CASE Publish
      BY <3>1, <3>2 DEF Publish
    <3>3. CASE NotDue
      BY <3>1, <3>3 DEF NotDue, MinOf
    <3>4. CASE SetNotify
      BY <3>1, <3>4 DEF SetNotify
    <3> QED
      BY <1>3, <3>2, <3>3, <3>4
  <2>3. /\ build' \in Seq(Targets \cup {Zero}) /\ Len(build') <= MaxTargets
        /\ out' \in Seq(Seq(Targets \cup {Zero}))
    <3>1. /\ build \in Seq(Targets \cup {Zero}) /\ Len(build) <= MaxTargets
          /\ out \in Seq(Seq(Targets \cup {Zero})) /\ MaxTargets \in Nat
      BY <1>1, RecordsTyped DEF TypeOK
    <3>2. CASE Publish
      <4>1. build' = <<>> /\ out' = Append(out, build)
        BY <3>2 DEF Publish
      <4> QED
        BY <3>1, <4>1
    <3>3. CASE NotDue \/ SetNotify
      BY <3>1, <3>3 DEF NotDue, SetNotify
    <3> QED
      BY <1>3, <3>2, <3>3
  <2>4. TypeOK'
    BY <1>1, <2>1, <2>2, <2>3 DEF TypeOK, Phases, wireVars, decodeVars
  <2>5. WireInv' /\ MsgInv'
    BY <1>1, <2>1, ShapeStays DEF wireVars, decodeVars
  <2>6. PlaceInv'
    BY <1>1, <2>1 DEF PlaceInv, Decoding, InList, AtHead, decodeVars
  <2> QED
    BY <2>4, <2>5, <2>6 DEF TypeInv
<1> QED
  BY <1>2, <1>3

\* Every step.
LEMMA TypeStep == TypeInv /\ [Next]_vars => TypeInv'
<1> SUFFICES ASSUME TypeInv, [Next]_vars PROVE TypeInv'
  OBVIOUS
<1>1. CASE UNCHANGED vars
  <2>1. TypeOK'
    BY <1>1 DEF TypeInv, TypeOK, vars, wireVars, decodeVars, notifyVars
  <2>2. WireInv' /\ MsgInv'
    BY <1>1, ShapeStays DEF TypeInv, vars, wireVars, decodeVars
  <2>3. PlaceInv'
    BY <1>1 DEF TypeInv, PlaceInv, Decoding, InList, AtHead, vars, decodeVars
  <2> QED
    BY <2>1, <2>2, <2>3 DEF TypeInv
<1> QED
  BY <1>1, TypeSend, TypeReads, TypeDecodes, TypeNotifies DEF Next, Run

LEMMA TypeHolds == Spec => []TypeInv
<1> QED
  BY TypeInit, TypeStep, PTL DEF Spec

\* Whatever the device sends and however the reads cut it, neither list of
\* targets exceeds its array, and the decoder never reads beyond the message.
THEOREM TypeCorrect == Spec => []TypeOK
<1>1. TypeInv => TypeOK
  BY DEF TypeInv
<1> QED
  BY <1>1, TypeHolds, PTL

-----------------------------------------------------------------------------
(* What is decoded.                                                        *)

\* decoded is the list whose head is at p and whose tail is at q, a place that
\* the decoder has passed.
Holds(p, q) ==
  /\ p \in 1 .. Len(msg) /\ q \in 1 .. Len(msg) /\ p < q /\ q < i
  /\ msg[p].kind = "head" /\ Visible(msg[p])
  /\ msg[q].kind = "tail" /\ msg[q].list = msg[p].list
  /\ decoded.nr = sizes[msg[p].list]
  /\ \A k \in 1 .. decoded.nr : decoded.targets[k] = Target(msg[p].list, k)

\* It is the last list the decoder has passed, if there is one.
DecodedInv ==
  NoClipping /\ Decoding =>
    \/ decoded = NoTargets /\ \A r \in 1 .. Len(msg) : Sure(msg[r]) => r >= i
    \/ \E p, q \in 1 .. Len(msg) :
         /\ Holds(p, q)
         /\ \A r \in 1 .. Len(msg) : Sure(msg[r]) /\ r < i => r <= q

\* The lists that were sent stay what they are.
Later ==
  /\ Len(sizes') >= Len(sizes) /\ Len(sizes) \in Nat /\ Len(sizes') \in Nat
  /\ \A l \in 1 .. Len(sizes) : sizes'[l] = sizes[l] /\ sizes[l] \in Nat
  /\ NoClipping' => NoClipping

LEMMA SentStays ==
  ASSUME TypeInv, [Next]_vars
  PROVE  Later
<1>1. /\ sizes \in Seq(Sizes) /\ Sizes \subseteq 0 .. MaxTargets
      /\ \A l \in 1 .. Len(sizes) : sizes[l] \in Nat
  <2>1. sizes \in Seq(Sizes) /\ Sizes \subseteq 0 .. MaxTargets
    BY FrameAssumption DEF TypeInv, TypeOK, FrameAssumption
  <2>2. MaxTargets \in Nat
    BY RecordsTyped
  <2>3. \A n \in Sizes : n \in Nat
    BY <2>1, <2>2
  <2>4. \A l \in 1 .. Len(sizes) : sizes[l] \in Sizes
    BY <2>1
  <2> QED
    BY <2>1, <2>3, <2>4
<1>2. CASE Send
  <2>1. PICK n \in Sizes : sizes' = Append(sizes, n)
    BY <1>2 DEF Send
  <2>2. /\ Len(sizes') = Len(sizes) + 1 /\ DOMAIN sizes = 1 .. Len(sizes)
        /\ DOMAIN sizes' = 1 .. Len(sizes')
        /\ \A l \in 1 .. Len(sizes) : sizes'[l] = sizes[l]
    BY <1>1, <2>1
  <2> QED
    BY <1>1, <2>2 DEF Later, NoClipping
<1>3. CASE ~Send
  <2>1. sizes' = sizes
    BY <1>3 DEF Next, Run, Start, GiveUp, Receive, NoData, ReadFails,
                BeginList, NotAHead, SkipRecord, EndList, Exhausted, Copy,
                Publish, NotDue, SetNotify, vars, wireVars
  <2> QED
    BY <1>1, <2>1 DEF Later, NoClipping
<1> QED
  BY <1>2, <1>3

\* The decoder stays, or passes a token that is no tail for certain.
LEMMA DecodedStays ==
  ASSUME TypeInv, DecodedInv, Later, decoded' = decoded, msg' = msg,
         Decoding' => Decoding,
         i' = i \/ (i' = i + 1 /\ i \in 1 .. Len(msg) /\ ~Sure(msg[i]))
  PROVE  DecodedInv'
<1> SUFFICES ASSUME NoClipping', Decoding'
             PROVE  \/ /\ decoded = NoTargets
                       /\ \A r \in 1 .. Len(msg) : Sure(msg[r]) => r >= i'
                    \/ \E p, q \in 1 .. Len(msg) :
                         /\ Holds(p, q)'
                         /\ \A r \in 1 .. Len(msg) :
                              Sure(msg[r]) /\ r < i' => r <= q
  BY DEF DecodedInv, NoTargets
<1>1. /\ NoClipping /\ Decoding
      /\ msg \in Seq(Tokens) /\ i \in Nat /\ i' \in Nat
  BY DEF Later, TypeInv, TypeOK
<1>2. \A r \in 1 .. Len(msg) : Sure(msg[r]) => (r < i' <=> r < i)
  BY <1>1
<1>3. CASE decoded = NoTargets /\ \A r \in 1 .. Len(msg) : Sure(msg[r]) => r >= i
  BY <1>1, <1>2, <1>3
<1>4. ASSUME NEW p \in 1 .. Len(msg), NEW q \in 1 .. Len(msg), Holds(p, q),
             \A r \in 1 .. Len(msg) : Sure(msg[r]) /\ r < i => r <= q
      PROVE  \E m, n \in 1 .. Len(msg) :
               /\ Holds(m, n)'
               /\ \A r \in 1 .. Len(msg) : Sure(msg[r]) /\ r < i' => r <= n
  <2>1. msg[p].list \in 1 .. Len(sizes)
    <3>1. msg[p] \in Tokens /\ msg[p].list <= Len(sizes)
      BY <1>1 DEF TypeInv, MsgInv, Listed, Genuine
    <3>2. msg[p].list \in Nat /\ msg[p].list >= 1
      BY <3>1, Fields
    <3> QED
      BY <3>1, <3>2 DEF Later
  <2>2. sizes'[msg[p].list] = sizes[msg[p].list]
    BY <2>1 DEF Later
  <2>3. q < i'
    BY <1>1, <1>4 DEF Holds
  <2>4. Holds(p, q)'
    BY <1>4, <2>2, <2>3 DEF Holds, Visible, Target
  <2> QED
    BY <1>2, <1>4, <2>4
<1> QED
  BY <1>1, <1>3, <1>4 DEF DecodedInv

\* A list that ends is decoded.
LEMMA DecodedEnd ==
  ASSUME TypeInv, EndList
  PROVE  DecodedInv'
<1> SUFFICES ASSUME NoClipping'
             PROVE  \E p, q \in 1 .. Len(msg) :
                      /\ Holds(p, q)'
                      /\ \A r \in 1 .. Len(msg) : Sure(msg[r]) /\ r < i' => r <= q
  BY DEF DecodedInv, EndList
<1>1. /\ phase = "list" /\ i <= Len(msg) /\ TRUE \in Seen(msg[i], "tail")
      /\ decoded' = Unpacked /\ i' = i + 1
      /\ UNCHANGED <<sizes, msg>>
  BY DEF EndList, Move, wireVars
<1> DEFINE p == start - 1
<1>2. /\ i = start + Records(entries) /\ Records(entries) \in Nat
      /\ p \in 1 .. Len(msg) /\ i \in 1 .. Len(msg)
      /\ msg[i].list = msg[p].list
      /\ \A k \in 1 .. Records(entries) :
           /\ msg[start + k - 1].list = msg[p].list
           /\ msg[start + k - 1].n = k
  BY <1>1, AtTail
<1>3. msg \in Seq(Tokens) /\ start \in Nat /\ MaxTargets \in Nat
  BY RecordsTyped DEF TypeInv, TypeOK
<1>4. /\ msg[p].kind = "head" /\ Visible(msg[p]) /\ entries = msg[p].n
  BY <1>1 DEF TypeInv, PlaceInv, InList
<1>5. msg[p].n = sizes[msg[p].list] /\ msg[p].list \in DOMAIN sizes
  <2>1. Genuine(msg[p]) /\ msg[p] \in Tokens
    BY <1>2, <1>3 DEF TypeInv, MsgInv, Listed
  <2>2. sizes \in Seq(Sizes)
    BY DEF TypeInv, TypeOK
  <2>3. msg[p].list \in 1 .. Len(sizes)
    BY <2>1, <2>2, Fields DEF Genuine
  <2> QED
    BY <1>4, <2>1, <2>2, <2>3 DEF Genuine
<1>6. entries < MaxTargets /\ Records(entries) = entries /\ entries \in Nat
  <2>1. sizes[msg[p].list] < MaxTargets
    BY <1>1, <1>5 DEF NoClipping
  <2> QED
    BY <1>3, <1>4, <1>5, <2>1 DEF Records, TypeInv, TypeOK
<1>7. decoded'.nr = sizes[msg[p].list]
  BY <1>1, <1>4, <1>5 DEF Unpacked
<1>8. \A k \in 1 .. entries : decoded'.targets[k] = Target(msg[p].list, k)
  <2> TAKE k \in 1 .. entries
  <2>1. k \in 1 .. MaxTargets /\ k <= Records(entries)
    BY <1>3, <1>6
  <2>2. decoded'.targets[k]
          = Target(msg[start + k - 1].list, msg[start + k - 1].n)
    BY <1>1, <2>1 DEF Unpacked
  <2> QED
    BY <1>2, <1>6, <2>2
<1>9. decoded'.nr = entries
  BY <1>1 DEF Unpacked
<1>10. p < i /\ i < i'
  BY <1>1, <1>2, <1>3
<1>11. msg[i].kind = "tail"
  BY <1>1, SeenIs
<1>12. ASSUME NEW m \in 1 .. Len(msg), NEW n \in 1 .. Len(msg), m = p, n = i
       PROVE  Holds(m, n)'
  <2>1. /\ m < n /\ n < i'
        /\ msg[m].kind = "head" /\ Visible(msg[m])
        /\ msg[n].kind = "tail" /\ msg[n].list = msg[m].list
        /\ decoded'.nr = sizes[msg[m].list]
        /\ \A k \in 1 .. decoded'.nr : decoded'.targets[k] = Target(msg[m].list, k)
    BY <1>2, <1>4, <1>7, <1>8, <1>9, <1>10, <1>11, <1>12
  <2> QED
    BY <1>1, <2>1 DEF Holds, Visible, Target
<1>13. \A r \in 1 .. Len(msg) : r < i' => r <= i
  BY <1>1, <1>2
<1> HIDE DEF p
<1>14. PICK m \in 1 .. Len(msg), n \in 1 .. Len(msg) : m = p /\ n = i
  BY <1>2
<1> QED
  BY <1>12, <1>13, <1>14

\* Nothing was decoded at the start; a new message is decoded afresh.
LEMMA DecodedInit == Init => DecodedInv
BY DEF Init, DecodedInv, Decoding

LEMMA DecodedStep == TypeInv /\ DecodedInv /\ [Next]_vars => DecodedInv'
<1> SUFFICES ASSUME TypeInv, DecodedInv, [Next]_vars PROVE DecodedInv'
  OBVIOUS
<1>1. Later /\ i \in 1 .. Len(msg) + 1 /\ msg \in Seq(Tokens)
  BY SentStays DEF TypeInv, TypeOK
<1>2. CASE Send \/ SetNotify \/ UNCHANGED vars \/ NotAHead \/ Exhausted
  <2>1. decoded' = decoded /\ msg' = msg /\ i' = i /\ (Decoding' => Decoding)
    BY <1>2 DEF Send, SetNotify, NotAHead, Exhausted, Move, Decoding, vars,
                decodeVars
  <2> QED
    BY <1>1, <2>1, DecodedStays
<1>3. CASE BeginList
  <2>1. /\ decoded' = decoded /\ msg' = msg /\ i' = i + 1
        /\ Decoding /\ i <= Len(msg)
    BY <1>3 DEF BeginList, Move, Decoding
  <2>2. msg[i].kind = "head"
    BY <1>3, SeenIs DEF BeginList
  <2>3. i \in 1 .. Len(msg) /\ ~Sure(msg[i])
    BY <1>1, <2>1, <2>2 DEF Sure
  <2> QED
    BY <1>1, <2>1, <2>3, DecodedStays
<1>4. CASE SkipRecord
  <2>1. /\ decoded' = decoded /\ msg' = msg /\ i' = i + 1
        /\ Decoding /\ i <= Len(msg)
    BY <1>4 DEF SkipRecord, Decoding
  <2>2. msg[i].kind # "tail" \/ msg[i].part \in {"rest", "torn"}
    BY <1>4, SeenIs DEF SkipRecord, Visible
  <2>3. i \in 1 .. Len(msg) /\ ~Sure(msg[i])
    BY <1>1, <2>1, <2>2 DEF Sure
  <2> QED
    BY <1>1, <2>1, <2>3, DecodedStays
<1>5. CASE EndList
  BY <1>5, DecodedEnd
<1>6. CASE Receive
  <2>1. decoded' = NoTargets /\ i' = 1
    BY <1>6 DEF Receive, Move, TypeInv, PlaceInv, Decoding
  <2>2. PICK k \in 0 .. Len(wire), cut \in Cuts :
          CanRead(k, cut) /\ msg' = Taken(k, cut)
    BY <1>6 DEF Receive
  <2>3. Len(msg') \in Nat
    BY <2>2, TakenIs DEF TypeInv
  <2>4. NoTargets' = NoTargets
    BY DEF NoTargets
  <2>5. \A r \in 1 .. Len(msg') : r >= i'
    BY <2>1, <2>3
  <2> QED
    BY <2>1, <2>4, <2>5 DEF DecodedInv
<1>7. CASE Start \/ GiveUp \/ NoData \/ ReadFails \/ Copy \/ Publish \/ NotDue
  BY <1>7 DEF Start, GiveUp, NoData, ReadFails, Copy, Publish, NotDue, Move,
              DecodedInv, Decoding
<1> QED
  BY <1>2, <1>3, <1>4, <1>5, <1>6, <1>7 DEF Next, Run

LEMMA DecodedHolds == Spec => []DecodedInv
<1> QED
  BY DecodedInit, DecodedStep, TypeHolds, PTL DEF Spec

\* The targets of a list, as smartCopy finds them.
LEMMA FoundIs ==
  ASSUME TypeOK
  PROVE  /\ decoded.nr \in Nat /\ decoded.nr <= MaxTargets
         /\ Found \in Seq(Targets \cup {Zero}) /\ Len(Found) = decoded.nr
         /\ \A k \in 1 .. decoded.nr : Found[k] = decoded.targets[k]
<1> DEFINE T == Targets \cup {Zero}
<1>1. /\ decoded.nr \in 0 .. MaxTargets /\ MaxTargets \in Nat
      /\ decoded.targets \in [1 .. MaxTargets -> T]
  BY RecordsTyped DEF TypeOK
<1> HIDE DEF T
<1>2. decoded.targets \in Seq(T) /\ Len(decoded.targets) = MaxTargets
  BY <1>1
<1>3. Found \in Seq(T) /\ Len(Found) = decoded.nr
  BY <1>1, <1>2 DEF Found
<1>4. \A k \in 1 .. decoded.nr : Found[k] = decoded.targets[k]
  BY <1>1, <1>2 DEF Found
<1> QED
  BY <1>1, <1>3, <1>4 DEF T

\* The lists whose tails are in the message.
LEMMA ClosedIs ==
  ASSUME msg \in Seq(Tokens), NEW parts
  PROVE  \A l : l \in Closed(parts) <=>
           \E r \in 1 .. Len(msg) :
             msg[r].kind = "tail" /\ msg[r].part \in parts /\ msg[r].list = l
BY DEF Closed, ToSet

LEMMA LastIsDecoded ==
  ASSUME TypeInv, DecodedInv
  PROVE  DecodesLastWhole
<1> SUFFICES ASSUME phase = "copy", NoClipping
             PROVE  Found \in Expected
  BY DEF DecodesLastWhole
<1> DEFINE C == Closed({"whole", "front"})
<1>1. /\ msg \in Seq(Tokens) /\ Decoding
      /\ \A l : l \in C <=>
           \E r \in 1 .. Len(msg) : Sure(msg[r]) /\ msg[r].list = l
  BY ClosedIs DEF Decoding, Sure, TypeInv, TypeOK
<1> HIDE DEF C
<1>2. /\ \/ i = 1 /\ (AtHead => Len(msg) = 1 /\ msg[1].kind = "head")
         \/ \A r \in 1 .. Len(msg) : Sure(msg[r]) => r < i
      /\ i > 1 => AtHead
  BY <1>1 DEF TypeInv, PlaceInv
<1>3. i \in Nat
  BY <1>1 DEF TypeInv, TypeOK
<1>4. CASE decoded = NoTargets /\ \A r \in 1 .. Len(msg) : Sure(msg[r]) => r >= i
  <2>1. Len(Found) = 0 /\ Found \in Seq(Targets \cup {Zero})
    BY <1>4, FoundIs DEF TypeInv, NoTargets
  <2>2. Found = <<>>
    BY <2>1
  <2>3. AtHead => C = {}
    <3>1. AtHead => \A r \in 1 .. Len(msg) : ~Sure(msg[r])
      BY <1>1, <1>2, <1>3, <1>4 DEF Sure
    <3> QED
      BY <1>1, <3>1
  <2>4. AtHead => Newest(C) = {}
    BY <2>3 DEF Newest
  <2> QED
    BY <2>2, <2>4 DEF Expected, C
<1>5. ASSUME NEW p \in 1 .. Len(msg), NEW q \in 1 .. Len(msg), Holds(p, q),
             \A r \in 1 .. Len(msg) : Sure(msg[r]) /\ r < i => r <= q
      PROVE  Found \in Expected
  <2> DEFINE l == msg[p].list
  <2>1. /\ AtHead /\ p < q /\ q < i /\ i # 1
        /\ msg[q].kind = "tail" /\ msg[q].list = l
        /\ decoded.nr = sizes[l]
        /\ \A k \in 1 .. decoded.nr : decoded.targets[k] = Target(l, k)
    BY <1>1, <1>2, <1>3, <1>5 DEF Holds
  <2>2. \A r \in 1 .. Len(msg) : Sure(msg[r]) => r <= q
    BY <1>2, <1>5, <2>1
  <2>3. Found = [k \in 1 .. sizes[l] |-> Target(l, k)]
    <3>1. /\ Found \in Seq(Targets \cup {Zero}) /\ Len(Found) = sizes[l]
          /\ \A k \in 1 .. sizes[l] : Found[k] = Target(l, k)
      BY <2>1, FoundIs DEF TypeInv
    <3>2. Found = [k \in 1 .. Len(Found) |-> Found[k]]
      BY <3>1
    <3> QED
      BY <3>1, <3>2
  <2>4. l \in Newest(C) \cup Closed({"torn"})
    <3>1. Visible(msg[q]) /\ msg[q].part \in Parts
      <4>1. q > 1 /\ msg[q] \in Tokens
        BY <1>1, <2>1
      <4> QED
        BY <4>1, Fields DEF TypeInv, MsgInv
    <3>2. CASE msg[q].part = "torn"
      <4>1. l \in Closed({"torn"})
        BY <1>1, <2>1, <3>2, ClosedIs
      <4> QED
        BY <4>1
    <3>3. CASE Sure(msg[q])
      <4>1. l \in C
        BY <1>1, <2>1, <3>3
      <4>2. ASSUME NEW k \in C
            PROVE  k <= l
        <5>1. PICK r \in 1 .. Len(msg) : Sure(msg[r]) /\ msg[r].list = k
          BY <1>1
        <5>2. r <= q /\ InShape(msg, r, q) /\ msg[q] \in Tokens
          BY <1>1, <2>2, <5>1 DEF TypeInv, MsgInv, Listed
        <5>3. r < q \/ r = q
          BY <1>1, <5>2
        <5>4. l \in Nat
          BY <2>1, <5>2, Fields
        <5> HIDE DEF l
        <5> QED
          BY <2>1, <5>1, <5>2, <5>3, <5>4 DEF InShape
      <4> QED
        BY <4>1, <4>2 DEF Newest
    <3> QED
      BY <2>1, <3>1, <3>2, <3>3 DEF Sure, Visible, Parts
  <2> HIDE DEF l
  <2> QED
    BY <2>1, <2>3, <2>4 DEF Expected, C
<1> QED
  BY <1>1, <1>4, <1>5 DEF DecodedInv

\* However the reads cut the stream, decodeMessage delivers exactly the last
\* list that is in the message from head to tail (DecodesLastWhole), for lists
\* of any sizes.
THEOREM DecodesTheLastWhole == Spec => []DecodesLastWhole
<1> QED
  BY TypeHolds, DecodedHolds, LastIsDecoded, PTL


-----------------------------------------------------------------------------
(* What is collected.                                                      *)

\* A list is passed when no head that is still to be decoded begins it or an
\* earlier one; t is a target of one that was sent.
Passed(t) ==
  /\ t \in Targets /\ t[1] <= Len(sizes) /\ t[2] <= sizes[t[1]]
  /\ \A k \in 1 .. Len(wire) :
       wire[k].kind = "head" /\ Visible(wire[k]) => t[1] < wire[k].list
  /\ \A k \in 1 .. Len(msg) :
       msg[k].kind = "head" /\ Visible(msg[k]) => t[1] < msg[k].list

AllPassed ==
  \A c \in DOMAIN Collections : \A j \in DOMAIN Collections[c] :
    Passed(Collections[c][j])

CollectInv == NoClipping => CollectsFaithfully /\ AllPassed

\* Every head that is to be decoded after a step was to be before it, or is
\* the head of the next list.
HeadsKnown ==
  /\ \A k \in 1 .. Len(wire') :
       wire'[k].kind = "head" /\ Visible(wire'[k]) =>
         \/ wire'[k].list = Len(sizes) + 1
         \/ \E n \in 1 .. Len(wire) :
              /\ wire[n].kind = "head" /\ Visible(wire[n])
              /\ wire'[k].list = wire[n].list
  /\ \A k \in 1 .. Len(msg') :
       msg'[k].kind = "head" /\ Visible(msg'[k]) =>
         \/ \E n \in 1 .. Len(wire) :
              /\ wire[n].kind = "head" /\ Visible(wire[n])
              /\ msg'[k].list = wire[n].list
         \/ \E n \in 1 .. Len(msg) :
              /\ msg[n].kind = "head" /\ Visible(msg[n])
              /\ msg'[k].list = msg[n].list

LEMMA TargetFields ==
  ASSUME NEW t \in Targets
  PROVE  /\ t[1] \in Nat /\ t[1] >= 1 /\ t[2] \in Nat /\ t[2] >= 1
         /\ t = Target(t[1], t[2])
BY FrameAssumption DEF FrameAssumption, Targets, Target

LEMMA PassedStays ==
  ASSUME Later, HeadsKnown, NEW t, Passed(t)
  PROVE  Passed(t)'
<1>1. /\ t \in Targets /\ t[1] \in 1 .. Len(sizes) /\ t[1] \in Nat
      /\ Len(sizes) \in Nat /\ t[2] <= sizes[t[1]]
  BY TargetFields DEF Passed, Later
<1>2. t[1] <= Len(sizes') /\ sizes'[t[1]] = sizes[t[1]]
  BY <1>1 DEF Later
<1>3. ASSUME NEW k \in 1 .. Len(wire'), wire'[k].kind = "head",
             Visible(wire'[k])
      PROVE  t[1] < wire'[k].list
  <2>1. CASE wire'[k].list = Len(sizes) + 1
    BY <1>1, <2>1
  <2>2. CASE \E n \in 1 .. Len(wire) :
               /\ wire[n].kind = "head" /\ Visible(wire[n])
               /\ wire'[k].list = wire[n].list
    BY <2>2 DEF Passed
  <2> QED
    BY <1>3, <2>1, <2>2 DEF HeadsKnown
<1>4. ASSUME NEW k \in 1 .. Len(msg'), msg'[k].kind = "head",
             Visible(msg'[k])
      PROVE  t[1] < msg'[k].list
  BY <1>4 DEF HeadsKnown, Passed
<1> QED
  BY <1>1, <1>2, <1>3, <1>4 DEF Passed, Visible, Targets

\* The heads stay known in every step.
LEMMA HeadsStay ==
  ASSUME TypeInv, [Next]_vars
  PROVE  HeadsKnown
<1>1. TypeOK /\ WireInv /\ MsgInv
  BY DEF TypeInv
<1>2. CASE Send
  <2>1. PICK n \in Sizes :
          /\ Len(sizes) < MaxLists /\ sizes' = Append(sizes, n)
          /\ wire' = wire \o ListTokens(Len(sizes) + 1, n)
    BY <1>2 DEF Send
  <2>2. /\ msg' = msg /\ Len(wire) \in Nat
        /\ \A k \in 1 .. Len(wire) : wire'[k] = wire[k]
    BY <1>1, <1>2, <2>1, SendIs DEF Send, decodeVars
  <2>3. ASSUME NEW k \in 1 .. Len(wire'), k > Len(wire)
        PROVE  wire'[k].list = Len(sizes) + 1
    <3>1. /\ Len(wire) \in Nat /\ n \in 0 .. MaxTargets
          /\ Len(wire') = Len(wire) + Records(n) + 2
          /\ wire'[Len(wire) + 1] = Token(Len(sizes) + 1, "head", n)
          /\ \A m \in 1 .. Records(n) :
               wire'[Len(wire) + m + 1] = Token(Len(sizes) + 1, "record", m)
          /\ wire'[Len(wire) + Records(n) + 2] = Token(Len(sizes) + 1, "tail", n)
      BY <1>1, <2>1, SendIs
    <3>2. k \in 1 .. Len(wire) + Records(n) + 2
      BY <3>1
    <3>3. OfList(wire'[k], k, Len(wire), Len(sizes) + 1, n)
      BY <2>3, <3>1, <3>2, NewTokens
    <3> QED
      BY <3>3 DEF OfList
  <2>4. \A k \in 1 .. Len(wire') : k \in 1 .. Len(wire) \/ k > Len(wire)
    BY <2>2
  <2> QED
    BY <2>2, <2>3, <2>4 DEF HeadsKnown
<1>3. CASE Receive
  <2>1. PICK k \in 0 .. Len(wire), cut \in Cuts :
          CanRead(k, cut) /\ msg' = Taken(k, cut) /\ wire' = Left(k, cut)
    BY <1>3 DEF Receive
  <2>2. sizes' = sizes
    BY <1>3 DEF Receive
  <2>3. \A j \in 1 .. Len(wire') :
          /\ k + j \in 1 .. Len(wire) /\ Like(wire'[j], wire[k + j])
          /\ Visible(wire'[j]) => Visible(wire[k + j])
    BY <1>1, <2>1, <2>2, LeaveWire
  <2>4. \A j \in 1 .. Len(msg') :
          /\ j \in 1 .. Len(wire) /\ Like(msg'[j], wire[j])
          /\ Visible(msg'[j]) => Visible(wire[j])
    BY <1>1, <2>1, <2>2, TakeMsg
  <2> HIDE <2>1
  <2> QED
    BY <2>3, <2>4 DEF HeadsKnown, Like
<1>4. CASE ReadFails
  <2>1. PICK k \in 0 .. Len(wire), cut \in Cuts :
          CanRead(k, cut) /\ wire' = Left(k, cut)
    BY <1>4 DEF ReadFails
  <2>2. sizes' = sizes /\ msg' = msg
    BY <1>4 DEF ReadFails, decodeVars
  <2>3. \A j \in 1 .. Len(wire') :
          /\ k + j \in 1 .. Len(wire) /\ Like(wire'[j], wire[k + j])
          /\ Visible(wire'[j]) => Visible(wire[k + j])
    BY <1>1, <2>1, <2>2, LeaveWire
  <2> QED
    BY <2>2, <2>3 DEF HeadsKnown, Like
<1>5. CASE Copy
  <2>1. wire' = wire /\ msg' = <<>>
    BY <1>5 DEF Copy, Fresh, wireVars
  <2> QED
    BY <2>1, NoMessage DEF HeadsKnown
<1>6. CASE ~Send /\ ~Receive /\ ~ReadFails /\ ~Copy
  <2>1. wire' = wire /\ msg' = msg
    BY <1>6 DEF Next, Run, Start, GiveUp, NoData, BeginList, NotAHead,
                SkipRecord, EndList, Exhausted, Publish, NotDue, SetNotify,
                vars, wireVars, decodeVars
  <2> QED
    BY <2>1 DEF HeadsKnown
<1> QED
  BY <1>2, <1>3, <1>4, <1>5, <1>6

\* The collections, the one that is being built being the last.
LEMMA CollectionsAre ==
  ASSUME NEW T, NEW o \in Seq(Seq(T)), NEW b \in Seq(T)
  PROVE  /\ Append(o, b) \in Seq(Seq(T)) /\ Len(o) \in Nat
         /\ DOMAIN Append(o, b) = 1 .. Len(o) + 1
         /\ \A c \in 1 .. Len(o) : Append(o, b)[c] = o[c]
         /\ Append(o, b)[Len(o) + 1] = b
BY SMT

\* What holds of the collections holds of the same ones later.
LEMMA CollectStays ==
  ASSUME NoClipping => CollectsFaithfully, Later, AllPassed, AllPassed',
         \A c \in DOMAIN Collections' : \A j \in DOMAIN Collections'[c] :
           /\ c \in DOMAIN Collections /\ j \in DOMAIN Collections[c]
           /\ Collections'[c] = Collections[c]
  PROVE  CollectsFaithfully'
<1> SUFFICES ASSUME NoClipping' PROVE CollectsFaithfully'
  BY DEF CollectsFaithfully, WholeLists, InOrderOnce
<1>1. WholeLists /\ InOrderOnce /\ NoClipping
  BY DEF Later, CollectsFaithfully
<1>2. ASSUME NEW c \in DOMAIN Collections', NEW j \in DOMAIN Collections'[c]
      PROVE  LET b == Collections[c]
                 l == b[j][1]
             IN  /\ c \in DOMAIN Collections /\ j \in DOMAIN Collections[c]
                 /\ Collections'[c] = b /\ sizes'[l] = sizes[l]
  <2>1. Passed(Collections[c][j])
    BY DEF AllPassed
  <2>2. Collections[c][j][1] \in 1 .. Len(sizes)
    BY <2>1, TargetFields DEF Passed, Later
  <2> QED
    BY <2>2 DEF Later
<1> HIDE DEF Collections
<1>3. WholeLists'
  BY <1>1, <1>2 DEF WholeLists, Target
<1>4. InOrderOnce'
  BY <1>1, <1>2 DEF InOrderOnce, Before
<1> QED
  BY <1>3, <1>4 DEF CollectsFaithfully

\* A step that copies nothing, and the one that publishes.
LEMMA CollectOthers ==
  ASSUME TypeInv, TypeInv', CollectInv, [Next]_vars, ~Copy
  PROVE  CollectInv'
<1> DEFINE T == Targets \cup {Zero}
<1> SUFFICES ASSUME NoClipping' PROVE CollectsFaithfully' /\ AllPassed'
  BY DEF CollectInv
<1>1. Later /\ HeadsKnown
  BY SentStays, HeadsStay
<1>2. NoClipping /\ CollectsFaithfully /\ AllPassed
  BY <1>1 DEF Later, CollectInv
<1>3. out \in Seq(Seq(T)) /\ build \in Seq(T) /\ out' \in Seq(Seq(T)) /\ build' \in Seq(T)
  BY DEF TypeInv, TypeOK, Targets
<1>4. ASSUME NEW c \in DOMAIN Collections', NEW j \in DOMAIN Collections'[c]
      PROVE  /\ c \in DOMAIN Collections /\ j \in DOMAIN Collections[c]
             /\ Collections'[c] = Collections[c]
  <2>1. CASE Publish
    <3>1. out' = Collections /\ build' = <<>>
      BY <2>1 DEF Publish, Collections
    <3>2. /\ DOMAIN Collections' = 1 .. Len(out') + 1 /\ Len(out') \in Nat
          /\ \A d \in 1 .. Len(out') : Collections'[d] = out'[d]
          /\ Collections'[Len(out') + 1] = <<>>
      BY <1>3, <3>1, CollectionsAre DEF Collections
    <3> HIDE DEF Collections
    <3>3. c # Len(out') + 1
      BY <3>2
    <3>4. c \in 1 .. Len(out')
      BY <3>2, <3>3
    <3>5. DOMAIN out' = 1 .. Len(out')
      BY <1>3
    <3> QED
      BY <3>1, <3>2, <3>4, <3>5
  <2>2. CASE ~Publish
    <3>1. out' = out /\ build' = build
      BY <2>2 DEF Next, Send, Run, Start, GiveUp, NoData, Receive, ReadFails,
                  LoadCycle, BeginList, NotAHead, SkipRecord, EndList,
                  Exhausted, NotDue, SetNotify, vars, notifyVars
    <3> QED
      BY <3>1 DEF Collections
  <2> QED
    BY <2>1, <2>2
<1>5. ASSUME NEW c \in DOMAIN Collections', NEW j \in DOMAIN Collections'[c],
             NEW t, t = Collections'[c][j]
      PROVE  Passed(t)'
  <2>1. Passed(t)
    BY <1>2, <1>4, <1>5 DEF AllPassed
  <2> QED
    BY <1>1, <2>1, PassedStays
<1>6. AllPassed'
  BY <1>5 DEF AllPassed, Passed, Visible
<1>7. \A c \in DOMAIN Collections' : \A j \in DOMAIN Collections'[c] :
        /\ c \in DOMAIN Collections /\ j \in DOMAIN Collections[c]
        /\ Collections'[c] = Collections[c]
  BY <1>4
<1>8. CollectsFaithfully'
  BY <1>1, <1>2, <1>6, <1>7, CollectStays
<1> QED
  BY <1>6, <1>8

\* The same of targets.
LEMMA JoinedTargets ==
  ASSUME NEW s \in Seq(Targets \cup {Zero}), NEW t \in Seq(Targets \cup {Zero})
  PROVE  /\ s \o t \in Seq(Targets \cup {Zero})
         /\ Len(s \o t) = Len(s) + Len(t)
         /\ \A j \in 1 .. Len(s) : (s \o t)[j] = s[j]
         /\ \A j \in 1 .. Len(t) : (s \o t)[Len(s) + j] = t[j]
<1>1. s \o t \in Seq(Targets \cup {Zero}) /\ Len(s \o t) = Len(s) + Len(t)
  OBVIOUS
<1>2. \A j \in 1 .. Len(s) : (s \o t)[j] = s[j]
  OBVIOUS
<1>3. \A j \in 1 .. Len(t) : (s \o t)[Len(s) + j] = t[j]
  OBVIOUS
<1> QED
  BY <1>1, <1>2, <1>3

\* What smartCopy makes of the collection: it was, and the first m targets of
\* the list behind it, all of them unless the array is full.
LEMMA CopiedIs ==
  ASSUME TypeOK
  PROVE  \E m \in 0 .. decoded.nr :
           /\ Len(Copied) = Len(build) + m /\ Len(build) \in Nat
           /\ DOMAIN Copied = 1 .. Len(build) + m
           /\ DOMAIN build = 1 .. Len(build)
           /\ m < decoded.nr => Len(build) + m = MaxTargets
           /\ \A j \in 1 .. Len(build) : Copied[j] = build[j]
           /\ \A k \in 1 .. m : Copied[Len(build) + k] = decoded.targets[k]
<1> DEFINE T == Targets \cup {Zero}
           m == MinOf(decoded.nr, MaxTargets - Len(build))
           s == SubSeq(Found, 1, m)
<1>1. /\ build \in Seq(T) /\ Len(build) <= MaxTargets /\ MaxTargets \in Nat
      /\ Len(build) \in Nat /\ decoded.nr \in Nat
      /\ Found \in Seq(T) /\ Len(Found) = decoded.nr
      /\ \A k \in 1 .. decoded.nr : Found[k] = decoded.targets[k]
  <2>1. build \in Seq(T) /\ Len(build) <= MaxTargets /\ MaxTargets \in Nat
    BY RecordsTyped DEF TypeOK
  <2> QED
    BY <2>1, FoundIs
<1> HIDE DEF T
<1>2. /\ m \in 0 .. decoded.nr
      /\ m < decoded.nr => Len(build) + m = MaxTargets
  BY <1>1 DEF MinOf
<1> HIDE DEF m
<1>3. /\ s \in Seq(T) /\ Len(s) = m
      /\ \A k \in 1 .. m : s[k] = decoded.targets[k]
  BY <1>1, <1>2
<1>4. Copied = build \o s
  BY DEF Copied, m
<1> HIDE DEF s
<1>5. /\ Len(build \o s) = Len(build) + m
      /\ DOMAIN (build \o s) = 1 .. Len(build) + m
      /\ DOMAIN build = 1 .. Len(build)
      /\ \A j \in 1 .. Len(build) : (build \o s)[j] = build[j]
      /\ \A k \in 1 .. m : (build \o s)[Len(build) + k] = s[k]
  <2>1. /\ build \o s \in Seq(T) /\ Len(build \o s) = Len(build) + Len(s)
        /\ \A j \in 1 .. Len(build) : (build \o s)[j] = build[j]
        /\ \A k \in 1 .. Len(s) : (build \o s)[Len(build) + k] = s[k]
    BY <1>1, <1>3, JoinedTargets, Zenon DEF T
  <2>2. /\ DOMAIN (build \o s) = 1 .. Len(build \o s)
        /\ DOMAIN build = 1 .. Len(build)
    BY <1>1, <2>1
  <2> QED
    BY <1>3, <2>1, <2>2
<1> QED
  BY <1>1, <1>2, <1>3, <1>4, <1>5

\* The targets that are copied are those of one list, which is not passed.
LEMMA CopiedFresh ==
  ASSUME TypeInv, DecodedInv, NoClipping, phase = "copy",
         NEW m \in 0 .. decoded.nr, m > 0
  PROVE  \E l \in 1 .. Len(sizes) :
           /\ decoded.nr = sizes[l]
           /\ \A k \in 1 .. m : /\ decoded.targets[k] = Target(l, k)
                                /\ Target(l, k) \in Targets
                                /\ k \in Nat /\ k <= sizes[l]
           /\ \A t : Passed(t) => t[1] < l
           /\ \A k \in 1 .. Len(wire) :
                wire[k].kind = "head" /\ Visible(wire[k]) => l < wire[k].list
<1>1. /\ msg \in Seq(Tokens) /\ decoded.nr \in 0 .. MaxTargets
      /\ MaxTargets \in Nat /\ Len(sizes) \in Nat
  BY RecordsTyped DEF TypeInv, TypeOK
<1>2. decoded # NoTargets
  BY <1>1 DEF NoTargets
<1>3. PICK p \in 1 .. Len(msg), q \in 1 .. Len(msg) : Holds(p, q)
  BY <1>2 DEF DecodedInv, Decoding
<1> DEFINE l == msg[p].list
<1>4. msg[p].list \in 1 .. MaxLists /\ msg[p].list \in 1 .. Len(sizes)
  <2>1. msg[p] \in Tokens /\ msg[p].list <= Len(sizes)
    BY <1>1 DEF TypeInv, MsgInv, Listed, Genuine
  <2>2. msg[p].list \in 1 .. MaxLists /\ msg[p].list \in Nat /\ msg[p].list >= 1
    BY <2>1, Fields
  <2> QED
    BY <1>1, <2>1, <2>2
<1>5. /\ msg[p].kind = "head" /\ Visible(msg[p])
      /\ decoded.nr = sizes[l]
      /\ \A k \in 1 .. decoded.nr : decoded.targets[k] = Target(l, k)
  BY <1>3 DEF Holds
<1>6. \A k \in 1 .. m : /\ k \in 1 .. decoded.nr /\ k \in Nat
                        /\ k \in 1 .. MaxTargets
  BY <1>1
<1>7. \A k \in 1 .. m : Target(l, k) \in Targets
  BY <1>4, <1>6 DEF Target, Targets
<1>8. \A t : Passed(t) => t[1] < l
  BY <1>5 DEF Passed
<1>9. \A k \in 1 .. Len(wire) :
        wire[k].kind = "head" /\ Visible(wire[k]) => l < wire[k].list
  BY DEF TypeInv, MsgInv
<1>10. \A k \in 1 .. m : k <= sizes[l]
  BY <1>1, <1>5, <1>6
<1> HIDE DEF l
<1>11. l \in 1 .. Len(sizes)
  BY <1>4 DEF l
<1> QED
  BY <1>5, <1>6, <1>7, <1>8, <1>9, <1>10, <1>11

\* The target at place j of collection c was there, or it is one of those
\* copied, of list l, behind the first g of the last collection.
Was(s, t, c, j) ==
  /\ c \in DOMAIN s /\ j \in DOMAIN s[c]
  /\ t[c][j] = s[c][j]

IsNew(t, last, g, m, l, c, j) ==
  c = last /\ j \in g + 1 .. g + m /\ t[c][j] = Target(l, j - g)

\* The first m targets of list l come behind the last collection.
Grown(s, t, last, g, m, l) ==
  /\ last \in Nat /\ g \in Nat /\ m \in Nat
  /\ DOMAIN s = 1 .. last /\ DOMAIN t = 1 .. last /\ DOMAIN s[last] = 1 .. g
  /\ \A c \in DOMAIN s : \A j \in DOMAIN s[c] : s[c][j][1] < l
  /\ \A c \in DOMAIN t : \A j \in DOMAIN t[c] :
       j \in Nat /\ (Was(s, t, c, j) \/ IsNew(t, last, g, m, l, c, j))

Ordered(s) ==
  \A c, d \in DOMAIN s : \A j \in DOMAIN s[c], k \in DOMAIN s[d] :
    c < d \/ (c = d /\ j < k) => Before(s[c][j], s[d][k])

\* What that does to the order.
LEMMA OrderStays ==
  ASSUME NEW s, NEW t, NEW last, NEW g, NEW m, NEW l,
         Grown(s, t, last, g, m, l), Ordered(s)
  PROVE  Ordered(t)
<1> SUFFICES ASSUME NEW c \in DOMAIN t, NEW d \in DOMAIN t,
                    NEW j \in DOMAIN t[c], NEW k \in DOMAIN t[d],
                    c < d \/ (c = d /\ j < k)
             PROVE  Before(t[c][j], t[d][k])
  BY DEF Ordered
<1> USE DEF Grown, Ordered
<1>1. CASE Was(s, t, c, j) /\ Was(s, t, d, k)
  BY <1>1 DEF Was
<1>2. CASE Was(s, t, c, j) /\ IsNew(t, last, g, m, l, d, k)
  <2>1. t[c][j][1] < l /\ t[d][k] = Target(l, k - g)
    BY <1>2 DEF Was, IsNew
  <2> QED
    BY <2>1 DEF Before, Target
<1>3. CASE IsNew(t, last, g, m, l, c, j) /\ IsNew(t, last, g, m, l, d, k)
  <2>1. /\ t[c][j] = Target(l, j - g) /\ t[d][k] = Target(l, k - g)
        /\ j \in Nat /\ k \in Nat /\ j < k
    BY <1>3 DEF IsNew
  <2> QED
    BY <2>1 DEF Before, Target
<1>4. CASE IsNew(t, last, g, m, l, c, j) /\ Was(s, t, d, k)
  <2>1. c = last /\ d = last /\ j > g /\ k \in 1 .. g /\ j \in Nat /\ j < k
    BY <1>4 DEF IsNew, Was
  <2> QED
    BY <2>1
<1> QED
  BY <1>1, <1>2, <1>3, <1>4

\* In collection b a list begins with its first target and is whole, unless
\* the collection is full; z[l] is the size of list l.
Unbroken(b, z) ==
  \A j \in DOMAIN b :
    /\ b[j][2] > 1 => j > 1 /\ b[j - 1] = Target(b[j][1], b[j][2] - 1)
    /\ b[j][2] < z[b[j][1]] =>
         \/ j = MaxTargets
         \/ j < Len(b) /\ b[j + 1] = Target(b[j][1], b[j][2] + 1)

\* e is b and the first m targets of list l, all of them unless e is full.
Extended(b, e, g, m, l, z) ==
  /\ g \in Nat /\ m \in Nat /\ z[l] \in Nat /\ MaxTargets \in Nat
  /\ DOMAIN b = 1 .. g /\ Len(b) = g
  /\ DOMAIN e = 1 .. g + m /\ Len(e) = g + m
  /\ m < z[l] => g + m = MaxTargets
  /\ \A j \in 1 .. g : e[j] = b[j]
  /\ \A k \in 1 .. m : e[g + k] = Target(l, k)

\* What that does to the lists in it.
LEMMA ListsStay ==
  ASSUME NEW b, NEW e, NEW g, NEW m, NEW l, NEW z,
         Extended(b, e, g, m, l, z), Unbroken(b, z)
  PROVE  Unbroken(e, z)
<1> SUFFICES ASSUME NEW j \in 1 .. g + m
             PROVE  /\ e[j][2] > 1 =>
                         j > 1 /\ e[j - 1] = Target(e[j][1], e[j][2] - 1)
                    /\ e[j][2] < z[e[j][1]] =>
                         \/ j = MaxTargets
                         \/ /\ j < Len(e)
                            /\ e[j + 1] = Target(e[j][1], e[j][2] + 1)
  BY DEF Unbroken, Extended
<1> USE DEF Unbroken, Extended
<1>1. CASE j <= g
  <2>1. j \in 1 .. g /\ e[j] = b[j]
    BY <1>1
  <2>2. j > 1 => j - 1 \in 1 .. g /\ e[j - 1] = b[j - 1]
    BY <1>1
  <2>3. j < g => j + 1 \in 1 .. g /\ e[j + 1] = b[j + 1] /\ j < Len(e)
    BY <1>1
  <2> QED
    BY <2>1, <2>2, <2>3
<1>2. CASE j > g
  <2> DEFINE k == j - g
  <2>1. k \in 1 .. m /\ j = g + k
    BY <1>2
  <2>2. e[j] = Target(l, k)
    BY <2>1
  <2>3. e[j][1] = l /\ e[j][2] = k
    BY <2>2 DEF Target
  <2>4. k > 1 => j > 1 /\ e[j - 1] = Target(l, k - 1)
    <3>1. k > 1 => k - 1 \in 1 .. m /\ j - 1 = g + (k - 1) /\ j > 1
      BY <2>1
    <3> QED
      BY <3>1
  <2>5. k < m => j < Len(e) /\ e[j + 1] = Target(l, k + 1)
    <3>1. k < m => k + 1 \in 1 .. m /\ j + 1 = g + (k + 1) /\ j < g + m
      BY <2>1
    <3> QED
      BY <3>1
  <2>6. k < z[l] => k < m \/ j = MaxTargets
    BY <2>1
  <2> HIDE DEF k
  <2> QED
    BY <2>3, <2>4, <2>5, <2>6
<1> QED
  BY <1>1, <1>2

\* smartCopy.
LEMMA CollectCopy ==
  ASSUME TypeInv, TypeInv', DecodedInv, CollectInv, [Next]_vars, Copy
  PROVE  CollectInv'
<1> DEFINE T == Targets \cup {Zero}
           last == Len(out) + 1
           g == Len(build)
<1> SUFFICES ASSUME NoClipping' PROVE CollectsFaithfully' /\ AllPassed'
  BY DEF CollectInv
<1>1. /\ phase = "copy" /\ build' = Copied /\ out' = out
      /\ sizes' = sizes /\ wire' = wire /\ msg' = <<>>
  BY DEF Copy, Move, Fresh, wireVars, notifyVars
<1>2. /\ NoClipping /\ WholeLists /\ InOrderOnce /\ CollectsFaithfully
      /\ AllPassed /\ Later /\ HeadsKnown
  BY SentStays, HeadsStay DEF Later, CollectInv, CollectsFaithfully
<1>3. /\ out \in Seq(Seq(T)) /\ build \in Seq(T) /\ Copied \in Seq(T)
      /\ MaxTargets \in Nat
  BY CopiedTyped, RecordsTyped DEF TypeInv, TypeOK
<1>4. /\ last \in Nat /\ last >= 1 /\ DOMAIN Collections = 1 .. last
      /\ \A c \in 1 .. last : c < last => Collections[c] = out[c]
      /\ Collections[last] = build
  <2>1. /\ Len(out) \in Nat /\ DOMAIN Append(out, build) = 1 .. Len(out) + 1
        /\ \A c \in 1 .. Len(out) : Append(out, build)[c] = out[c]
        /\ Append(out, build)[Len(out) + 1] = build
    BY <1>3, CollectionsAre
  <2> QED
    BY <2>1 DEF Collections
<1>5. /\ DOMAIN Collections' = 1 .. last
      /\ \A c \in 1 .. last : c < last => Collections'[c] = out[c]
      /\ Collections'[last] = Copied
  <2>1. /\ Len(out) \in Nat /\ DOMAIN Append(out, Copied) = 1 .. Len(out) + 1
        /\ \A c \in 1 .. Len(out) : Append(out, Copied)[c] = out[c]
        /\ Append(out, Copied)[Len(out) + 1] = Copied
    BY <1>3, CollectionsAre
  <2> QED
    BY <1>1, <2>1 DEF Collections
<1> HIDE DEF last, T, Collections
<1>6. PICK m \in 0 .. decoded.nr :
        /\ Len(Copied) = g + m /\ g \in Nat
        /\ DOMAIN Copied = 1 .. g + m /\ DOMAIN build = 1 .. g
        /\ m < decoded.nr => g + m = MaxTargets
        /\ \A j \in 1 .. g : Copied[j] = build[j]
        /\ \A k \in 1 .. m : Copied[g + k] = decoded.targets[k]
  BY CopiedIs DEF TypeInv
<1> HIDE DEF g
<1>7. m \in Nat /\ decoded.nr \in Nat
  BY FoundIs DEF TypeInv
<1>8. \A c \in 1 .. last : c < last => Collections'[c] = Collections[c]
  BY <1>4, <1>5
<1>9. CASE m = 0
  <2>1. Copied = build
    <3>1. /\ DOMAIN Copied = DOMAIN build
          /\ \A j \in DOMAIN build : Copied[j] = build[j]
      BY <1>6, <1>9
    <3> QED
      BY <1>3, <3>1
  <2>2. \A c \in 1 .. last : Collections'[c] = Collections[c]
    BY <1>4, <1>5, <1>8, <2>1
  <2>3. \A c \in DOMAIN Collections' : \A j \in DOMAIN Collections'[c] :
          /\ c \in DOMAIN Collections /\ j \in DOMAIN Collections[c]
          /\ Collections'[c] = Collections[c]
    BY <1>4, <1>5, <2>2
  <2>4. ASSUME NEW c \in DOMAIN Collections', NEW j \in DOMAIN Collections'[c],
               NEW t, t = Collections'[c][j]
        PROVE  Passed(t)'
    <3>1. Passed(t)
      BY <1>2, <2>3, <2>4 DEF AllPassed
    <3> QED
      BY <1>2, <3>1, PassedStays
  <2>5. AllPassed'
    BY <2>4 DEF AllPassed, Passed, Visible
  <2> QED
    BY <1>2, <2>3, <2>5, CollectStays
<1>10. CASE m > 0
  <2>1. PICK l \in 1 .. Len(sizes) :
          /\ decoded.nr = sizes[l]
          /\ \A k \in 1 .. m : /\ decoded.targets[k] = Target(l, k)
                               /\ Target(l, k) \in Targets
                               /\ k \in Nat /\ k <= sizes[l]
          /\ \A t : Passed(t) => t[1] < l
          /\ \A k \in 1 .. Len(wire) :
               wire[k].kind = "head" /\ Visible(wire[k]) => l < wire[k].list
    BY <1>1, <1>2, <1>10, CopiedFresh
  \* Each target was there or is of that list.
  <2>2. ASSUME NEW c \in DOMAIN Collections', NEW j \in DOMAIN Collections'[c]
        PROVE  /\ j \in Nat
               /\ \/ Was(Collections, Collections', c, j)
                  \/ IsNew(Collections', last, g, m, l, c, j)
    <3>1. CASE c < last
      <4>1. Collections'[c] = Collections[c] /\ c \in DOMAIN Collections
        BY <1>4, <1>5, <1>8, <3>1
      <4>2. j \in Nat
        <5>1. Collections[c] = out[c] /\ c \in 1 .. last
          BY <1>4, <3>1, <4>1
        <5>2. c \in 1 .. Len(out)
          BY <1>3, <1>4, <3>1, <5>1 DEF last
        <5>3. out[c] \in Seq(T)
          BY <1>3, <5>2
        <5>4. DOMAIN out[c] = 1 .. Len(out[c])
          BY <5>3
        <5> QED
          BY <4>1, <5>1, <5>4
      <4> QED
        BY <4>1, <4>2 DEF Was
    <3>2. CASE c = last
      <4>1. /\ j \in 1 .. g + m /\ Collections'[c][j] = Copied[j]
            /\ DOMAIN Collections[c] = 1 .. g /\ c \in DOMAIN Collections
            /\ \A k \in 1 .. g : Collections[c][k] = build[k]
        BY <1>4, <1>5, <1>6, <3>2
      <4>2. CASE j <= g
        <5>1. j \in 1 .. g
          BY <4>1, <4>2
        <5> QED
          BY <1>6, <4>1, <5>1 DEF Was
      <4>3. CASE j > g
        <5>1. j - g \in 1 .. m /\ j = g + (j - g) /\ j \in g + 1 .. g + m
          BY <1>6, <1>7, <4>1, <4>3
        <5>2. Copied[j] = Target(l, j - g)
          BY <1>6, <2>1, <5>1
        <5> QED
          BY <3>2, <4>1, <5>1, <5>2 DEF IsNew
      <4> QED
        BY <1>6, <4>1, <4>2, <4>3
    <3> QED
      BY <1>4, <1>5, <3>1, <3>2
  <2>3. \A c \in DOMAIN Collections : \A j \in DOMAIN Collections[c] :
          /\ Passed(Collections[c][j]) /\ Collections[c][j][1] < l
    BY <1>2, <2>1 DEF AllPassed
  \* In order, and each once.
  <2>4. InOrderOnce'
    <3>1. Ordered(Collections)
      BY <1>2 DEF InOrderOnce, Ordered
    <3>2. DOMAIN Collections[last] = 1 .. g
      BY <1>4, <1>6
    <3>3. Grown(Collections, Collections', last, g, m, l)
      BY <1>4, <1>5, <1>6, <1>7, <2>2, <2>3, <3>2 DEF Grown
    <3>4. Ordered(Collections')
      BY <3>1, <3>3, OrderStays
    <3> QED
      BY <3>4 DEF InOrderOnce, Before, Ordered
  \* Whole lists.
  <2>5. WholeLists'
    <3>1. \A c \in DOMAIN Collections : Unbroken(Collections[c], sizes)
      BY <1>2 DEF WholeLists, Unbroken
    <3>2. ASSUME NEW c \in DOMAIN Collections'
          PROVE  Unbroken(Collections'[c], sizes)
      <4>1. CASE c < last
        <5>1. c \in DOMAIN Collections /\ Collections'[c] = Collections[c]
          BY <1>4, <1>5, <1>8, <4>1
        <5> QED
          BY <3>1, <5>1
      <4>2. CASE c = last
        <5>1. Unbroken(build, sizes)
          BY <1>4, <3>1
        <5>2. /\ \A k \in 1 .. m : Copied[g + k] = Target(l, k)
              /\ sizes[l] \in Nat /\ Len(build) = g
              /\ m < sizes[l] => g + m = MaxTargets
          BY <1>6, <1>7, <2>1 DEF g
        <5>3. Extended(build, Copied, g, m, l, sizes)
          BY <1>3, <1>6, <1>7, <5>2 DEF Extended
        <5>4. Unbroken(Copied, sizes)
          BY <5>1, <5>3, ListsStay
        <5> QED
          BY <1>5, <4>2, <5>4
      <4> QED
        BY <1>4, <1>5, <4>1, <4>2
    <3> QED
      BY <1>1, <3>2 DEF WholeLists, Target, Unbroken
  \* All of them are passed.
  <2>6. ASSUME NEW c \in DOMAIN Collections', NEW j \in DOMAIN Collections'[c],
               NEW t, t = Collections'[c][j]
        PROVE  Passed(t)'
    <3>1. CASE Was(Collections, Collections', c, j)
      <4>1. Passed(t)
        BY <2>3, <2>6, <3>1 DEF Was
      <4> QED
        BY <1>2, <4>1, PassedStays
    <3>2. CASE IsNew(Collections', last, g, m, l, c, j)
      <4>1. PICK k \in 1 .. m : t = Target(l, k)
        BY <1>6, <1>7, <2>6, <3>2 DEF IsNew
      <4>2. t \in Targets /\ t[1] = l /\ t[2] = k /\ l <= Len(sizes)
            /\ k <= sizes[l]
        BY <2>1, <4>1 DEF Target
      <4>3. Len(msg') = 0
        BY <1>1
      <4> QED
        BY <1>1, <2>1, <4>2, <4>3 DEF Passed, Visible, Targets
    <3> QED
      BY <2>2, <3>1, <3>2
  <2>7. AllPassed'
    BY <2>6 DEF AllPassed, Passed, Visible
  <2> QED
    BY <2>4, <2>5, <2>7 DEF CollectsFaithfully
<1> QED
  BY <1>7, <1>9, <1>10

\* At the start nothing is collected.
LEMMA CollectInit == Init => CollectInv
<1> SUFFICES ASSUME Init PROVE CollectInv
  OBVIOUS
<1>1. DOMAIN Collections = {1} /\ DOMAIN Collections[1] = {}
  BY DEF Init, Collections
<1> QED
  BY <1>1 DEF CollectInv, CollectsFaithfully, WholeLists, InOrderOnce, AllPassed

LEMMA CollectStep ==
  TypeInv /\ TypeInv' /\ DecodedInv /\ CollectInv /\ [Next]_vars => CollectInv'
BY CollectCopy, CollectOthers

LEMMA CollectHolds == Spec => []CollectInv
<1> QED
  BY CollectInit, CollectStep, TypeHolds, DecodedHolds, PTL DEF Spec

\* However the reads cut the stream and the notify cycle is set, smartCopy
\* collects whole lists, in order and each once (CollectsFaithfully), for any
\* number of lists of any sizes.
THEOREM CollectsInOrder == Spec => []CollectsFaithfully
<1>1. CollectInv => CollectsFaithfully
  BY DEF CollectInv, CollectsFaithfully, WholeLists, InOrderOnce
<1> QED
  BY <1>1, CollectHolds, PTL
=============================================================================
