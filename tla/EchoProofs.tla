----------------------------- MODULE EchoProofs -----------------------------
(***************************************************************************)
(* The echo server for any number of peers, any buffer and any room: one    *)
(* socket per client, nothing lost while no pass overran, and own tokens in *)
(* order even then. A pass that erases visits destroyed objects; what saves *)
(* the sockets is that these bear the number of the last client, or of a    *)
(* socket the pass has closed, on which read fails.                         *)
(***************************************************************************)
EXTENDS EchoServer, NatLemmas, SequenceTheorems, FiniteSetTheorems

Texts == Seq({"x", "nl", "exit", "hello"})
\* Concatenation under a name of its own, for steps that only regroup.
Cat(s, t) == s \o t
\* The four parts of what a client holds, and what they add up to.
Whole(a, w, r, q) == Cat(Cat(Cat(a, w), r), q)
Held(c) == Whole(got[c.fd], c.wr_buf, c.rd_buf, inq[c.fd])
Due(p) == Cat(<<"hello">>, sent[p])

Ctx == [fd : Peers, dir : {DIR_IN, DIR_OUT}, rd_buf : Texts, wr_buf : Texts]
Passing == pc \in {"pass", "read", "write"}

Types ==
    /\ slots \in Seq(Ctx) /\ size \in 0 .. Len(slots)
    /\ end \in Nat /\ it \in 1 .. end + 1
    /\ pc \in {"select", "accept", "pass", "read", "write", "stopped", "down"}
    /\ Passing => end = Len(slots)
    /\ pc = "accept" => size = Len(slots) /\ it = 1
    /\ pc \in {"read", "write"} => it <= end
    /\ backlog \in Seq(Peers) /\ open \subseteq Peers /\ hungup \subseteq Peers
    /\ inq \in [Peers -> Texts] /\ sent \in [Peers -> Texts] /\ got \in [Peers -> Texts]
    /\ unread \in [Peers -> 0 .. Room]

\* Each client has a socket of its own, open and not waiting to be accepted.
Sockets ==
    /\ open = {slots[i].fd : i \in 1 .. size}
    /\ \A i, j \in 1 .. size : slots[i].fd = slots[j].fd => i = j
    /\ \A i, j \in 1 .. Len(backlog) : backlog[i] = backlog[j] => i = j
    /\ \A i \in 1 .. Len(backlog) : backlog[i] \notin open

\* The destroyed objects bear the number of the last client, or of a socket
\* that this pass has closed; the pass is behind the last client by then.
Destroyed ==
    Passing => \A k \in size + 1 .. Len(slots) :
        /\ slots[k].fd \in open => slots[k].fd = slots[size].fd
        /\ slots[k].fd \notin open => it > size
        /\ k > it \/ (k = it /\ pc # "read") => slots[k].wr_buf = <<>>

\* Nothing was read from or written to a socket that is not accepted.
Waiting ==
    \A p \in Peers :
        p \notin open /\ (p \notin hungup \/ \E i \in 1 .. Len(backlog) : backlog[i] = p) =>
            got[p] = <<>> /\ inq[p] = sent[p]

Exact ==
    ~overrun => /\ pc \in {"read", "write"} => it <= size
                /\ \A i \in 1 .. size : slots[i].fd \notin hungup => Held(slots[i]) = Due(slots[i].fd)

InOrder ==
    /\ \A i \in 1 .. size : SubSequence(Held(slots[i]), Due(slots[i].fd))
    /\ \A p \in Peers : SubSequence(got[p], Due(p))

IInv == Types /\ Sockets /\ Destroyed /\ Waiting /\ Exact /\ InOrder

---------------------------------------------------------------------------
(* Texts *)

LEMMA TextFacts ==
  /\ <<>> \in Texts /\ <<"hello">> \in Texts
  /\ \A s, t \in Texts : Cat(s, t) \in Texts
  /\ \A s \in Texts : Cat(s, <<>>) = s /\ Cat(<<>>, s) = s
BY ConcatProperties, ConcatEmptySeq DEF Texts, Cat

LEMMA Assoc == \A s, t, u \in Texts : Cat(Cat(s, t), u) = Cat(s, Cat(t, u))
BY ConcatAssociative DEF Texts, Cat

\* A text cut in two is the two together.
LEMMA Cut ==
  ASSUME NEW s \in Texts, NEW k \in 0 .. Len(s)
  PROVE  /\ SubSeq(s, 1, k) \in Texts /\ SubSeq(s, k + 1, Len(s)) \in Texts
         /\ Cat(SubSeq(s, 1, k), SubSeq(s, k + 1, Len(s))) = s
<1>1. Len(s) \in Nat /\ DOMAIN s = 1 .. Len(s)
  BY LenProperties DEF Texts
<1>2. 1 \in 1 .. Len(s) + 1 /\ k \in 1 - 1 .. Len(s) /\ Len(s) \in k .. Len(s)
  BY <1>1
<1>3. SubSeq(s, 1, k) \o SubSeq(s, k + 1, Len(s)) = SubSeq(s, 1, Len(s))
  BY <1>2, ConcatAdjacentSubSeq DEF Texts
<1>4. SubSeq(s, 1, Len(s)) = s
  BY SubSeqFull DEF Texts
<1>5. \A m, n \in Int : m >= 1 /\ n <= Len(s) => SubSeq(s, m, n) \in Texts
  <2> SUFFICES ASSUME NEW m \in Int, NEW n \in Int, m >= 1, n <= Len(s)
               PROVE  SubSeq(s, m, n) \in Texts
    OBVIOUS
  <2>1. \A i \in m .. n : s[i] \in {"x", "nl", "exit", "hello"}
    BY <1>1, ElementOfSeq DEF Texts
  <2> QED BY <2>1, SubSeqProperties DEF Texts
<1>6. SubSeq(s, 1, k) \in Texts /\ SubSeq(s, k + 1, Len(s)) \in Texts
  <2>1. k \in Int /\ k + 1 \in Int /\ k + 1 >= 1 /\ k <= Len(s) /\ 1 \in Int /\ Len(s) \in Int
    BY <1>1
  <2> QED BY <1>5, <2>1
<1> QED BY <1>3, <1>4, <1>6, Zenon DEF Cat

\* What a client holds stays the same when a piece moves from one part to the one before, and
\* grows at the end when the last part does.
LEMMA MovePiece ==
  ASSUME NEW a \in Texts, NEW w \in Texts, NEW r \in Texts, NEW q \in Texts, NEW e \in Texts
  PROVE  /\ Whole(Cat(a, e), w, r, q) = Whole(a, Cat(e, w), r, q)
         /\ Whole(a, Cat(w, e), r, q) = Whole(a, w, Cat(e, r), q)
         /\ Whole(a, w, Cat(r, e), q) = Whole(a, w, r, Cat(e, q))
         /\ Whole(a, w, r, Cat(q, e)) = Cat(Whole(a, w, r, q), e)
<1>1. /\ Cat(a, e) \in Texts /\ Cat(a, w) \in Texts /\ Cat(w, e) \in Texts
      /\ Cat(Cat(a, w), r) \in Texts
  BY TextFacts
<1> QED BY <1>1, Assoc DEF Whole

LEMMA CatFacts ==
  ASSUME NEW s \in Texts, NEW t \in Texts
  PROVE  /\ Len(s) \in Nat /\ Len(t) \in Nat /\ Len(Cat(s, t)) = Len(s) + Len(t)
         /\ \A i \in 1 .. Len(s) : Cat(s, t)[i] = s[i]
         /\ \A i \in 1 .. Len(t) : Cat(s, t)[Len(s) + i] = t[i]
<1>1. Len(s) \in Nat /\ Len(t) \in Nat
  BY LenProperties DEF Texts
<1>2. /\ Len(Cat(s, t)) = Len(s) + Len(t)
      /\ \A i \in 1 .. Len(s) + Len(t) :
           Cat(s, t)[i] = IF i <= Len(s) THEN s[i] ELSE t[i - Len(s)]
  BY ConcatProperties DEF Texts, Cat
<1>3. ASSUME NEW i \in 1 .. Len(t) PROVE Cat(s, t)[Len(s) + i] = t[i]
  <2>1. Len(s) + i \in 1 .. Len(s) + Len(t) /\ ~ (Len(s) + i <= Len(s)) /\ Len(s) + i - Len(s) = i
    BY <1>1
  <2> QED BY <1>2, <2>1
<1>4. ASSUME NEW i \in 1 .. Len(s) PROVE Cat(s, t)[i] = s[i]
  <2>1. i \in 1 .. Len(s) + Len(t) /\ i <= Len(s)
    BY <1>1
  <2> QED BY <1>2, <2>1
<1> QED BY <1>1, <1>2, <1>3, <1>4

\* f picks s out of t.
Picks(f, s, t) ==
  /\ f \in [1 .. Len(s) -> 1 .. Len(t)]
  /\ \A i, j \in 1 .. Len(s) : i < j => f[i] < f[j]
  /\ \A i \in 1 .. Len(s) : s[i] = t[f[i]]

LEMMA SubSelf == ASSUME NEW t \in Texts PROVE SubSequence(t, t)
<1>1. Len(t) \in Nat
  BY LenProperties DEF Texts
<1>2. Picks([i \in 1 .. Len(t) |-> i], t, t)
  BY <1>1 DEF Picks
<1> QED BY <1>2 DEF SubSequence, Picks

\* Leaving out a piece in the middle.
LEMMA SubSkip ==
  ASSUME NEW a \in Texts, NEW b \in Texts, NEW c \in Texts, NEW t \in Texts,
         SubSequence(Cat(Cat(a, b), c), t)
  PROVE  SubSequence(Cat(a, c), t)
<1> DEFINE s == Cat(Cat(a, b), c)
           u == Cat(a, c)
           src(i) == IF i <= Len(a) THEN i ELSE i + Len(b)
<1>1. Cat(a, b) \in Texts
  BY TextFacts
<1>2. /\ Len(a) \in Nat /\ Len(b) \in Nat /\ Len(c) \in Nat
      /\ Len(s) = Len(a) + Len(b) + Len(c) /\ Len(u) = Len(a) + Len(c)
  BY <1>1, CatFacts
<1>a. Len(Cat(a, b)) = Len(a) + Len(b)
  BY CatFacts
<1>3. \A i \in 1 .. Len(a) : s[i] = a[i] /\ u[i] = a[i]
  <2> SUFFICES ASSUME NEW i \in 1 .. Len(a) PROVE s[i] = a[i] /\ u[i] = a[i]
    OBVIOUS
  <2>1. i \in 1 .. Len(Cat(a, b))
    BY <1>2, <1>a
  <2>2. Cat(a, b)[i] = a[i] /\ u[i] = a[i]
    BY CatFacts
  <2> QED BY <1>1, <2>1, <2>2, CatFacts
<1>4. \A i \in 1 .. Len(c) : s[Len(a) + Len(b) + i] = c[i] /\ u[Len(a) + i] = c[i]
  <2>1. \A i \in 1 .. Len(c) : s[Len(Cat(a, b)) + i] = c[i]
    BY <1>1, CatFacts
  <2>2. \A i \in 1 .. Len(c) : u[Len(a) + i] = c[i]
    BY CatFacts
  <2> HIDE DEF s, u
  <2> QED BY <1>2, <1>a, <2>1, <2>2
<1>5. PICK f : Picks(f, s, t)
  BY DEF SubSequence, Picks
<1> HIDE DEF s, u
<1>6. \A i \in 1 .. Len(u) : src(i) \in 1 .. Len(s) /\ u[i] = s[src(i)]
  <2> SUFFICES ASSUME NEW i \in 1 .. Len(u) PROVE src(i) \in 1 .. Len(s) /\ u[i] = s[src(i)]
    OBVIOUS
  <2>1. CASE i <= Len(a)
    <3>1. i \in 1 .. Len(a) /\ src(i) = i /\ i \in 1 .. Len(s)
      BY <1>2, <2>1
    <3> QED BY <1>3, <3>1
  <2>2. CASE ~ (i <= Len(a))
    <3>1. /\ i - Len(a) \in 1 .. Len(c) /\ Len(a) + (i - Len(a)) = i
          /\ src(i) = Len(a) + Len(b) + (i - Len(a)) /\ src(i) \in 1 .. Len(s)
      BY <1>2, <2>2
    <3> QED BY <1>4, <3>1
  <2> QED BY <2>1, <2>2
<1>7. \A i, j \in 1 .. Len(u) : i < j => src(i) < src(j)
  BY <1>2
<1> HIDE DEF src
<1>8. Picks([i \in 1 .. Len(u) |-> f[src(i)]], u, t)
  <2> DEFINE g == [i \in 1 .. Len(u) |-> f[src(i)]]
  <2>1. g \in [1 .. Len(u) -> 1 .. Len(t)]
    BY <1>5, <1>6 DEF Picks
  <2>2. \A i, j \in 1 .. Len(u) : i < j => g[i] < g[j]
    BY <1>5, <1>6, <1>7 DEF Picks
  <2>3. \A i \in 1 .. Len(u) : u[i] = t[g[i]]
    BY <1>5, <1>6 DEF Picks
  <2> QED BY <2>1, <2>2, <2>3 DEF Picks
<1>9. SubSequence(u, t)
  BY <1>8 DEF SubSequence, Picks
<1> QED BY <1>9 DEF u

\* Leaving out the end.
LEMMA SubPrefix ==
  ASSUME NEW a \in Texts, NEW b \in Texts, NEW t \in Texts, SubSequence(Cat(a, b), t)
  PROVE  SubSequence(a, t)
<1>1. Cat(Cat(a, b), <<>>) = Cat(a, b) /\ Cat(a, <<>>) = a /\ <<>> \in Texts
  BY TextFacts
<1> QED BY <1>1, SubSkip

\* The same end on both sides.
LEMMA SubGrows ==
  ASSUME NEW s \in Texts, NEW t \in Texts, NEW e \in Texts, SubSequence(s, t)
  PROVE  SubSequence(Cat(s, e), Cat(t, e)) /\ SubSequence(s, Cat(t, e))
<1> DEFINE u == Cat(s, e)
           v == Cat(t, e)
<1>1. /\ Len(s) \in Nat /\ Len(t) \in Nat /\ Len(e) \in Nat
      /\ Len(u) = Len(s) + Len(e) /\ Len(v) = Len(t) + Len(e)
      /\ \A i \in 1 .. Len(s) : u[i] = s[i]
      /\ \A i \in 1 .. Len(t) : v[i] = t[i]
      /\ \A i \in 1 .. Len(e) : u[Len(s) + i] = e[i] /\ v[Len(t) + i] = e[i]
  BY CatFacts
<1>2. PICK f : Picks(f, s, t)
  BY DEF SubSequence, Picks
<1> DEFINE g == [i \in 1 .. Len(u) |-> IF i <= Len(s) THEN f[i] ELSE Len(t) + (i - Len(s))]
<1> HIDE DEF u, v
<1>3. \A i \in 1 .. Len(s) : f[i] \in 1 .. Len(t) /\ s[i] = t[f[i]]
  BY <1>2 DEF Picks
<1>4. \A i \in 1 .. Len(u) :
        \/ i \in 1 .. Len(s) /\ g[i] = f[i]
        \/ i > Len(s) /\ i - Len(s) \in 1 .. Len(e) /\ g[i] = Len(t) + (i - Len(s))
              /\ Len(s) + (i - Len(s)) = i
  BY <1>1
<1> HIDE DEF g
<1>5. \A i \in 1 .. Len(u) : g[i] \in 1 .. Len(v) /\ u[i] = v[g[i]]
  <2> SUFFICES ASSUME NEW i \in 1 .. Len(u) PROVE g[i] \in 1 .. Len(v) /\ u[i] = v[g[i]]
    OBVIOUS
  <2>1. CASE i \in 1 .. Len(s) /\ g[i] = f[i]
    <3>1. f[i] \in 1 .. Len(t) /\ s[i] = t[f[i]] /\ f[i] \in 1 .. Len(v)
      BY <1>1, <1>3, <2>1
    <3> QED BY <1>1, <2>1, <3>1
  <2>2. CASE i - Len(s) \in 1 .. Len(e) /\ g[i] = Len(t) + (i - Len(s)) /\ Len(s) + (i - Len(s)) = i
    <3>1. g[i] \in 1 .. Len(v)
      BY <1>1, <2>2
    <3> QED BY <1>1, <2>2, <3>1
  <2> QED BY <1>4, <2>1, <2>2
<1>6. \A i, j \in 1 .. Len(u) : i < j => g[i] < g[j]
  <2> SUFFICES ASSUME NEW i \in 1 .. Len(u), NEW j \in 1 .. Len(u), i < j PROVE g[i] < g[j]
    OBVIOUS
  <2>1. CASE j \in 1 .. Len(s)
    <3>1. i \in 1 .. Len(s) /\ g[i] = f[i] /\ g[j] = f[j]
      BY <1>1, <1>4, <2>1
    <3> QED BY <1>2, <2>1, <3>1 DEF Picks
  <2>2. CASE j \notin 1 .. Len(s)
    <3>1. j - Len(s) >= 1 /\ g[j] = Len(t) + (j - Len(s))
      BY <1>1, <1>4, <2>2
    <3>2. CASE i \in 1 .. Len(s)
      <4>1. g[i] = f[i] /\ f[i] \in 1 .. Len(t)
        BY <1>1, <1>3, <1>4, <3>2
      <4> QED BY <1>1, <3>1, <4>1
    <3>3. CASE i \notin 1 .. Len(s)
      <4>1. g[i] = Len(t) + (i - Len(s))
        BY <1>4, <3>3
      <4> QED BY <1>1, <3>1, <4>1
    <3> QED BY <3>2, <3>3
  <2> QED BY <2>1, <2>2
<1>7. g \in [1 .. Len(u) -> 1 .. Len(v)]
  BY <1>5 DEF g
<1>8. SubSequence(u, v)
  BY <1>5, <1>6, <1>7 DEF SubSequence
<1>9. f \in [1 .. Len(s) -> 1 .. Len(v)] /\ \A i \in 1 .. Len(s) : s[i] = v[f[i]]
  <2>1. \A i \in 1 .. Len(s) : f[i] \in 1 .. Len(v)
    BY <1>1, <1>3
  <2> QED BY <1>1, <1>2, <1>3, <2>1 DEF Picks
<1>10. SubSequence(s, v)
  BY <1>2, <1>9 DEF SubSequence, Picks
<1> QED BY <1>8, <1>10 DEF u, v

\* A client that lost a piece of its buffers still holds its tokens in order.
LEMMA DropPiece ==
  ASSUME NEW a \in Texts, NEW w \in Texts, NEW r \in Texts, NEW q \in Texts, NEW e \in Texts,
         NEW t \in Texts
  PROVE  /\ SubSequence(Whole(a, w, r, q), t) => SubSequence(Whole(a, <<>>, r, q), t)
         /\ SubSequence(Whole(a, w, r, Cat(e, q)), t) => SubSequence(Whole(a, w, r, q), t)
         /\ SubSequence(Whole(a, w, r, q), t) => SubSequence(a, t)
<1> DEFINE aw == Cat(a, w)
           awr == Cat(aw, r)
           rq == Cat(r, q)
           wrq == Cat(w, rq)
<1>1. aw \in Texts /\ awr \in Texts /\ rq \in Texts /\ wrq \in Texts
  BY TextFacts
<1>2. /\ Whole(a, w, r, q) = Cat(aw, rq) /\ Whole(a, <<>>, r, q) = Cat(a, rq)
      /\ Whole(a, w, r, Cat(e, q)) = Cat(Cat(awr, e), q) /\ Whole(a, w, r, q) = Cat(awr, q)
  BY <1>1, TextFacts, Assoc DEF Whole
<1>3. Whole(a, w, r, q) = Cat(a, wrq)
  BY <1>1, <1>2, Assoc
<1> HIDE DEF wrq, rq, awr
<1>4. SubSequence(Cat(aw, rq), t) => SubSequence(Cat(a, rq), t)
  BY <1>1, SubSkip
<1> HIDE DEF aw
<1>5. SubSequence(Cat(Cat(awr, e), q), t) => SubSequence(Cat(awr, q), t)
  BY <1>1, SubSkip
<1>6. SubSequence(Cat(a, wrq), t) => SubSequence(a, t)
  BY <1>1, SubPrefix
<1> QED BY <1>2, <1>3, <1>4, <1>5, <1>6

---------------------------------------------------------------------------
(* The invariant *)

LEMMA SlotFacts ==
  ASSUME Types
  PROVE  /\ Len(slots) \in Nat /\ size \in Nat /\ size <= Len(slots) /\ it \in Nat \ {0} /\ end \in Nat
         /\ \A i \in 1 .. Len(slots) :
              /\ slots[i] \in Ctx /\ slots[i].fd \in Peers
              /\ slots[i].wr_buf \in Texts /\ slots[i].rd_buf \in Texts
         /\ Len(backlog) \in Nat /\ \A i \in 1 .. Len(backlog) : backlog[i] \in Peers
         /\ \A p \in Peers : /\ got[p] \in Texts /\ inq[p] \in Texts /\ sent[p] \in Texts
                              /\ Due(p) \in Texts /\ unread[p] \in 0 .. Room
<1>1. Len(slots) \in Nat /\ Len(backlog) \in Nat
  BY LenProperties DEF Types
<1>2. \A i \in 1 .. Len(slots) : slots[i] \in Ctx
  BY ElementOfSeq DEF Types
<1>3. \A i \in 1 .. Len(slots) : slots[i].fd \in Peers /\ slots[i].wr_buf \in Texts /\ slots[i].rd_buf \in Texts
  BY <1>2 DEF Ctx
<1>4. \A i \in 1 .. Len(backlog) : backlog[i] \in Peers
  BY ElementOfSeq DEF Types
<1>5. \A p \in Peers : Due(p) \in Texts
  BY TextFacts DEF Types, Due
<1>6. size \in Nat /\ size <= Len(slots) /\ it \in Nat \ {0} /\ end \in Nat
  BY <1>1 DEF Types
<1>7. \A p \in Peers : got[p] \in Texts /\ inq[p] \in Texts /\ sent[p] \in Texts /\ unread[p] \in 0 .. Room
  BY DEF Types
<1> QED BY <1>1, <1>2, <1>3, <1>4, <1>5, <1>6, <1>7

LEMMA InitIInv == Init => IInv
<1> SUFFICES ASSUME Init PROVE IInv
  OBVIOUS
<1>1. <<>> \in Seq(Ctx) /\ <<>> \in Seq(Peers) /\ <<>> \in Texts /\ Len(<<>>) = 0
  BY EmptySeq DEF Texts
<1>2. Types
  <2>1. /\ inq \in [Peers -> Texts] /\ sent \in [Peers -> Texts] /\ got \in [Peers -> Texts]
        /\ unread \in [Peers -> 0 .. Room]
    BY <1>1, EchoAssumption DEF Init
  <2>2. slots \in Seq(Ctx) /\ size \in 0 .. Len(slots) /\ backlog \in Seq(Peers)
    BY <1>1 DEF Init
  <2>3. end \in Nat /\ it \in 1 .. end + 1 /\ pc = "select" /\ open = {} /\ hungup = {}
    BY DEF Init
  <2> QED BY <2>1, <2>2, <2>3 DEF Types, Passing
<1>3. Sockets /\ Destroyed /\ Exact
  BY <1>1 DEF Init, Sockets, Destroyed, Exact, Passing
<1>4. Waiting
  BY DEF Init, Waiting
<1>5. InOrder
  <2>1. ASSUME NEW p \in Peers PROVE SubSequence(got[p], Due(p))
    <3>1. /\ got[p] = <<>> /\ Due(p) \in Texts /\ <<>> \in Texts /\ Cat(<<>>, Due(p)) = Due(p)
      BY <1>2, SlotFacts, TextFacts DEF Init
    <3>2. SubSequence(Cat(<<>>, Due(p)), Due(p))
      BY <3>1, SubSelf
    <3> QED BY <3>1, <3>2, SubPrefix
  <2> QED BY <1>1, <2>1 DEF Init, InOrder
<1> QED BY <1>2, <1>3, <1>4, <1>5 DEF IInv

\* Steps of the loop and the handlers that only move on.
LEMMA ControlKeeps ==
  ASSUME IInv,
         UNCHANGED <<slots, size, end, open, peerVars>>,
         \/ Stop \/ Visit \/ PassEnds \/ Crash \/ ReadBlocks \/ ReadFails \/ WriteBlocks
         \/ pc' = "down" /\ UNCHANGED <<it, overrun>>
  PROVE  IInv'
<1>1. UNCHANGED <<slots, size, end, open, backlog, inq, sent, got, unread, hungup>>
  BY DEF peerVars
<1>2. Types /\ Len(slots) \in Nat /\ size \in Nat /\ it \in Nat \ {0} /\ end \in Nat
  BY SlotFacts DEF IInv
<1>3. Sockets' /\ Waiting' /\ InOrder'
  BY <1>1 DEF IInv, Sockets, Waiting, InOrder, Held, Due
<1>4. /\ it' \in 1 .. end + 1 /\ it' >= it
      /\ overrun => overrun'
      /\ pc' \in {"select", "accept", "pass", "read", "write", "stopped", "down"} /\ pc' # "accept"
      /\ Passing' => Passing
      /\ pc' \in {"read", "write"} => it' <= end /\ (it' > size => overrun') /\ it' = it /\ pc = "pass"
      /\ pc' = "pass" => it' = it + 1
  <2>1. CASE Visit
    <3>1. pc = "pass" /\ it <= end /\ pc' \in {"read", "write", "pass"} /\ it' \in {it, it + 1}
          /\ (pc' = "pass" <=> it' = it + 1)
      BY <1>2, <2>1 DEF Visit
    <3>2. (overrun => overrun') /\ (it > size => overrun')
      BY <2>1, Zenon DEF Visit
    <3> QED BY <1>1, <1>2, <3>1, <3>2 DEF Passing
  <2>2. CASE ReadBlocks \/ WriteBlocks
    BY <1>1, <1>2, <2>2 DEF Types, ReadBlocks, WriteBlocks, NextClient, Passing
  <2>3. CASE Stop \/ PassEnds \/ Crash \/ ReadFails \/ (pc' = "down" /\ UNCHANGED <<it, overrun>>)
    BY <1>1, <1>2, <2>3 DEF Types, Stop, PassEnds, Crash, ReadFails, Passing
  <2> QED BY <2>1, <2>2, <2>3
<1>5. Types'
  BY <1>1, <1>2, <1>4 DEF Types, Passing
<1>6. Destroyed'
  <2> SUFFICES ASSUME Passing', NEW k \in size + 1 .. Len(slots)
               PROVE  /\ slots[k].fd \in open => slots[k].fd = slots[size].fd
                      /\ slots[k].fd \notin open => it' > size
                      /\ k > it' \/ (k = it' /\ pc' # "read") => slots[k].wr_buf = <<>>
    BY <1>1 DEF Destroyed
  <2>1. /\ slots[k].fd \in open => slots[k].fd = slots[size].fd
        /\ slots[k].fd \notin open => it > size
        /\ k > it \/ (k = it /\ pc # "read") => slots[k].wr_buf = <<>>
    BY <1>4 DEF IInv, Destroyed
  <2>2. k > it' \/ (k = it' /\ pc' # "read") => k > it \/ (k = it /\ pc # "read")
    BY <1>2, <1>4 DEF Passing
  <2> QED BY <1>2, <1>4, <2>1, <2>2
<1>7. Exact'
  BY <1>1, <1>2, <1>4 DEF IInv, Exact, Held, Due, Types
<1> QED BY <1>3, <1>5, <1>6, <1>7 DEF IInv

\* A peer connects, receives or hangs up: no text changes.
LEMMA PeerKeeps ==
  ASSUME IInv, NEW p \in Peers, PeerConnect(p) \/ PeerReceive(p) \/ PeerHangup(p)
  PROVE  IInv'
<1>1. UNCHANGED <<slots, size, running, pc, it, end, open, overrun, inq, sent, got>>
  BY DEF PeerConnect, PeerReceive, PeerHangup, srvVars
<1>2. hungup \subseteq hungup'
  BY DEF PeerConnect, PeerReceive, PeerHangup
<1>3. Destroyed' /\ Exact' /\ InOrder'
  BY <1>1, <1>2 DEF IInv, Destroyed, Exact, InOrder, Held, Due, Passing
<1>4. CASE PeerConnect(p)
  <2>1. /\ backlog' = Append(backlog, p) /\ p \notin open /\ p \notin hungup
        /\ \A i \in 1 .. Len(backlog) : backlog[i] # p
        /\ hungup' = hungup /\ unread' = unread
    BY <1>4 DEF PeerConnect, Connected, Contains
  <2>2. /\ Len(backlog) \in Nat /\ backlog' \in Seq(Peers) /\ Len(backlog') = Len(backlog) + 1
        /\ \A i \in 1 .. Len(backlog) : backlog'[i] = backlog[i]
        /\ backlog'[Len(backlog) + 1] = p
    BY <2>1, AppendProperties, LenProperties DEF IInv, Types
  <2>3. \A i \in 1 .. Len(backlog') : i \in 1 .. Len(backlog) \/ (i = Len(backlog) + 1 /\ backlog'[i] = p)
    BY <2>2
  <2>4. Types'
    BY <1>1, <2>1, <2>2 DEF IInv, Types, Passing
  <2>5. Sockets'
    BY <1>1, <2>1, <2>2, <2>3 DEF IInv, Sockets
  <2>6. Waiting'
    BY <1>1, <2>1, <2>2, <2>3 DEF IInv, Waiting
  <2> QED BY <1>3, <2>4, <2>5, <2>6 DEF IInv
<1>5. CASE PeerReceive(p) \/ PeerHangup(p)
  <2>1. backlog' = backlog
    BY <1>5 DEF PeerReceive, PeerHangup
  <2>2. unread' \in [Peers -> 0 .. Room] /\ hungup' \subseteq Peers
    <3>1. unread \in [Peers -> 0 .. Room] /\ hungup \subseteq Peers
      BY DEF IInv, Types
    <3>2. 0 \in 0 .. Room
      BY EchoAssumption
    <3>3. CASE PeerReceive(p)
      BY <3>1, <3>2, <3>3 DEF PeerReceive
    <3>4. CASE PeerHangup(p)
      BY <3>1, <3>4 DEF PeerHangup
    <3> QED BY <1>5, <3>3, <3>4
  <2>3. Types'
    BY <1>1, <2>1, <2>2 DEF IInv, Types, Passing
  <2>4. Sockets' /\ Waiting'
    BY <1>1, <1>2, <2>1 DEF IInv, Sockets, Waiting
  <2> QED BY <1>3, <2>3, <2>4 DEF IInv
<1> QED BY <1>4, <1>5

\* What a peer sends is at the end of what it sent and of what it has to get.
LEMMA PeerSendKeeps == ASSUME IInv, NEW p \in Peers, NEW t \in Tokens, PeerSend(p, t) PROVE IInv'
<1>1. /\ UNCHANGED <<slots, size, pc, it, end, open, overrun, backlog, got, unread, hungup>>
      /\ inq' = [inq EXCEPT ![p] = Append(@, t)] /\ sent' = [sent EXCEPT ![p] = Append(@, t)]
      /\ p \in open \/ \E i \in 1 .. Len(backlog) : backlog[i] = p
      /\ p \notin hungup
  BY DEF PeerSend, srvVars, Connected, Contains
<1>2. Types
  BY DEF IInv
<1> DEFINE e == <<t>>
<1>3. e \in Texts /\ Append(inq[p], t) = Cat(inq[p], e) /\ Append(sent[p], t) = Cat(sent[p], e)
      /\ inq[p] \in Texts /\ sent[p] \in Texts
  <2>1. t \in {"x", "nl", "exit", "hello"}
    BY EchoAssumption
  <2>2. inq[p] \in Texts /\ sent[p] \in Texts
    BY <1>2, SlotFacts
  <2>3. e \in Texts
    BY <2>1 DEF Texts
  <2>4. \A s \in Texts : Append(s, t) = s \o <<t>>
    BY <2>1, AppendIsConcat DEF Texts
  <2>5. \A s \in Texts : Append(s, t) = Cat(s, e)
    BY <2>4, Zenon DEF Cat
  <2> QED BY <2>2, <2>3, <2>5
<1> HIDE DEF e
<1>4. /\ inq' \in [Peers -> Texts] /\ inq'[p] = Cat(inq[p], e) /\ \A q \in Peers \ {p} : inq'[q] = inq[q]
      /\ sent' \in [Peers -> Texts] /\ sent'[p] = Cat(sent[p], e) /\ \A q \in Peers \ {p} : sent'[q] = sent[q]
  <2>1. Cat(inq[p], e) \in Texts /\ Cat(sent[p], e) \in Texts
    BY <1>3, TextFacts
  <2> QED BY <1>1, <1>2, <1>3, <2>1 DEF Types
<1>5. Due(p)' = Cat(Due(p), e) /\ \A q \in Peers \ {p} : Due(q)' = Due(q)
  <2>1. <<"hello">> \in Texts
    BY TextFacts
  <2> HIDE DEF e
  <2>2. Cat(<<"hello">>, Cat(sent[p], e)) = Cat(Cat(<<"hello">>, sent[p]), e)
    BY <1>3, <2>1, Assoc
  <2> QED BY <1>4, <2>2 DEF Due
<1>6. \A i \in 1 .. size :
        Held(slots[i])' = IF slots[i].fd = p THEN Cat(Held(slots[i]), e) ELSE Held(slots[i])
  <2> SUFFICES ASSUME NEW i \in 1 .. size
               PROVE  Held(slots[i])' = IF slots[i].fd = p THEN Cat(Held(slots[i]), e) ELSE Held(slots[i])
    OBVIOUS
  <2>1. /\ slots[i].fd \in Peers /\ slots[i].wr_buf \in Texts /\ slots[i].rd_buf \in Texts
        /\ \A q \in Peers : got[q] \in Texts /\ inq[q] \in Texts
    BY <1>2, SlotFacts
  <2>2. Held(slots[i])' = Whole(got[slots[i].fd], slots[i].wr_buf, slots[i].rd_buf, inq'[slots[i].fd])
    BY <1>1 DEF Held
  <2>3. CASE slots[i].fd = p
    <3>0. e \in Texts /\ got[p] \in Texts /\ inq[p] \in Texts
      BY <1>3, <2>1
    <3> HIDE DEF e
    <3>1. \A a, w, r, q \in Texts : Whole(a, w, r, Cat(q, e)) = Cat(Whole(a, w, r, q), e)
      BY <3>0, MovePiece
    <3>2. Whole(got[p], slots[i].wr_buf, slots[i].rd_buf, Cat(inq[p], e))
            = Cat(Whole(got[p], slots[i].wr_buf, slots[i].rd_buf, inq[p]), e)
      BY <2>1, <3>0, <3>1
    <3> QED BY <1>4, <2>2, <2>3, <3>2 DEF Held
  <2>4. CASE slots[i].fd # p
    BY <1>4, <2>1, <2>2, <2>4 DEF Held
  <2> QED BY <2>3, <2>4
<1>7. Types'
  BY <1>1, <1>2, <1>4 DEF Types, Passing
<1>8. Sockets' /\ Destroyed'
  BY <1>1 DEF IInv, Sockets, Destroyed, Passing
<1>9. Waiting'
  BY <1>1, <1>3, <1>4 DEF IInv, Waiting
<1>10. \A i \in 1 .. size : slots[i].fd \in Peers
  BY <1>2, SlotFacts
<1>11. Exact'
  BY <1>1, <1>5, <1>6, <1>10 DEF IInv, Exact
<1>12. InOrder'
  <2>1. ASSUME NEW i \in 1 .. size
        PROVE  SubSequence(Held(slots[i])', Due(slots[i].fd)')
    <3>1. Held(slots[i]) \in Texts /\ Due(slots[i].fd) \in Texts
      BY <1>2, SlotFacts, TextFacts DEF Held, Whole
    <3>2. SubSequence(Held(slots[i]), Due(slots[i].fd))
      BY DEF IInv, InOrder
    <3>3. SubSequence(Cat(Held(slots[i]), e), Cat(Due(slots[i].fd), e))
      BY <1>3, <3>1, <3>2, SubGrows
    <3>4. CASE slots[i].fd = p
      BY <1>1, <1>5, <1>6, <3>3, <3>4
    <3>5. CASE slots[i].fd # p
      BY <1>1, <1>5, <1>6, <1>10, <3>2, <3>5
    <3> QED BY <3>4, <3>5
  <2>2. ASSUME NEW q \in Peers PROVE SubSequence(got[q], Due(q)')
    <3>1. got[q] \in Texts /\ Due(q) \in Texts
      BY <1>2, SlotFacts
    <3>2. SubSequence(got[q], Due(q))
      BY DEF IInv, InOrder
    <3>3. SubSequence(got[q], Cat(Due(q), e))
      BY <1>3, <3>1, <3>2, SubGrows
    <3> QED BY <1>5, <3>2, <3>3
  <2> QED BY <1>1, <2>1, <2>2 DEF InOrder
<1> QED BY <1>7, <1>8, <1>9, <1>11, <1>12 DEF IInv

\* select starts a pass: the objects behind the clients are gone from it.
LEMMA SelectKeeps == ASSUME IInv, Select PROVE IInv'
<1>1. /\ slots' = SubSeq(slots, 1, size) /\ it' = 1 /\ end' = size /\ pc' \in {"accept", "pass"}
      /\ UNCHANGED <<size, open, overrun, backlog, inq, sent, got, unread, hungup>>
  BY DEF Select, peerVars
<1>2. Types /\ Len(slots) \in Nat /\ size \in Nat /\ size <= Len(slots)
  BY SlotFacts DEF IInv
<1>3. /\ slots' \in Seq(Ctx) /\ Len(slots') = size /\ \A i \in 1 .. size : slots'[i] = slots[i]
  <2>1. slots \in Seq(Ctx)
    BY <1>2 DEF Types
  <2>2. \A i \in 1 .. size : slots[i] \in Ctx
    BY <1>2, SlotFacts
  <2> QED BY <1>1, <1>2, <2>1, <2>2, SubSeqProperties
<1>4. Types'
  BY <1>1, <1>2, <1>3 DEF Types, Passing
<1>5. Sockets' /\ Destroyed' /\ Waiting'
  BY <1>1, <1>2, <1>3 DEF IInv, Sockets, Destroyed, Waiting
<1>6. \A i \in 1 .. size : Held(slots[i])' = Held(slots[i]) /\ Due(slots[i].fd)' = Due(slots[i].fd)
  BY <1>1, <1>3 DEF Held, Due
<1>7. Exact'
  BY <1>1, <1>3, <1>6 DEF IInv, Exact
<1>8. InOrder'
  BY <1>1, <1>6 DEF IInv, InOrder, Due
<1> QED BY <1>4, <1>5, <1>7, <1>8 DEF IInv

\* A client that was just accepted has the greeting to get, and all it sent is unread.
LEMMA AcceptKeeps == ASSUME IInv, handle_new_connections PROVE IInv'
<1>0. PICK n \in Nat, m \in Nat : n = size /\ m = Len(backlog)
  BY SlotFacts DEF IInv
<1> DEFINE new == [i \in 1 .. m |-> ClientCtx(backlog[i])]
<1>1. /\ pc = "accept" /\ pc' = "pass" /\ slots' = slots \o new /\ size' = n + m /\ end' = size'
      /\ open' = open \cup ToSet(backlog) /\ backlog' = <<>>
      /\ UNCHANGED <<it, overrun, inq, sent, got, unread, hungup>>
  BY <1>0 DEF handle_new_connections
<1>2. /\ Types /\ n = size /\ Len(slots) = n /\ Len(backlog) = m /\ it = 1
      /\ \A i \in 1 .. m : backlog[i] \in Peers
  <2>1. Types
    BY DEF IInv
  <2> QED BY <1>0, <1>1, <2>1, SlotFacts DEF Types
<1>3. new \in Seq(Ctx) /\ Len(new) = m /\ \A i \in 1 .. m : new[i] = ClientCtx(backlog[i])
  <2>1. \A p \in Peers : ClientCtx(p) \in Ctx
    BY TextFacts DEF ClientCtx, Ctx
  <2>2. new \in [1 .. m -> Ctx]
    BY <1>2, <2>1
  <2> QED BY <1>2, <2>2, IsASeq, LenProperties
<1>4. /\ slots' \in Seq(Ctx) /\ Len(slots') = n + m
      /\ \A i \in 1 .. n : slots'[i] = slots[i]
      /\ \A i \in 1 .. m : slots'[n + i] = ClientCtx(backlog[i])
  <2> HIDE DEF new
  <2>1. slots \in Seq(Ctx)
    BY <1>2 DEF Types
  <2>2. /\ slots \o new \in Seq(Ctx) /\ Len(slots \o new) = n + m
        /\ \A i \in 1 .. n + m : (slots \o new)[i] = IF i <= n THEN slots[i] ELSE new[i - n]
    <3>1. new \in Seq(Ctx)
      BY <1>3
    <3>2. /\ slots \o new \in Seq(Ctx) /\ Len(slots \o new) = Len(slots) + Len(new)
          /\ \A i \in 1 .. Len(slots) + Len(new) :
               (slots \o new)[i] = IF i <= Len(slots) THEN slots[i] ELSE new[i - Len(slots)]
      BY <2>1, <3>1, ConcatProperties
    <3> QED BY <1>2, <1>3, <3>2
  <2>3. ASSUME NEW i \in 1 .. m PROVE slots'[n + i] = ClientCtx(backlog[i])
    <3>1. n + i \in 1 .. n + m /\ ~ (n + i <= n) /\ n + i - n = i
      BY <1>2
    <3> QED BY <1>1, <1>3, <2>2, <3>1
  <2>4. ASSUME NEW i \in 1 .. n PROVE slots'[i] = slots[i]
    <3>1. i \in 1 .. n + m /\ i <= n
      BY <1>2
    <3> QED BY <1>1, <2>2, <3>1
  <2> QED BY <1>1, <2>2, <2>3, <2>4
<1> HIDE DEF new
<1>5. /\ \A i \in 1 .. m : slots'[n + i].fd = backlog[i] /\ backlog[i] \notin open
      /\ ToSet(backlog) = {backlog[i] : i \in 1 .. m}
  <2>1. DOMAIN backlog = 1 .. m
    BY <1>2, LenProperties DEF Types
  <2>2. ToSet(backlog) = {backlog[i] : i \in 1 .. m}
    BY <2>1 DEF ToSet
  <2>3. \A i \in 1 .. m : backlog[i] \notin open
    BY <1>2 DEF IInv, Sockets
  <2>4. \A i \in 1 .. m : slots'[n + i].fd = backlog[i]
    <3>1. \A p \in Peers : ClientCtx(p).fd = p
      BY DEF ClientCtx
    <3> QED BY <1>2, <1>4, <3>1
  <2> QED BY <2>2, <2>3, <2>4
<1>6. /\ \A i \in 1 .. size' : i \in 1 .. n \/ \E k \in 1 .. m : i = n + k
      /\ \A i \in 1 .. n : i \in 1 .. size'
      /\ \A k \in 1 .. m : n + k \in 1 .. size'
  <2>1. ASSUME NEW i \in 1 .. size', i \notin 1 .. n PROVE \E k \in 1 .. m : i = n + k
    <3>1. i - n \in 1 .. m /\ i = n + (i - n)
      BY <1>1, <2>1
    <3> QED BY <3>1
  <2> QED BY <1>1, <2>1
<1>7. Types'
  <2>1. open' \subseteq Peers
    BY <1>1, <1>2, <1>5 DEF Types
  <2>2. backlog' \in Seq(Peers)
    BY <1>1, EmptySeq
  <2> QED BY <1>1, <1>2, <1>4, <2>1, <2>2 DEF Types, Passing
<1>8. Sockets'
  <2>1. open' = {slots'[i].fd : i \in 1 .. size'}
    <3>1. open = {slots[i].fd : i \in 1 .. n}
      BY <1>2 DEF IInv, Sockets
    <3>2. ASSUME NEW q \in open' PROVE \E i \in 1 .. size' : slots'[i].fd = q
      <4>1. CASE q \in open
        BY <1>4, <1>6, <3>1, <4>1
      <4>2. CASE q \notin open
        <5>1. PICK i \in 1 .. m : q = backlog[i]
          BY <1>1, <1>5, <4>2
        <5>2. n + i \in 1 .. size' /\ slots'[n + i].fd = q
          BY <1>5, <1>6, <5>1
        <5> QED BY <5>2
      <4> QED BY <4>1, <4>2
    <3>3. ASSUME NEW i \in 1 .. size' PROVE slots'[i].fd \in open'
      <4>1. CASE i \in 1 .. n
        BY <1>1, <1>4, <3>1, <4>1
      <4>2. CASE i \notin 1 .. n
        <5>1. PICK k \in 1 .. m : i = n + k
          BY <1>6, <4>2
        <5>2. slots'[n + k].fd = backlog[k] /\ backlog[k] \in ToSet(backlog)
          BY <1>5
        <5> QED BY <1>1, <5>1, <5>2
      <4> QED BY <4>1, <4>2
    <3> QED BY <3>2, <3>3
  <2>2. ASSUME NEW i \in 1 .. size', NEW j \in 1 .. size', slots'[i].fd = slots'[j].fd PROVE i = j
    <3>1. \A k, l \in 1 .. n : slots[k].fd = slots[l].fd => k = l
      BY <1>2 DEF IInv, Sockets
    <3>2. \A k, l \in 1 .. m : backlog[k] = backlog[l] => k = l
      BY <1>2 DEF IInv, Sockets
    <3>3. \A k \in 1 .. n, l \in 1 .. m : slots'[k].fd # slots'[n + l].fd
      <4>1. \A k \in 1 .. n : slots[k].fd \in open
        BY <1>2 DEF IInv, Sockets
      <4> QED BY <1>4, <1>5, <4>1
    <3>4. CASE i \in 1 .. n /\ j \in 1 .. n
      BY <1>4, <2>2, <3>1, <3>4
    <3>5. CASE i \notin 1 .. n /\ j \notin 1 .. n
      <4>1. PICK k \in 1 .. m, l \in 1 .. m : i = n + k /\ j = n + l
        BY <1>6, <3>5
      <4>2. slots'[n + k].fd = backlog[k] /\ slots'[n + l].fd = backlog[l]
        BY <1>5
      <4>3. k = l
        BY <2>2, <3>2, <4>1, <4>2
      <4> QED BY <4>1, <4>3
    <3>6. CASE i \in 1 .. n /\ j \notin 1 .. n
      <4>1. PICK l \in 1 .. m : j = n + l
        BY <1>6, <3>6
      <4> QED BY <2>2, <3>3, <3>6, <4>1
    <3>7. CASE i \notin 1 .. n /\ j \in 1 .. n
      <4>1. PICK l \in 1 .. m : i = n + l
        BY <1>6, <3>7
      <4> QED BY <2>2, <3>3, <3>7, <4>1
    <3> QED BY <3>4, <3>5, <3>6, <3>7
  <2>3. Len(backlog') = 0
    BY <1>1, EmptySeq
  <2> QED BY <2>1, <2>2, <2>3 DEF Sockets
<1>9. Destroyed'
  BY <1>1, <1>2, <1>4 DEF Destroyed
<1>10. Waiting'
  <2>1. Len(backlog') = 0
    BY <1>1, EmptySeq
  <2> QED BY <1>1, <2>1 DEF IInv, Waiting
<1>11. \A i \in 1 .. n : Held(slots[i])' = Held(slots[i]) /\ Due(slots[i].fd)' = Due(slots[i].fd)
  BY <1>1, <1>4 DEF Held, Due
<1>12. ASSUME NEW i \in 1 .. m
       PROVE  Held(slots[n + i])' = Due(slots[n + i].fd)' /\ SubSequence(Held(slots[n + i]), Due(slots[n + i].fd))'
  <2> DEFINE p == backlog[i]
  <2>1. p \in Peers /\ p \notin open /\ slots'[n + i] = ClientCtx(p)
    BY <1>2, <1>4, <1>5
  <2>2. got[p] = <<>> /\ inq[p] = sent[p] /\ sent[p] \in Texts /\ Due(p) \in Texts
    BY <1>2, <2>1, SlotFacts DEF IInv, Waiting
  <2>3. Held(slots[n + i])' = Whole(<<>>, <<"hello">>, <<>>, sent[p])
    BY <1>1, <2>1, <2>2 DEF Held, ClientCtx
  <2>4. Whole(<<>>, <<"hello">>, <<>>, sent[p]) = Due(p)
    BY <2>2, TextFacts DEF Whole, Due
  <2>5. Due(slots[n + i].fd)' = Due(p)
    BY <1>1, <2>1 DEF Due, ClientCtx
  <2>6. SubSequence(Due(p), Due(p))
    BY <2>2, SubSelf
  <2> QED BY <2>3, <2>4, <2>5, <2>6
<1>13. Exact'
  <2> SUFFICES ASSUME ~overrun', NEW i \in 1 .. size', slots'[i].fd \notin hungup'
               PROVE  Held(slots[i])' = Due(slots[i].fd)'
    BY <1>1 DEF Exact
  <2>1. CASE i \in 1 .. n
    BY <1>1, <1>2, <1>4, <1>11, <2>1 DEF IInv, Exact
  <2>2. CASE i \notin 1 .. n
    <3>1. PICK k \in 1 .. m : i = n + k
      BY <1>6, <2>2
    <3> QED BY <1>12, <3>1
  <2> QED BY <2>1, <2>2
<1>14. InOrder'
  <2>1. ASSUME NEW i \in 1 .. size' PROVE SubSequence(Held(slots[i]), Due(slots[i].fd))'
    <3>1. CASE i \in 1 .. n
      <4>1. SubSequence(Held(slots[i]), Due(slots[i].fd))
        BY <1>2, <3>1 DEF IInv, InOrder
      <4> QED BY <1>1, <1>4, <1>11, <3>1, <4>1
    <3>2. CASE i \notin 1 .. n
      <4>1. PICK k \in 1 .. m : i = n + k
        BY <1>6, <3>2
      <4> QED BY <1>12, <4>1
    <3> QED BY <3>1, <3>2
  <2>2. ASSUME NEW p \in Peers PROVE SubSequence(got[p], Due(p))'
    BY <1>1 DEF IInv, InOrder, Due
  <2> QED BY <2>1, <2>2 DEF InOrder
<1> QED BY <1>7, <1>8, <1>9, <1>10, <1>13, <1>14 DEF IInv

\* The object visited is changed, and its socket stays: what the handlers do before they return.
LEMMA EditFacts ==
  ASSUME Types, it \in 1 .. Len(slots), NEW c \in Ctx, c.fd = slots[it].fd,
         slots' = [slots EXCEPT ![it] = c]
  PROVE  /\ slots' \in Seq(Ctx) /\ Len(slots') = Len(slots) /\ slots'[it] = c
         /\ \A k \in 1 .. Len(slots) : k # it => slots'[k] = slots[k]
         /\ \A k \in 1 .. Len(slots) : slots'[k].fd = slots[k].fd
<1>1. slots \in Seq(Ctx)
  BY DEF Types
<1>2. /\ slots' \in Seq(Ctx) /\ Len(slots') = Len(slots)
      /\ \A j \in 1 .. Len(slots) : slots'[j] = IF j = it THEN c ELSE slots[j]
  BY <1>1, ExceptSeq
<1> QED BY <1>2

\* A handler may move tokens between what the client got, its buffers and its socket, and drop
\* some; behind the clients it may only drop what the last one has not read.
LEMMA EditKeeps ==
  ASSUME IInv, pc \in {"read", "write"}, NEW c \in Ctx, c.fd = slots[it].fd,
         slots' = [slots EXCEPT ![it] = c],
         UNCHANGED <<size, end, open, overrun, backlog, sent, hungup>>,
         (pc' = pc /\ it' = it) \/ (pc' = "pass" /\ it' = it + 1),
         pc = "read" \/ it <= size \/ c.wr_buf = <<>>,
         got' \in [Peers -> Texts], inq' \in [Peers -> Texts], unread' \in [Peers -> 0 .. Room],
         \A q \in Peers \ {c.fd} : got'[q] = got[q] /\ inq'[q] = inq[q],
         c.fd \in open \/ (got' = got /\ inq' = inq),
         SubSequence(got[c.fd], Due(c.fd)) => SubSequence(got'[c.fd], Due(c.fd)),
         it <= size =>
           LET h == Whole(got'[c.fd], c.wr_buf, c.rd_buf, inq'[c.fd])
           IN  /\ c.fd \notin hungup => h = Held(slots[it])
               /\ SubSequence(Held(slots[it]), Due(c.fd)) => SubSequence(h, Due(c.fd)),
         it > size => \A w, r \in Texts :
           SubSequence(Whole(got[c.fd], w, r, inq[c.fd]), Due(c.fd))
             => SubSequence(Whole(got'[c.fd], w, r, inq'[c.fd]), Due(c.fd))
  PROVE  IInv'
<1> DEFINE p == c.fd
<1>1. Types /\ Len(slots) \in Nat /\ size \in Nat /\ size <= Len(slots) /\ it \in Nat /\ it >= 1
  BY SlotFacts DEF IInv
<1>2. it <= end /\ end = Len(slots) /\ it \in 1 .. Len(slots) /\ p \in Peers
  BY <1>1, SlotFacts DEF Types, Passing
<1>3. /\ slots' \in Seq(Ctx) /\ Len(slots') = Len(slots) /\ slots'[it] = c
      /\ \A k \in 1 .. Len(slots) : k # it => slots'[k] = slots[k]
      /\ \A k \in 1 .. Len(slots) : slots'[k].fd = slots[k].fd
  BY <1>1, <1>2, EditFacts
<1>4. Types'
  BY <1>1, <1>2, <1>3 DEF Types, Passing
<1>5. \A i \in 1 .. size : slots'[i].fd = slots[i].fd
  BY <1>1, <1>3
<1>6. Sockets'
  BY <1>5 DEF IInv, Sockets
<1>7. Destroyed'
  <2> SUFFICES ASSUME NEW k \in size + 1 .. Len(slots)
               PROVE  /\ slots'[k].fd \in open => slots'[k].fd = slots'[size].fd
                      /\ slots'[k].fd \notin open => it' > size
                      /\ k > it' \/ (k = it' /\ pc' # "read") => slots'[k].wr_buf = <<>>
    BY <1>3 DEF Destroyed
  <2>1. /\ slots[k].fd \in open => slots[k].fd = slots[size].fd
        /\ slots[k].fd \notin open => it > size
        /\ k > it \/ (k = it /\ pc # "read") => slots[k].wr_buf = <<>>
    BY DEF IInv, Destroyed, Passing
  <2>2. slots'[k].fd = slots[k].fd /\ (k # it => slots'[k] = slots[k])
    BY <1>1, <1>3
  <2>3. slots'[k].fd \in open => slots'[k].fd = slots'[size].fd
    <3>1. CASE size = 0
      BY <2>2, <3>1 DEF IInv, Sockets
    <3>2. CASE size # 0
      <4>1. slots'[size].fd = slots[size].fd
        BY <1>1, <1>3, <3>2
      <4> QED BY <2>1, <2>2, <4>1
    <3> QED BY <3>1, <3>2
  <2>4. slots'[k].fd \notin open => it' > size
    BY <1>1, <2>1, <2>2
  <2>5. ASSUME k > it' \/ (k = it' /\ pc' # "read") PROVE slots'[k].wr_buf = <<>>
    <3>1. CASE k = it
      BY <1>1, <1>3, <2>5, <3>1
    <3>2. CASE k # it
      BY <1>1, <2>1, <2>2, <2>5, <3>2
    <3> QED BY <3>1, <3>2
  <2> QED BY <2>3, <2>4, <2>5
<1>8. Waiting'
  <2>1. \A i \in 1 .. Len(backlog) : backlog[i] \notin open
    BY DEF IInv, Sockets
  <2>2. \A q \in Peers : q \notin open => got'[q] = got[q] /\ inq'[q] = inq[q]
    OBVIOUS
  <2> QED BY <2>1, <2>2 DEF IInv, Waiting
<1>9. \A i \in 1 .. size : slots[i].fd \in Peers /\ slots[i].wr_buf \in Texts /\ slots[i].rd_buf \in Texts
  BY <1>1, SlotFacts
<1>10. \A i \in 1 .. size : slots[i].fd # p => Held(slots[i])' = Held(slots[i])
  BY <1>1, <1>2, <1>3, <1>9 DEF Held
<1>11. it <= size => \A i \in 1 .. size : slots[i].fd = p => i = it
  BY <1>1 DEF IInv, Sockets
<1>12. it <= size => \A i \in 1 .. size : i = it => Held(slots[i])' = Whole(got'[p], c.wr_buf, c.rd_buf, inq'[p])
  BY <1>3 DEF Held
<1>13. \A i \in 1 .. size : Due(slots[i].fd)' = Due(slots[i].fd)
  BY <1>5 DEF Due
<1>14. Exact'
  <2> SUFFICES ASSUME ~overrun
               PROVE  /\ pc' \in {"read", "write"} => it' <= size
                      /\ \A i \in 1 .. size : slots[i].fd \notin hungup => Held(slots[i])' = Due(slots[i].fd)
    BY <1>5, <1>13 DEF Exact
  <2>1. it <= size /\ \A i \in 1 .. size : slots[i].fd \notin hungup => Held(slots[i]) = Due(slots[i].fd)
    BY DEF IInv, Exact
  <2>2. ASSUME NEW i \in 1 .. size, slots[i].fd \notin hungup PROVE Held(slots[i])' = Due(slots[i].fd)
    <3>1. CASE slots[i].fd = p
      <4>1. i = it
        BY <1>11, <2>1, <3>1
      <4>2. Whole(got'[p], c.wr_buf, c.rd_buf, inq'[p]) = Held(slots[it])
        BY <2>1, <2>2, <3>1
      <4> QED BY <1>12, <2>1, <2>2, <4>1, <4>2
    <3>2. CASE slots[i].fd # p
      BY <1>10, <2>1, <2>2, <3>2
    <3> QED BY <3>1, <3>2
  <2> QED BY <2>1, <2>2
<1>15. ASSUME NEW i \in 1 .. size PROVE SubSequence(Held(slots[i])', Due(slots[i].fd))
  <2>1. SubSequence(Held(slots[i]), Due(slots[i].fd))
    BY DEF IInv, InOrder
  <2>2. CASE slots[i].fd # p
    BY <1>10, <2>1, <2>2
  <2>3. CASE slots[i].fd = p /\ it <= size
    <3>1. i = it
      BY <1>11, <2>3
    <3>2. SubSequence(Whole(got'[p], c.wr_buf, c.rd_buf, inq'[p]), Due(p))
      BY <2>1, <2>3, <3>1
    <3> QED BY <1>12, <2>3, <3>1, <3>2
  <2>4. CASE slots[i].fd = p /\ it > size
    <3>1. slots'[i] = slots[i]
      BY <1>1, <1>3, <2>4
    <3>2. Held(slots[i])' = Whole(got'[p], slots[i].wr_buf, slots[i].rd_buf, inq'[p])
      BY <2>4, <3>1 DEF Held
    <3>3. SubSequence(Whole(got[p], slots[i].wr_buf, slots[i].rd_buf, inq[p]), Due(p))
      BY <2>1, <2>4 DEF Held
    <3> QED BY <1>9, <2>4, <3>2, <3>3
  <2> QED BY <1>1, <2>2, <2>3, <2>4
<1>16. ASSUME NEW q \in Peers PROVE SubSequence(got'[q], Due(q)')
  <2>1. SubSequence(got[q], Due(q)) /\ Due(q)' = Due(q)
    BY DEF IInv, InOrder, Due
  <2> QED BY <2>1
<1>17. InOrder'
  BY <1>13, <1>15, <1>16 DEF InOrder
<1> QED BY <1>4, <1>6, <1>7, <1>8, <1>14, <1>17 DEF IInv

\* The line taken is cut from the front of rd_buf and put at the end of wr_buf.
LEMMA LineTakenFacts ==
  ASSUME NEW c \in Ctx, NEW eol \in 1 .. Len(c.rd_buf)
  PROVE  /\ LineTaken(c, eol) \in Ctx /\ LineTaken(c, eol).fd = c.fd
         /\ \A a, q \in Texts : Whole(a, LineTaken(c, eol).wr_buf, LineTaken(c, eol).rd_buf, q)
                                  = Whole(a, c.wr_buf, c.rd_buf, q)
<1>1. c.rd_buf \in Texts /\ c.wr_buf \in Texts /\ c.fd \in Peers /\ Len(c.rd_buf) \in Nat
  BY LenProperties DEF Ctx, Texts
<1> DEFINE line == SubSeq(c.rd_buf, 1, eol)
           rest == SubSeq(c.rd_buf, eol + 1, Len(c.rd_buf))
<1>2. line \in Texts /\ rest \in Texts /\ Cat(line, rest) = c.rd_buf
  <2>1. eol \in 0 .. Len(c.rd_buf)
    BY <1>1
  <2> QED BY <1>1, <2>1, Cut
<1>3. LineTaken(c, eol) = [c EXCEPT !.wr_buf = Cat(c.wr_buf, line), !.rd_buf = rest, !.dir = DIR_OUT]
  BY Zenon DEF LineTaken, Cat
<1> HIDE DEF line, rest
<1>4. Cat(c.wr_buf, line) \in Texts
  BY <1>1, <1>2, TextFacts
<1>5. /\ LineTaken(c, eol) \in Ctx /\ LineTaken(c, eol).fd = c.fd
      /\ LineTaken(c, eol).wr_buf = Cat(c.wr_buf, line) /\ LineTaken(c, eol).rd_buf = rest
  BY <1>1, <1>2, <1>3, <1>4 DEF Ctx
<1>6. ASSUME NEW a \in Texts, NEW q \in Texts
      PROVE  Whole(a, Cat(c.wr_buf, line), rest, q) = Whole(a, c.wr_buf, Cat(line, rest), q)
  <2>1. \A w, r, e \in Texts : Whole(a, Cat(w, e), r, q) = Whole(a, w, Cat(e, r), q)
    BY MovePiece
  <2> QED BY <1>1, <1>2, <2>1
<1> QED BY <1>2, <1>5, <1>6

\* What is read goes from the socket to rd_buf; a destroyed object takes it from the last client.
LEMMA ReadSomeKeeps == ASSUME IInv, ReadSome PROVE IInv'
<1> DEFINE p == slots[it].fd
           r == Min2(Len(inq[p]), BufSize)
           piece == SubSeq(inq[p], 1, r)
           rest == SubSeq(inq[p], r + 1, Len(inq[p]))
           c0 == [slots[it] EXCEPT !.rd_buf = @ \o SubSeq(inq[p], 1, r)]
           eols == {i \in 1 .. Len(c0.rd_buf) : c0.rd_buf[i] = "nl"}
           eol == CHOOSE i \in eols : \A j \in eols : i <= j
           c == IF eols = {} THEN c0 ELSE LineTaken(c0, eol)
<1>1. /\ pc = "read" /\ r > 0 /\ p \in open
      /\ inq' = [inq EXCEPT ![p] = SubSeq(inq[p], r + 1, Len(inq[p]))]
      /\ slots' = [slots EXCEPT ![it] = c]
      /\ UNCHANGED <<size, pc, it, end, open, overrun, backlog, sent, got, unread, hungup>>
  BY DEF ReadSome
<1>2. Types /\ it \in 1 .. Len(slots)
  <2>1. Types
    BY DEF IInv
  <2>2. it <= end /\ end = Len(slots)
    BY <1>1, <2>1 DEF Types, Passing
  <2>3. it \in Nat \ {0} /\ Len(slots) \in Nat
    BY <2>1, SlotFacts
  <2> QED BY <2>1, <2>2, <2>3
<1>3. /\ slots[it] \in Ctx /\ p \in Peers /\ slots[it].wr_buf \in Texts /\ slots[it].rd_buf \in Texts
      /\ got[p] \in Texts /\ inq[p] \in Texts /\ Due(p) \in Texts
  BY <1>2, SlotFacts
<1>4. piece \in Texts /\ rest \in Texts /\ Cat(piece, rest) = inq[p]
  <2>1. Len(inq[p]) \in Nat
    BY <1>3, LenProperties DEF Texts
  <2>2. r \in 0 .. Len(inq[p])
    BY <2>1, EchoAssumption DEF Min2
  <2> HIDE DEF r
  <2> QED BY <1>3, <2>2, Cut
<1>5. c0 \in Ctx /\ c0.fd = p /\ c0.wr_buf = slots[it].wr_buf /\ c0.rd_buf = Cat(slots[it].rd_buf, piece)
  <2>1. c0 = [slots[it] EXCEPT !.rd_buf = Cat(slots[it].rd_buf, piece)]
    BY Zenon DEF Cat
  <2>2. Cat(slots[it].rd_buf, piece) \in Texts
    BY <1>3, <1>4, TextFacts
  <2> HIDE DEF c0, piece
  <2> QED BY <1>3, <2>1, <2>2 DEF Ctx
<1>6. c \in Ctx /\ c.fd = p /\ \A a, q \in Texts : Whole(a, c.wr_buf, c.rd_buf, q) = Whole(a, c0.wr_buf, c0.rd_buf, q)
  <2>1. CASE eols = {}
    BY <1>5, <2>1
  <2>2. CASE eols # {}
    <3> HIDE DEF c0
    <3>1. Len(c0.rd_buf) \in Nat
      BY <1>5, LenProperties DEF Ctx, Texts
    <3>2. eol \in 1 .. Len(c0.rd_buf)
      <4>1. \E i \in eols : \A j \in eols : i <= j
        <5>1. eols \subseteq Nat
          BY <3>1
        <5> QED BY <2>2, <5>1, LeastNat
      <4>2. eol \in eols
        BY <4>1
      <4> QED BY <4>2
    <3> HIDE DEF eol, eols
    <3>3. c = LineTaken(c0, eol)
      BY <2>2 DEF c
    <3> QED BY <1>5, <3>2, <3>3, LineTakenFacts
  <2> QED BY <2>1, <2>2
<1>7. Whole(got[p], c.wr_buf, c.rd_buf, rest) = Held(slots[it])
  <2> HIDE DEF c, c0, piece, rest
  <2>1. Whole(got[p], c.wr_buf, c.rd_buf, rest)
          = Whole(got[p], slots[it].wr_buf, Cat(slots[it].rd_buf, piece), rest)
    BY <1>3, <1>4, <1>5, <1>6
  <2>2. Whole(got[p], slots[it].wr_buf, Cat(slots[it].rd_buf, piece), rest)
          = Whole(got[p], slots[it].wr_buf, slots[it].rd_buf, Cat(piece, rest))
    <3>1. \A a, w, s, q, e \in Texts : Whole(a, w, Cat(s, e), q) = Whole(a, w, s, Cat(e, q))
      BY MovePiece
    <3> QED BY <1>3, <1>4, <3>1
  <2> QED BY <1>4, <2>1, <2>2 DEF Held
<1> HIDE DEF c, c0, eols, eol, piece, rest, r
<1>8. /\ inq' \in [Peers -> Texts] /\ inq'[p] = rest /\ \A q \in Peers \ {p} : inq'[q] = inq[q]
      /\ got' \in [Peers -> Texts] /\ unread' \in [Peers -> 0 .. Room] /\ got'[p] = got[p]
  <2>1. inq' = [inq EXCEPT ![p] = rest]
    BY <1>1 DEF rest
  <2> QED BY <1>1, <1>2, <1>3, <1>4, <2>1 DEF Types
<1>9. \A w, s \in Texts : SubSequence(Whole(got[p], w, s, inq[p]), Due(p))
                            => SubSequence(Whole(got'[p], w, s, inq'[p]), Due(p))
  <2>1. \A w, s \in Texts : SubSequence(Whole(got[p], w, s, Cat(piece, rest)), Due(p))
                              => SubSequence(Whole(got[p], w, s, rest), Due(p))
    <3>1. \A a, w, s, q, e, t \in Texts : SubSequence(Whole(a, w, s, Cat(e, q)), t) => SubSequence(Whole(a, w, s, q), t)
      BY DropPiece
    <3> HIDE DEF p
    <3> QED BY <1>3, <1>4, <3>1
  <2> QED BY <1>4, <1>8, <2>1
<1> QED BY <1>1, <1>3, <1>6, <1>7, <1>8, <1>9, EditKeeps

\* All is written: the client is read from again.
LEMMA WriteDoneKeeps == ASSUME IInv, WriteDone PROVE IInv'
<1> DEFINE c == [slots[it] EXCEPT !.dir = DIR_IN]
<1>1. /\ pc = "write" /\ slots[it].wr_buf = <<>> /\ slots' = [slots EXCEPT ![it] = c]
      /\ pc' = "pass" /\ it' = it + 1
      /\ UNCHANGED <<size, end, open, overrun, backlog, inq, sent, got, unread, hungup>>
  BY DEF WriteDone, NextClient, peerVars
<1>2. Types /\ it \in 1 .. Len(slots)
  <2>1. Types
    BY DEF IInv
  <2> QED BY <1>1, <2>1, SlotFacts DEF Types, Passing
<1>3. slots[it] \in Ctx
  BY <1>2, SlotFacts
<1>4. /\ c \in Ctx /\ c.fd = slots[it].fd /\ c.wr_buf = slots[it].wr_buf /\ c.rd_buf = slots[it].rd_buf
  BY <1>3 DEF Ctx
<1>5. Whole(got[c.fd], c.wr_buf, c.rd_buf, inq[c.fd]) = Held(slots[it])
  BY <1>4 DEF Held
<1>6. /\ inq' \in [Peers -> Texts] /\ got' \in [Peers -> Texts] /\ unread' \in [Peers -> 0 .. Room]
  BY <1>1, <1>2 DEF Types
<1> HIDE DEF c
<1> QED BY <1>1, <1>3, <1>4, <1>5, <1>6, EditKeeps

\* An object that has something to write is a client's.
LEMMA WriterIsClient ==
  ASSUME IInv, pc = "write", slots[it].wr_buf # <<>>
  PROVE  /\ it \in 1 .. size /\ it \in 1 .. Len(slots) /\ slots[it] \in Ctx
         /\ slots[it].fd \in Peers /\ slots[it].fd \in open
         /\ slots[it].wr_buf \in Texts /\ slots[it].rd_buf \in Texts
<1>1. Types /\ it \in 1 .. Len(slots) /\ size \in Nat /\ Len(slots) \in Nat /\ size <= Len(slots)
  <2>1. Types
    BY DEF IInv
  <2> QED BY <2>1, SlotFacts DEF Types, Passing
<1>2. ~ (it \in size + 1 .. Len(slots))
  BY DEF IInv, Destroyed, Passing
<1>3. it \in 1 .. size
  BY <1>1, <1>2
<1> QED BY <1>1, <1>3, SlotFacts DEF IInv, Sockets

\* What is written goes from the front of wr_buf to the peer.
LEMMA WriteSomeKeeps == ASSUME IInv, WriteSome PROVE IInv'
<1> DEFINE p == slots[it].fd
           w == slots[it].wr_buf
           n == Min2(Len(w), Room - unread[p])
           piece == SubSeq(w, 1, n)
           rest == SubSeq(w, n + 1, Len(w))
           c == [slots[it] EXCEPT !.wr_buf = rest]
<1>1. /\ pc = "write" /\ n > 0 /\ p \notin hungup
      /\ got' = [got EXCEPT ![p] = got[p] \o piece] /\ unread' = [unread EXCEPT ![p] = unread[p] + n]
      /\ slots' = [slots EXCEPT ![it] = c]
      /\ UNCHANGED <<size, pc, it, end, open, overrun, backlog, inq, sent, hungup>>
  BY DEF WriteSome
<1>2. Types
  BY DEF IInv
<1>3. w # <<>>
  <2>1. Len(<<>>) = 0 /\ Room - unread[p] \in Int
    <3>1. it \in 1 .. Len(slots)
      BY <1>1, <1>2, SlotFacts DEF Types, Passing
    <3> QED BY <1>2, <3>1, SlotFacts, EchoAssumption
  <2> QED BY <1>1, <2>1 DEF Min2
<1>4. /\ it \in 1 .. size /\ slots[it] \in Ctx /\ p \in Peers /\ p \in open /\ w \in Texts /\ slots[it].rd_buf \in Texts
      /\ got[p] \in Texts /\ inq[p] \in Texts /\ unread[p] \in 0 .. Room /\ Due(p) \in Texts
  BY <1>1, <1>2, <1>3, WriterIsClient, SlotFacts
<1>5. n \in 0 .. Len(w) /\ unread[p] + n \in 0 .. Room
  <2>1. Len(w) \in Nat
    BY <1>4, LenProperties DEF Texts
  <2> HIDE DEF p, w
  <2> QED BY <1>1, <1>4, <2>1, EchoAssumption DEF Min2
<1>6. piece \in Texts /\ rest \in Texts /\ Cat(piece, rest) = w
  <2> HIDE DEF n, w
  <2> QED BY <1>4, <1>5, Cut
<1>7. Cat(got[p], piece) \in Texts /\ got' = [got EXCEPT ![p] = Cat(got[p], piece)]
  <2>1. got' = [got EXCEPT ![p] = Cat(got[p], piece)]
    BY <1>1, Zenon DEF Cat
  <2> QED BY <1>4, <1>6, <2>1, TextFacts
<1> HIDE DEF piece, rest, n
<1>8. c \in Ctx /\ c.fd = p /\ c.wr_buf = rest /\ c.rd_buf = slots[it].rd_buf
  BY <1>4, <1>6 DEF Ctx
<1>9. /\ got' \in [Peers -> Texts] /\ got'[p] = Cat(got[p], piece) /\ \A q \in Peers \ {p} : got'[q] = got[q]
      /\ inq' \in [Peers -> Texts] /\ inq' = inq
  BY <1>1, <1>2, <1>4, <1>7 DEF Types
<1>10. unread' \in [Peers -> 0 .. Room]
  <2>1. unread \in [Peers -> 0 .. Room]
    BY <1>2 DEF Types
  <2> QED BY <1>1, <1>4, <1>5, <2>1
<1> HIDE DEF c
<1>11. Whole(got'[p], c.wr_buf, c.rd_buf, inq'[p]) = Held(slots[it])
  <2>1. \A a, v, s, q, e \in Texts : Whole(Cat(a, e), v, s, q) = Whole(a, Cat(e, v), s, q)
    BY MovePiece
  <2>2. Whole(Cat(got[p], piece), rest, slots[it].rd_buf, inq[p]) = Whole(got[p], w, slots[it].rd_buf, inq[p])
    BY <1>4, <1>6, <2>1
  <2> QED BY <1>8, <1>9, <2>2 DEF Held
<1>12. SubSequence(got'[p], Due(p))
  <2>1. SubSequence(Held(slots[it]), Due(p))
    BY <1>4 DEF IInv, InOrder
  <2>2. SubSequence(Whole(got'[p], c.wr_buf, c.rd_buf, inq'[p]), Due(p))
    BY <1>11, <2>1
  <2>3. \A a, v, s, q, t \in Texts : SubSequence(Whole(a, v, s, q), t) => SubSequence(a, t)
    BY DropPiece
  <2>4. got'[p] \in Texts /\ c.wr_buf \in Texts /\ c.rd_buf \in Texts /\ inq'[p] \in Texts
    BY <1>4, <1>6, <1>8, <1>9
  <2> QED BY <1>4, <2>2, <2>3, <2>4
<1>13. it <= size /\ ~ (it > size)
  BY <1>2, <1>4, SlotFacts
<1>14. /\ pc \in {"read", "write"} /\ c \in Ctx /\ c.fd = slots[it].fd /\ slots' = [slots EXCEPT ![it] = c]
       /\ UNCHANGED <<size, end, open, overrun, backlog, sent, hungup>> /\ pc' = pc /\ it' = it
       /\ \A q \in Peers \ {c.fd} : got'[q] = got[q] /\ inq'[q] = inq[q]
       /\ c.fd \in open
  BY <1>1, <1>4, <1>8, <1>9
<1> HIDE DEF p, w
<1>15. /\ SubSequence(got'[c.fd], Due(c.fd))
       /\ Whole(got'[c.fd], c.wr_buf, c.rd_buf, inq'[c.fd]) = Held(slots[it])
  BY <1>8, <1>11, <1>12
<1> QED BY <1>9, <1>10, <1>13, <1>14, <1>15, EditKeeps

\* The peer is gone: what was to be written is dropped, or the server ends.
LEMMA WriteLostKeeps == ASSUME IInv, WriteLost PROVE IInv'
<1> DEFINE p == slots[it].fd
           c == [slots[it] EXCEPT !.wr_buf = <<>>]
<1>1. /\ pc = "write" /\ slots[it].wr_buf # <<>> /\ p \in hungup
      /\ \/ slots' = [slots EXCEPT ![it] = c] /\ pc' = pc
         \/ pc' = "down" /\ slots' = slots
      /\ UNCHANGED <<size, it, end, open, overrun, backlog, inq, sent, got, unread, hungup>>
  BY DEF WriteLost, peerVars
<1>2. CASE pc' = "down" /\ slots' = slots
  BY <1>1, <1>2, ControlKeeps DEF peerVars
<1>3. CASE slots' = [slots EXCEPT ![it] = c] /\ pc' = pc
  <2>1. Types
    BY DEF IInv
  <2>2. /\ it \in 1 .. size /\ slots[it] \in Ctx /\ p \in Peers /\ p \in open
        /\ slots[it].wr_buf \in Texts /\ slots[it].rd_buf \in Texts
        /\ got[p] \in Texts /\ inq[p] \in Texts /\ Due(p) \in Texts
    BY <1>1, <2>1, WriterIsClient, SlotFacts
  <2>3. c \in Ctx /\ c.fd = p /\ c.wr_buf = <<>> /\ c.rd_buf = slots[it].rd_buf
    BY <2>2, TextFacts DEF Ctx
  <2>4. inq' \in [Peers -> Texts] /\ got' \in [Peers -> Texts] /\ unread' \in [Peers -> 0 .. Room]
    BY <1>1, <2>1 DEF Types
  <2>5. SubSequence(Held(slots[it]), Due(p)) => SubSequence(Whole(got[p], <<>>, slots[it].rd_buf, inq[p]), Due(p))
    <3>1. \A a, v, s, q, t \in Texts : SubSequence(Whole(a, v, s, q), t) => SubSequence(Whole(a, <<>>, s, q), t)
      BY DropPiece
    <3> QED BY <2>2, <3>1 DEF Held
  <2>6. it <= size /\ ~ (it > size)
    BY <2>1, <2>2, SlotFacts
  <2> HIDE DEF c
  <2> QED BY <1>1, <1>3, <2>2, <2>3, <2>4, <2>5, <2>6, EditKeeps
<1> QED BY <1>1, <1>2, <1>3

\* The client whose handler returned false is erased. Behind the clients the object visited names the last one,
\* and erasing there erases exactly that one.
LEMMA EraseKeeps == ASSUME IInv, ReadEnds \/ WriteNothing PROVE IInv'
<1> DEFINE p == slots[it].fd
<1>0. PICK n \in Nat, m \in Nat : n = size /\ m = Len(slots) /\ n <= m
  BY SlotFacts DEF IInv
<1>1. /\ pc \in {"read", "write"} /\ p \in open /\ p \in hungup /\ open' = open \ {p}
      /\ slots' = Erased(it) /\ size' = n - 1 /\ it' = it + 1 /\ pc' = "pass"
      /\ UNCHANGED <<end, overrun, backlog, inq, sent, got, unread, hungup>>
  <2>1. CASE ReadEnds
    BY <1>0, <2>1 DEF ReadEnds, Erase, peerVars
  <2>2. CASE WriteNothing
    <3>1. pc = "write" /\ slots[it].wr_buf # <<>>
      BY <2>2 DEF WriteNothing
    <3>2. p \in open
      BY <3>1, WriterIsClient
    <3> QED BY <1>0, <2>2, <3>2 DEF WriteNothing, Erase, peerVars
  <2> QED BY <2>1, <2>2
<1>2. Types /\ it \in 1 .. m /\ end = m /\ p \in Peers
  <2>1. Types
    BY DEF IInv
  <2> QED BY <1>0, <1>1, <2>1, SlotFacts DEF Types, Passing
<1>3. PICK e \in 1 .. n : slots[e].fd = p /\ ((it <= n /\ e = it) \/ (it > n /\ e = n))
  <2>1. PICK i \in 1 .. n : slots[i].fd = p
    BY <1>0, <1>1 DEF IInv, Sockets
  <2>2. CASE it <= n
    BY <1>2, <2>2
  <2>3. CASE it > n
    <3>1. it \in size + 1 .. Len(slots)
      BY <1>0, <1>2, <2>3
    <3>2. slots[n].fd = p
      BY <1>0, <1>1, <3>1 DEF IInv, Destroyed, Passing
    <3> QED BY <2>1, <2>3, <3>2
  <2> QED BY <1>2, <2>2, <2>3
<1> DEFINE src(i) == IF i < e THEN i ELSE i + 1
<1>4. /\ slots' \in Seq(Ctx) /\ Len(slots') = m
      /\ \A i \in 1 .. n - 1 : slots'[i] = slots[src(i)]
      /\ slots'[n].fd = slots[n].fd /\ slots'[n].wr_buf = <<>>
      /\ \A k \in n + 1 .. m : slots'[k] = slots[k]
  <2> DEFINE gone == [slots[n] EXCEPT !.rd_buf = <<>>, !.wr_buf = <<>>]
             at(k) == IF k = n THEN gone ELSE IF it <= k /\ k < n THEN slots[k + 1] ELSE slots[k]
  <2>1. slots' = [k \in 1 .. m |-> at(k)]
    BY <1>0, <1>1 DEF Erased
  <2>2. \A k \in 1 .. m : slots[k] \in Ctx
    BY <1>0, <1>2, SlotFacts
  <2>3. gone \in Ctx /\ gone.fd = slots[n].fd /\ gone.wr_buf = <<>>
    <3>1. slots[n] \in Ctx
      BY <1>0, <2>2
    <3> QED BY <3>1, TextFacts DEF Ctx
  <2> HIDE DEF gone
  <2>4. \A k \in 1 .. m : at(k) \in Ctx
    BY <1>0, <1>2, <2>2, <2>3
  <2>5. slots' \in [1 .. m -> Ctx]
    BY <2>1, <2>4
  <2>6. slots' \in Seq(Ctx) /\ Len(slots') = m
    BY <2>5, IsASeq, LenProperties
  <2>7. \A i \in 1 .. n - 1 : at(i) = slots[src(i)] /\ i \in 1 .. m
    BY <1>0, <1>2, <1>3
  <2>8. at(n) = gone /\ n \in 1 .. m
    BY <1>0
  <2>9. \A k \in n + 1 .. m : at(k) = slots[k] /\ k \in 1 .. m
    BY <1>0
  <2> HIDE DEF at, src
  <2> QED BY <2>1, <2>3, <2>6, <2>7, <2>8, <2>9
<1>5. /\ \A i \in 1 .. n - 1 : src(i) \in 1 .. n /\ src(i) # e
      /\ \A i, j \in 1 .. n - 1 : src(i) = src(j) => i = j
      /\ \A j \in 1 .. n : j # e => \E i \in 1 .. n - 1 : src(i) = j
      /\ e < n => n - 1 \in 1 .. n - 1 /\ src(n - 1) = n
  <2>1. \A i \in 1 .. n - 1 : src(i) \in 1 .. n /\ src(i) # e
    OBVIOUS
  <2>2. \A i, j \in 1 .. n - 1 : src(i) = src(j) => i = j
    OBVIOUS
  <2>3. ASSUME NEW j \in 1 .. n, j # e PROVE \E i \in 1 .. n - 1 : src(i) = j
    <3>1. CASE j < e
      BY <3>1
    <3>2. CASE j > e
      <4>1. j - 1 \in 1 .. n - 1 /\ src(j - 1) = j
        BY <3>2
      <4> QED BY <4>1
    <3> QED BY <2>3, <3>1, <3>2
  <2>4. e < n => n - 1 \in 1 .. n - 1 /\ src(n - 1) = n
    OBVIOUS
  <2> QED BY <2>1, <2>2, <2>3, <2>4
<1> HIDE DEF src
<1>6. \A i, j \in 1 .. n : slots[i].fd = slots[j].fd => i = j
  BY <1>0 DEF IInv, Sockets
<1>7. \A q : q \in open <=> \E i \in 1 .. n : slots[i].fd = q
  BY <1>0 DEF IInv, Sockets
<1>8. Types'
  BY <1>0, <1>1, <1>2, <1>3, <1>4 DEF Types, Passing
<1>9. Sockets'
  <2>1. ASSUME NEW q \in open' PROVE \E i \in 1 .. n - 1 : slots'[i].fd = q
    <3>1. PICK j \in 1 .. n : slots[j].fd = q
      BY <1>1, <1>7
    <3>2. j # e
      BY <1>1, <1>3, <3>1
    <3>3. PICK i \in 1 .. n - 1 : src(i) = j
      BY <1>5, <3>2
    <3> QED BY <1>4, <3>1, <3>3
  <2>2. ASSUME NEW i \in 1 .. n - 1 PROVE slots'[i].fd \in open'
    <3>1. src(i) \in 1 .. n /\ src(i) # e /\ slots'[i] = slots[src(i)]
      BY <1>4, <1>5
    <3>2. slots[src(i)].fd # p
      BY <1>3, <1>6, <3>1
    <3> QED BY <1>1, <1>7, <3>1, <3>2
  <2>3. open' = {slots'[i].fd : i \in 1 .. size'}
    BY <1>1, <2>1, <2>2
  <2>4. ASSUME NEW i \in 1 .. n - 1, NEW j \in 1 .. n - 1, slots'[i].fd = slots'[j].fd PROVE i = j
    <3>1. slots[src(i)].fd = slots[src(j)].fd /\ src(i) \in 1 .. n /\ src(j) \in 1 .. n
      BY <1>4, <1>5, <2>4
    <3> QED BY <1>5, <1>6, <3>1
  <2> QED BY <1>1, <2>3, <2>4 DEF IInv, Sockets
<1>10. Destroyed'
  <2> SUFFICES ASSUME NEW k \in n .. m
               PROVE  /\ slots'[k].fd \in open' => slots'[k].fd = slots'[n - 1].fd
                      /\ slots'[k].fd \notin open' => it + 1 > n - 1
                      /\ k >= it + 1 => slots'[k].wr_buf = <<>>
    BY <1>1, <1>2, <1>4 DEF Destroyed
  <2>1. \A l \in n + 1 .. m : /\ slots[l].fd \in open => slots[l].fd = slots[n].fd
                              /\ slots[l].fd \notin open => it > n
                              /\ l > it => slots[l].wr_buf = <<>>
    BY <1>0, <1>1 DEF IInv, Destroyed, Passing
  <2>2. k = n \/ k \in n + 1 .. m
    OBVIOUS
  <2>3. k >= it + 1 => slots'[k].wr_buf = <<>>
    BY <1>2, <1>4, <2>1, <2>2
  <2>4. CASE e = n
    <3>1. slots'[k].fd \notin open'
      BY <1>1, <1>3, <1>4, <2>1, <2>2, <2>4
    <3>2. it + 1 > n - 1
      BY <1>2, <1>3, <2>4
    <3> QED BY <2>3, <3>1, <3>2
  <2>5. CASE e < n
    <3>1. ~ (it > n) /\ slots'[n - 1] = slots[n]
      BY <1>2, <1>3, <1>4, <1>5, <2>5
    <3>2. slots'[k].fd = slots[n].fd
      BY <1>4, <2>1, <2>2, <3>1
    <3>3. slots[n].fd # p /\ n \in 1 .. n
      BY <1>3, <1>6, <2>5
    <3>4. slots'[k].fd \in open'
      BY <1>1, <1>7, <3>2, <3>3
    <3> QED BY <2>3, <3>1, <3>2, <3>4
  <2> QED BY <2>4, <2>5
<1>11. Waiting'
  <2>1. \A i \in 1 .. Len(backlog) : backlog[i] # p
    BY <1>1 DEF IInv, Sockets
  <2> QED BY <1>1, <2>1 DEF IInv, Waiting
<1>12. \A i \in 1 .. n - 1 : /\ Held(slots[i])' = Held(slots[src(i)])
                             /\ slots'[i].fd = slots[src(i)].fd
                             /\ Due(slots[i].fd)' = Due(slots[src(i)].fd)
                             /\ src(i) \in 1 .. size
  BY <1>0, <1>1, <1>4, <1>5 DEF Held, Due
<1>13. Exact'
  BY <1>1, <1>12 DEF IInv, Exact
<1>14. InOrder'
  <2>1. \A q \in Peers : Due(q)' = Due(q)
    BY <1>1 DEF Due
  <2> QED BY <1>1, <1>12, <2>1 DEF IInv, InOrder
<1> QED BY <1>8, <1>9, <1>10, <1>11, <1>13, <1>14 DEF IInv

LEMMA NextKeeps == IInv /\ [Next]_vars => IInv'
<1> SUFFICES ASSUME IInv, [Next]_vars PROVE IInv'
  OBVIOUS
<1>1. CASE Stop \/ Visit \/ PassEnds \/ Crash \/ ReadBlocks \/ ReadFails \/ WriteBlocks
  <2>1. UNCHANGED <<slots, size, end, open, peerVars>>
    BY <1>1 DEF Stop, Visit, PassEnds, Crash, ReadBlocks, ReadFails, WriteBlocks
  <2> QED BY <1>1, <2>1, ControlKeeps
<1>2. CASE Select \/ handle_new_connections
  BY <1>2, SelectKeeps, AcceptKeeps
<1>3. CASE ReadSome \/ ReadEnds \/ WriteNothing
  BY <1>3, ReadSomeKeeps, EraseKeeps
<1>4. CASE WriteDone \/ WriteSome \/ WriteLost
  BY <1>4, WriteDoneKeeps, WriteSomeKeeps, WriteLostKeeps
<1>5. ASSUME NEW p \in Peers, PeerConnect(p) \/ PeerReceive(p) \/ PeerHangup(p) PROVE IInv'
  BY <1>5, PeerKeeps
<1>6. ASSUME NEW p \in Peers, NEW t \in Tokens, PeerSend(p, t) PROVE IInv'
  BY <1>6, PeerSendKeeps
<1>7. CASE UNCHANGED vars
  BY <1>7 DEF vars, srvVars, peerVars, IInv, Types, Sockets, Destroyed, Waiting, Exact, InOrder, Passing, Held, Due
<1> QED BY <1>1, <1>2, <1>3, <1>4, <1>5, <1>6, <1>7 DEF Next, Server

LEMMA SpecIInv == Spec => []IInv
BY InitIInv, NextKeeps, PTL DEF Spec

---------------------------------------------------------------------------
(* What the invariant says of a server that runs for any time *)

\* There are as many open sockets as clients, and no more than peers.
LEMMA SocketCount == ASSUME IInv PROVE Cardinality(open) = size /\ size <= Cardinality(Peers)
<1>1. Types /\ size \in Nat /\ size <= Len(slots) /\ open \subseteq Peers
  BY SlotFacts DEF IInv, Types
<1> DEFINE f == [i \in 1 .. size |-> slots[i].fd]
<1>2. f \in Surjection(1 .. size, open) /\ f \in Injection(1 .. size, open)
  <2>1. open = {slots[i].fd : i \in 1 .. size} /\ \A i, j \in 1 .. size : slots[i].fd = slots[j].fd => i = j
    BY DEF IInv, Sockets
  <2>2. f \in [1 .. size -> open]
    BY <2>1
  <2>3. \A q \in open : \E i \in 1 .. size : f[i] = q
    BY <2>1
  <2>4. \A i, j \in 1 .. size : f[i] = f[j] => i = j
    BY <2>1
  <2> HIDE DEF f
  <2> QED BY <2>2, <2>3, <2>4 DEF Surjection, Injection, IsInjective
<1>3. IsFiniteSet(1 .. size) /\ Cardinality(1 .. size) = size
  BY <1>1, FS_Interval
<1> HIDE DEF f
<1>4. Cardinality(open) = size
  BY <1>2, <1>3, FS_Surjection
<1>5. Cardinality(open) <= Cardinality(Peers)
  BY <1>1, EchoAssumption, FS_Subset
<1> QED BY <1>4, <1>5

\* Whatever the peers do, a pass that erases clients leaves one open socket to each client: close
\* and erase, applied to a destroyed object even, never hit the socket of another client.
THEOREM OneSocketPerClientCorrect == Spec => []OneSocketPerClient
<1>1. IInv => OneSocketPerClient
  <2> SUFFICES ASSUME IInv PROVE OneSocketPerClient
    OBVIOUS
  <2>1. Types /\ size \in Nat /\ size <= Cardinality(Peers) /\ Cardinality(open) = size
    BY SlotFacts, SocketCount DEF IInv
  <2>2. /\ size <= Len(slots) /\ Len(slots) \in Nat
        /\ \A i \in 1 .. Len(slots) : slots[i] \in Ctx
        /\ \A p \in Peers : unread[p] \in 0 .. Room
    BY <2>1, SlotFacts
  <2>3. Cardinality(Peers) \in Nat
    BY EchoAssumption, FS_CardinalityType
  <2>4. \A i \in 1 .. Len(slots) : slots[i].fd \in Peers /\ slots[i].dir \in {DIR_IN, DIR_OUT}
    BY <2>2 DEF Ctx
  <2>5. TypeOK
    BY <2>1, <2>2, <2>3, <2>4 DEF TypeOK, Types, Passing
  <2>6. open = {c.fd : c \in clients}
    BY DEF IInv, Sockets, clients
  <2> QED BY <2>1, <2>5, <2>6 DEF OneSocketPerClient
<1> QED BY <1>1, SpecIInv, PTL

\* As long as no pass ran over a destroyed object, no token of a client is lost, doubled or moved,
\* however the reads and writes are cut.
THEOREM NothingLostCorrect == Spec => []NothingLost
<1>1. IInv => NothingLost
  BY DEF IInv, Exact, NothingLost, clients, Held, Whole, Due, Cat
<1> QED BY <1>1, SpecIInv, PTL

\* Even a pass over destroyed objects gives no client a token of another, or its own out of order.
THEOREM OwnTokensInOrderCorrect == Spec => []OwnTokensInOrder
<1>1. IInv => OwnTokensInOrder
  BY DEF IInv, InOrder, OwnTokensInOrder, Due, Cat
<1> QED BY <1>1, SpecIInv, PTL
=============================================================================
